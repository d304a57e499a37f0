-------------------------- MODULE MCDongleLifecycle --------------------------
(***************************************************************************)
(* Instances of DongleLifecycle for TLC.                                   *)
(***************************************************************************)
EXTENDS DongleRefinement, TLC

\* The application's threads are interchangeable (safety runs only).
ThreadSymmetry == Permutations(Threads)
=============================================================================
