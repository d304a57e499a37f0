--------------------------- MODULE DongleRefinement --------------------------
(***************************************************************************)
(* DongleLifecycle implements DongleSession when one thread makes all the  *)
(* calls, the event callback makes none and the line does not fail.  The   *)
(* three conditions are needed: MCdisconnectDuringConnect and              *)
(* MCreconnectAfterError show sessions that break the promise without them.*)
(***************************************************************************)
EXTENDS DongleLifecycle

\* The session as the caller can tell it from connected_, from the local
\* wasConnected of a disconnect() and from being inside a call.
SessionPhase ==
  IF connected
  THEN IF \E t \in Threads : pc[t] = "announce" THEN "established" ELSE "up"
  ELSE IF \E t \in Threads : wasConnected[t] THEN "ending"
  ELSE IF AllIdle THEN "down" ELSE "busy"

Session == INSTANCE DongleSession
  WITH phase <- SessionPhase, held <- (port = "open"),
       begun <- connectedEvents, ended <- disconnectedEvents

\* Every step of connect(), disconnect() and the I/O thread is a step of the
\* promised session or none: sessions follow one another, each between its two
\* events, and the port is open exactly when a session is up, comes up or goes down.
ImplementsSession == Session!Spec
=============================================================================
