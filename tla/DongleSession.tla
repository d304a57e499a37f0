---------------------------- MODULE DongleSession ----------------------------
(***************************************************************************)
(* What ZigbeeDongle promises the thread that calls connect() and          *)
(* disconnect() on a line that does not fail (ZigbeeDongle.hpp:78-107,     *)
(* ZigbeeEvent.hpp:16-26): one session at a time, between two events; the  *)
(* serial port is held during a session and not between two; and a call    *)
(* that fails leaves no trace.  Threads, locks, waits and the coordinator  *)
(* do not appear; DongleRefinement shows that DongleLifecycle implements   *)
(* this.                                                                   *)
(***************************************************************************)
EXTENDS Naturals

VARIABLES
  phase,   \* what the caller can tell of the dongle
  held,    \* the serial port is open
  begun,   \* DongleConnectedEvents seen
  ended    \* DongleDisconnectedEvents seen

session == <<phase, held, begun, ended>>

Phases == {"down", "busy", "established", "up", "ending"}

SessionTypeOK ==
  phase \in Phases /\ held \in BOOLEAN /\ begun \in Nat /\ ended \in Nat

Init == phase = "down" /\ ~held /\ begun = 0 /\ ended = 0

Goto(from, to) == phase = from /\ phase' = to

\* A call of connect() or of disconnect() begins, and one that brings no session
\* about returns with the port released.
Begin  == Goto("down", "busy") /\ UNCHANGED <<held, begun, ended>>
Return == Goto("busy", "down") /\ ~held /\ UNCHANGED <<held, begun, ended>>

\* The port is opened only to begin a session, closed only after one or when none
\* comes about.
Acquire == phase = "busy" /\ ~held /\ held' = TRUE /\ UNCHANGED <<phase, begun, ended>>
Release == phase \in {"busy", "ending"} /\ held /\ held' = FALSE
           /\ UNCHANGED <<phase, begun, ended>>

\* isConnected() changes first, then the event is emitted.
Establish    == Goto("busy", "established") /\ held /\ UNCHANGED <<held, begun, ended>>
AnnounceUp   == Goto("established", "up") /\ begun' = begun + 1 /\ UNCHANGED <<held, ended>>
End          == Goto("up", "ending") /\ UNCHANGED <<held, begun, ended>>
AnnounceDown == Goto("ending", "down") /\ ~held /\ ended' = ended + 1
                /\ UNCHANGED <<held, begun>>

Next ==
  \/ Begin \/ Return \/ Acquire \/ Release
  \/ Establish \/ AnnounceUp \/ End \/ AnnounceDown

Spec == Init /\ [][Next]_session
=============================================================================
