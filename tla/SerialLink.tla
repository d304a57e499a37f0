----------------------------- MODULE SerialLink ------------------------------
(***************************************************************************)
(* The coordinator at one end of a serial line that may lose bytes or add  *)
(* some, the FrameParser at the other (onSerialData(),                     *)
(* src/src/ZigbeeDongle.cpp).  The coordinator sends whole frames; the     *)
(* question is which of them come out of the parser.                       *)
(***************************************************************************)
EXTENDS FrameParser

CONSTANTS
  Sendable,   \* environment: the frames the coordinator sends
  Noise,      \* environment: the bytes the line may add
  MaxFaults   \* bound: bytes lost or added

ASSUME LinkConstants ==
  /\ Noise \subseteq Byte
  /\ MaxFaults \in Nat
  /\ \A f \in Sendable : IsFrame(f)

VARIABLES
  current,  \* the frame being sent, or sent last
  wire,     \* the bytes of it that are still to come
  intact,   \* none of its bytes was lost and none came in between
  synced,   \* the parser was in WaitSOF when it began
  faults    \* faults of the line so far

linkVars == <<current, wire, intact, synced, faults>>
vars == <<parserVars, linkVars>>

Init ==
  /\ ParserInit
  /\ current \in Sendable
  /\ wire = <<>>
  /\ intact = FALSE
  /\ synced = FALSE
  /\ faults = 0

-----------------------------------------------------------------------------
StartFrame(f) ==
  /\ wire = <<>>
  /\ current' = f
  /\ wire' = Serialize(f)
  /\ intact' = TRUE
  /\ synced' = (state = "WaitSOF")
  /\ UNCHANGED <<parserVars, faults>>

Arrive ==
  /\ wire # <<>>
  /\ Feed(Head(wire))
  /\ wire' = Tail(wire)
  /\ UNCHANGED <<current, intact, synced, faults>>

LoseByte ==
  /\ wire # <<>> /\ faults < MaxFaults
  /\ wire' = Tail(wire)
  /\ intact' = FALSE
  /\ faults' = faults + 1
  /\ UNCHANGED <<parserVars, current, synced>>

AddByte(b) ==
  /\ faults < MaxFaults
  /\ Feed(b)
  /\ intact' = FALSE
  /\ faults' = faults + 1
  /\ UNCHANGED <<current, wire, synced>>

Pop == NextFrame /\ UNCHANGED linkVars

Next ==
  \/ \E f \in Sendable : StartFrame(f)
  \/ Arrive \/ LoseByte
  \/ \E b \in Noise : AddByte(b)
  \/ Pop

Spec == Init /\ [][Next]_vars

-----------------------------------------------------------------------------
(***************************************************************************)
(* Properties                                                              *)
(***************************************************************************)
FrameComplete == wire # <<>> /\ wire' = <<>> /\ intact'
Queued == frames' = Append(frames, current)

\* A frame that begins while the parser waits for an SOF, and arrives undisturbed,
\* comes out of the parser as it was sent, whatever came before it (cpp:97-152).  One
\* that begins while the parser is in an earlier frame is lost: bytes once consumed are
\* not scanned for an SOF again.
SyncedFrameQueued == [][FrameComplete /\ synced => Queued]_vars
=============================================================================
