---------------------------- MODULE MCSerialLink ----------------------------
(***************************************************************************)
(* Instances of SerialLink for TLC: bytes of three bits, of which 7 is the *)
(* SOF, at most two bytes of data and four subsystems.                     *)
(***************************************************************************)
EXTENDS SerialLink
LOCAL INSTANCE Bitwise

XorOfThreeBits(a, b) == a ^^ b

\* Frames with no data, and with data that look like the start of a frame, like a
\* length that is allowed and like one that is not.
SomeFrames ==
  {MakeFrame(5, 1, d) : d \in {<<>>, <<7>>, <<7, 0>>, <<2, 3>>}}
    \cup {MakeFrame(7, 7, <<>>)}
=============================================================================
