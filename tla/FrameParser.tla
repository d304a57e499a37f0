----------------------------- MODULE FrameParser -----------------------------
(***************************************************************************)
(* The ZNP wire format and its streaming parser (src/src/ZNPFrame.cpp):    *)
(* Frame::serialize(), Frame::deserialize(), FrameParser::feed() and       *)
(* FrameParser::nextFrame().                                               *)
(*                                                                         *)
(* A frame on the wire is SOF | LEN | CMD0 | CMD1 | DATA(LEN) | FCS, the   *)
(* FCS being the XOR of all that follows SOF.  The numbers of the code     *)
(* (bytes 0..255, SOF = 254, MAX_DATA_LEN = 250, 32 subsystems) are        *)
(* constants here, so that a small alphabet can be checked.                *)
(***************************************************************************)
EXTENDS Integers, Sequences

CONSTANTS
  Byte,          \* uint8_t
  SOF,           \* SOF
  MaxDataLen,    \* MAX_DATA_LEN
  Subsystems,    \* CMD0 is a multiple of Subsystems plus a subsystem number
  BitXor(_, _),  \* ^
  MaxQueue       \* bound: parsed frames not yet popped when more bytes come

ASSUME WireConstants ==
  /\ Byte \subseteq Nat
  /\ MaxDataLen \in Nat /\ 0 .. MaxDataLen \subseteq Byte
  /\ SOF \in Byte /\ SOF > MaxDataLen
  /\ Subsystems \in Nat \ {0}
  /\ MaxQueue \in Nat \ {0}

ASSUME XorOfBytes == \A a, b \in Byte : BitXor(a, b) \in Byte

ASSUME XorLaws ==
  /\ \A a \in Byte : BitXor(0, a) = a
  /\ \A a, b \in Byte : BitXor(a, b) = BitXor(b, a)
  /\ \A a, b, c \in Byte : BitXor(BitXor(a, b), c) = BitXor(a, BitXor(b, c))

-----------------------------------------------------------------------------
(***************************************************************************)
(* Frames                                                                  *)
(***************************************************************************)

\* cmd0 & 0xE0 and cmd0 & 0x1F, and the | that puts them together again
TypeBits(cmd0)  == cmd0 - (cmd0 % Subsystems)
SubsBits(cmd0)  == cmd0 % Subsystems
Cmd0(frame)     == frame.type + frame.subsystem

MakeFrame(cmd0, cmd1, data) ==
  [type |-> TypeBits(cmd0), subsystem |-> SubsBits(cmd0), command |-> cmd1, data |-> data]

\* A frame of the code: the two enumerations hold the bits of one CMD0 byte, and
\* serialize() asserts that the data are not too long.
IsFrame(f) ==
  /\ Cmd0(f) \in Byte /\ f.command \in Byte
  /\ f.data \in Seq(Byte) /\ Len(f.data) <= MaxDataLen
  /\ f = MakeFrame(Cmd0(f), f.command, f.data)

\* The loop  fcs = base; for (b : bytes) fcs ^= b;  after all of bytes.
XorFrom(base, bytes) ==
  LET fcs[n \in Nat] == IF n = 0 THEN base ELSE BitXor(fcs[n - 1], bytes[n])
  IN  fcs[Len(bytes)]
ComputeFCS(bytes) == XorFrom(0, bytes)

\* What the FCS covers: Length | CMD0 | CMD1 | Data
Covered(frame) == <<Len(frame.data), Cmd0(frame), frame.command>> \o frame.data

Serialize(frame) ==
  <<SOF>> \o Covered(frame) \o <<ComputeFCS(Covered(frame))>>

Invalid == "InvalidFrame"

\* Bytes beyond the FCS are ignored, and so is MAX_DATA_LEN.
Deserialize(bytes) ==
  IF /\ Len(bytes) >= 5 /\ bytes[1] = SOF
     /\ Len(bytes) >= 5 + bytes[2]
     /\ ComputeFCS(SubSeq(bytes, 2, 4 + bytes[2])) = bytes[5 + bytes[2]]
  THEN MakeFrame(bytes[3], bytes[4], SubSeq(bytes, 5, 4 + bytes[2]))
  ELSE Invalid

-----------------------------------------------------------------------------
(***************************************************************************)
(* The parser                                                              *)
(***************************************************************************)
VARIABLES
  state, length, cmd0, cmd1, dataAccum,  \* state_, length_, cmd0_, cmd1_, dataAccum_
  frames,   \* frames_
  pending,  \* history: the bytes fed since, and with, the SOF of a frame begun
  raw       \* history: the bytes each frame in frames was parsed from

parserVars == <<state, length, cmd0, cmd1, dataAccum, frames, pending, raw>>

States == {"WaitSOF", "Length", "CMD0", "CMD1", "Data", "FCS"}

ParserInit ==
  /\ state = "WaitSOF"
  /\ length = 0 /\ cmd0 = 0 /\ cmd1 = 0
  /\ dataAccum = <<>>
  /\ frames = <<>>
  /\ pending = <<>>
  /\ raw = <<>>

-----------------------------------------------------------------------------
(***************************************************************************)
(* Faulty variants, not part of ParserNext: each breaks a property when it *)
(* takes the place of the definition it is named after.                    *)
(***************************************************************************)

\* The length byte is left out of the checksum.
Computed_NoLength == XorFrom(BitXor(cmd0, cmd1), dataAccum)

\* A length beyond MAX_DATA_LEN is accepted.
FeedLength_Unchecked(b) ==
  /\ state = "Length"
  /\ state' = "CMD0" /\ pending' = Append(pending, b) /\ length' = b
  /\ UNCHANGED <<cmd0, cmd1, dataAccum, frames, raw>>

\* The data of a broken frame are not cleared.
FeedCMD1_NotCleared(b) ==
  /\ state = "CMD1"
  /\ state' = IF length = 0 THEN "FCS" ELSE "Data"
  /\ cmd1' = b
  /\ pending' = Append(pending, b)
  /\ UNCHANGED <<length, cmd0, dataAccum, frames, raw>>

\* A frame without data is overlooked.
FeedCMD1_AlwaysData(b) ==
  /\ state = "CMD1"
  /\ state' = "Data"
  /\ cmd1' = b
  /\ dataAccum' = <<>>
  /\ pending' = Append(pending, b)
  /\ UNCHANGED <<length, cmd0, frames, raw>>

\* One byte of data too many is taken.
FeedData_OffByOne(b) ==
  /\ state = "Data"
  /\ dataAccum' = Append(dataAccum, b)
  /\ state' = IF Len(dataAccum) = length THEN "FCS" ELSE "Data"
  /\ pending' = Append(pending, b)
  /\ UNCHANGED <<length, cmd0, cmd1, frames, raw>>

-----------------------------------------------------------------------------
(***************************************************************************)
(* The steps of the parser                                                 *)
(***************************************************************************)

\* The parser's own computation of the FCS
Computed == XorFrom(BitXor(BitXor(cmd0, cmd1), length), dataAccum)

FeedWaitSOF(b) ==
  /\ state = "WaitSOF"
  /\ IF b = SOF
     THEN state' = "Length" /\ pending' = <<b>>
     ELSE UNCHANGED <<state, pending>>
  /\ UNCHANGED <<length, cmd0, cmd1, dataAccum, frames, raw>>

FeedLength(b) ==
  /\ state = "Length"
  /\ IF b > MaxDataLen
     THEN state' = "WaitSOF" /\ pending' = <<>> /\ UNCHANGED length
     ELSE state' = "CMD0" /\ pending' = Append(pending, b) /\ length' = b
  /\ UNCHANGED <<cmd0, cmd1, dataAccum, frames, raw>>

FeedCMD0(b) ==
  /\ state = "CMD0"
  /\ state' = "CMD1" /\ cmd0' = b
  /\ pending' = Append(pending, b)
  /\ UNCHANGED <<length, cmd1, dataAccum, frames, raw>>

FeedCMD1(b) ==
  /\ state = "CMD1"
  /\ state' = IF length = 0 THEN "FCS" ELSE "Data"
  /\ cmd1' = b
  /\ dataAccum' = <<>>
  /\ pending' = Append(pending, b)
  /\ UNCHANGED <<length, cmd0, frames, raw>>

FeedData(b) ==
  /\ state = "Data"
  /\ dataAccum' = Append(dataAccum, b)
  /\ state' = IF Len(dataAccum') = length THEN "FCS" ELSE "Data"
  /\ pending' = Append(pending, b)
  /\ UNCHANGED <<length, cmd0, cmd1, frames, raw>>

FeedFCS(b) ==
  /\ state = "FCS"
  /\ IF Computed = b
     THEN /\ frames' = Append(frames, MakeFrame(cmd0, cmd1, dataAccum))
          /\ raw' = Append(raw, Append(pending, b))
          /\ dataAccum' = <<>>
     ELSE UNCHANGED <<frames, raw, dataAccum>>
  /\ state' = "WaitSOF" /\ pending' = <<>>
  /\ UNCHANGED <<length, cmd0, cmd1>>

\* feed(): one turn of its loop
Feed(b) ==
  /\ Len(frames) < MaxQueue
  /\ \/ FeedWaitSOF(b) \/ FeedLength(b) \/ FeedCMD0(b)
     \/ FeedCMD1(b) \/ FeedData(b) \/ FeedFCS(b)

\* nextFrame()
NextFrame ==
  /\ frames # <<>>
  /\ frames' = Tail(frames) /\ raw' = Tail(raw)
  /\ UNCHANGED <<state, length, cmd0, cmd1, dataAccum, pending>>

ParserNext == (\E b \in Byte : Feed(b)) \/ NextFrame

ParserSpec == ParserInit /\ [][ParserNext]_parserVars

-----------------------------------------------------------------------------
(***************************************************************************)
(* Properties                                                              *)
(***************************************************************************)
ParserTypeOK ==
  /\ state \in States
  /\ length \in 0 .. MaxDataLen
  /\ cmd0 \in Byte /\ cmd1 \in Byte
  /\ dataAccum \in Seq(Byte)
  /\ pending \in Seq(Byte)
  /\ raw \in Seq(Seq(Byte))
  /\ frames \in Seq([type : Nat, subsystem : Nat, command : Byte, data : Seq(Byte)])

\* The parser's registers hold exactly what came in since the SOF: nothing of an
\* earlier, broken frame is left in them when they are used (cpp:97-152).
Header == <<SOF, length, cmd0, cmd1>>
RegistersMatchInput ==
  /\ state = "WaitSOF" => pending = <<>>
  /\ state = "Length"  => pending = <<SOF>>
  /\ state = "CMD0"    => pending = <<SOF, length>>
  /\ state = "CMD1"    => pending = <<SOF, length, cmd0>>
  /\ state = "Data"    => pending = Header \o dataAccum /\ Len(dataAccum) < length
  /\ state = "FCS"     => pending = Header \o dataAccum /\ Len(dataAccum) = length

\* However bad the line, the parser is never more bytes into what it takes for a frame
\* than the longest frame has (ZNPFrame.hpp:18-19, cpp:104-111, cpp:126-130).  It says
\* nothing of being in step: the parser may take the middle of a frame for a beginning.
FrameExtentBounded == Len(pending) <= MaxDataLen + 4

\* Every queued frame is one that was on the wire, byte for byte, with a valid
\* FCS: both the encoder and the other decoder agree (cpp:29-91, cpp:132-149).
FramesGenuine ==
  /\ Len(raw) = Len(frames)
  /\ \A i \in 1 .. Len(frames) :
       raw[i] = Serialize(frames[i]) /\ Deserialize(raw[i]) = frames[i]
=============================================================================
