------------------------- MODULE FrameDispatchProofs --------------------------
(***************************************************************************)
(* Theorems about FrameDispatch, for any devices, any addresses the        *)
(* network gives them, any capabilities and contents, and any width of a   *)
(* byte.                                                                   *)
(***************************************************************************)
EXTENDS FrameDispatch, SequenceTheorems, TLAPS

\* The handlers read in d what the coordinator meant by f.
Reads(d, f) ==
  /\ Complete(f.kind, d)
  /\ f.kind \in {"joined", "left"} => Addr(d) = f.addr /\ Eui(d) = f.eui
  /\ f.kind = "joined" => Caps(d) = f.info
  /\ f.kind = "left" => Rejoin(d) = f.info
  /\ f.kind = "message" => SrcAddr(d) = f.addr /\ Content(d) = f.info

\* A frame that came whole is being handled ...
Handled ==
  /\ sent \in Indications /\ kind = sent.kind /\ Reads(data, sent)
  /\ step # "dispatch" =>
       <<kind, step>> \in {<<"joined", "joined">>, <<"left", "remove">>,
                           <<"message", "touch">>, <<"message", "message">>}
  /\ event = IF step = "remove" THEN sent ELSE NoEvent

\* ... or one that was cut short is about to be dropped.
CutShort ==
  /\ step = "dispatch" /\ sent = NoEvent /\ event = NoEvent
  /\ kind \in {"joined", "left", "message"} /\ ~Complete(kind, data)

FrameInv == IF step = "idle" THEN event = Meaning(sent) ELSE Handled \/ CutShort

\* A known device has an address it may have been given, and the index leads to a known
\* device that has the address.
RegistryTyped ==
  /\ Known \subseteq Euis /\ devices \in [Known -> DeviceStates]
  /\ DOMAIN addrToEui \subseteq Word /\ addrToEui \in [DOMAIN addrToEui -> Euis]
AddressGiven == \A e \in Known : devices[e].addr \in MayUse[e]
IndexLeads ==
  \A a \in DOMAIN addrToEui : addrToEui[a] \in Known /\ devices[addrToEui[a]].addr = a
RegistryInv == RegistryTyped /\ AddressGiven /\ IndexLeads /\ SeenMeansHeard

\* The sender of a message that is under way, if it is still known, still has the address
\* it was looked up by.
SenderInv ==
  step = "touch" => /\ sender \in Euis
                    /\ sender \in Known => devices[sender].addr = SrcAddr(data)

DispatchInv == TypeOK /\ FrameInv /\ RegistryInv /\ SenderInv

-----------------------------------------------------------------------------
(***************************************************************************)
(* Payloads                                                                *)
(***************************************************************************)
LEMMA WordOfBytes ==
  ASSUME NEW w \in Word
  PROVE  /\ Bytes2(w) \in Seq(Nat) /\ Len(Bytes2(w)) = 2
         /\ Bytes2(w)[1] + ByteMod * Bytes2(w)[2] = w
<1>1. ByteMod \in Nat /\ ByteMod > 0 /\ w \in Nat
  BY DispatchConstants DEF Word
<1>2. w % ByteMod \in Nat /\ w \div ByteMod \in Nat
  BY <1>1
<1>3. (w % ByteMod) + ByteMod * (w \div ByteMod) = w
  BY <1>1
<1> DEFINE lo == w % ByteMod
           hi == w \div ByteMod
<1> HIDE DEF lo, hi
<1>4. <<lo, hi>> \in Seq(Nat) /\ Len(<<lo, hi>>) = 2 /\ <<lo, hi>>[1] = lo /\ <<lo, hi>>[2] = hi
  BY <1>2 DEF lo, hi
<1> QED
  BY <1>3, <1>4 DEF Bytes2, lo, hi

\* Where the parts of a concatenation are.
Joins(v, s, t) ==
  /\ v \in Seq(Nat) /\ Len(s) \in Nat /\ Len(t) \in Nat /\ Len(v) = Len(s) + Len(t)
  /\ \A i \in 1 .. Len(s) : v[i] = s[i]
  /\ \A i \in 1 .. Len(t) : v[i + Len(s)] = t[i]

LEMMA Places ==
  ASSUME NEW s \in Seq(Nat), NEW t \in Seq(Nat)
  PROVE  Joins(s \o t, s, t)
<1> DEFINE st == s \o t
           m == Len(s)
<1>1. /\ st \in Seq(Nat) /\ Len(st) = m + Len(t) /\ m \in Nat /\ Len(t) \in Nat
      /\ \A i \in 1 .. m + Len(t) : st[i] = IF i <= m THEN s[i] ELSE t[i - m]
  BY ConcatProperties, LenProperties
<1> HIDE DEF st, m
<1>2. \A i \in 1 .. m : st[i] = s[i]
  BY <1>1
<1>3. ASSUME NEW i \in 1 .. Len(t) PROVE st[i + m] = t[i]
  <2>1. i + m \in 1 .. m + Len(t) /\ ~(i + m <= m) /\ (i + m) - m = i
    BY <1>1
  <2> QED
    BY <1>1, <2>1
<1> QED
  BY <1>1, <1>2, <1>3 DEF st, m, Joins

\* The payload, or more.
Covers(d, w) == d \in Seq(Nat) /\ Len(d) >= Len(w) /\ \A i \in 1 .. Len(w) : d[i] = w[i]

LEMMA OneByteMore ==
  ASSUME NEW w \in Seq(Nat), NEW d \in {w, Append(w, 0)}
  PROVE  Covers(d, w)
<1>1. Covers(w, w)
  BY LenProperties DEF Covers
<1>2. Covers(Append(w, 0), w)
  <2>1. /\ Append(w, 0) \in Seq(Nat) /\ Len(Append(w, 0)) = Len(w) + 1 /\ Len(w) \in Nat
        /\ \A i \in 1 .. Len(w) : Append(w, 0)[i] = w[i]
    BY AppendProperties, LenProperties
  <2> QED
    BY <2>1 DEF Covers
<1> QED
  BY <1>1, <1>2

\* An EUI-64 is read back as it was written.
LEMMA PartReadBack ==
  ASSUME NEW d \in Seq(Nat), NEW e \in Seq(Nat), NEW m \in Nat,
         m + Len(e) <= Len(d), \A i \in 1 .. Len(e) : d[i + m] = e[i]
  PROVE  SubSeq(d, m + 1, m + Len(e)) = e
<1> DEFINE x == SubSeq(d, m + 1, m + Len(e))
<1>1. Len(e) \in Nat /\ Len(d) \in Nat
  BY LenProperties
<1>2. /\ x \in Seq(Nat) /\ Len(x) = Len(e)
      /\ \A i \in 1 .. Len(e) : x[i] = d[i + m]
  BY <1>1
<1> HIDE DEF x
<1>3. x = e
  BY <1>1, <1>2, SeqEqual
<1> QED
  BY <1>3 DEF x

\* An announcement and a leave indication begin with an address and an EUI-64.
Names(d, a, e) ==
  /\ d \in Seq(Nat) /\ Len(d) >= 10
  /\ d[1] + ByteMod * d[2] = a
  /\ \A i \in 1 .. 8 : d[i + 2] = e[i]

LEMMA NamesRead ==
  ASSUME NEW a, NEW e \in Seq(Nat), Len(e) = 8, NEW d, Names(d, a, e)
  PROVE  Addr(d) = a /\ Eui(d) = e
<1>1. Addr(d) = a
  BY DEF Names, Addr
<1>2. d \in Seq(Nat) /\ 2 + Len(e) <= Len(d) /\ 2 \in Nat
      /\ \A i \in 1 .. Len(e) : d[i + 2] = e[i]
  BY LenProperties DEF Names
<1>3. SubSeq(d, 2 + 1, 2 + Len(e)) = e
  BY <1>2, PartReadBack
<1> QED
  BY <1>1, <1>3 DEF Eui

LEMMA NamesKept ==
  ASSUME NEW a, NEW e, NEW w \in Seq(Nat), NEW d, Names(w, a, e), Covers(d, w)
  PROVE  Names(d, a, e)
<1>1. Len(w) \in Nat /\ Len(d) \in Nat /\ Len(d) >= Len(w) /\ Len(w) >= 10
  BY LenProperties DEF Covers, Names
<1>2. \A i \in 1 .. 10 : d[i] = w[i]
  BY <1>1 DEF Covers
<1>3. d[1] = w[1] /\ d[2] = w[2] /\ \A i \in 1 .. 8 : d[i + 2] = w[i + 2]
  BY <1>2
<1> QED
  BY <1>1, <1>3 DEF Names, Covers

LEMMA NamesWritten ==
  ASSUME NEW a \in Word, NEW e \in Seq(Nat), Len(e) = 8
  PROVE  Len(Bytes2(a) \o e) = 10 /\ Names(Bytes2(a) \o e, a, e)
<1> DEFINE b == Bytes2(a)
           w == b \o e
<1>1. b \in Seq(Nat) /\ Len(b) = 2 /\ b[1] + ByteMod * b[2] = a
  BY WordOfBytes
<1> HIDE DEF b
<1>A. Joins(w, b, e)
  BY <1>1, Places
<1> HIDE DEF w
<1>2. /\ w \in Seq(Nat) /\ Len(w) = 2 + Len(e)
      /\ \A i \in 1 .. 2 : w[i] = b[i]
      /\ \A i \in 1 .. Len(e) : w[i + 2] = e[i]
  BY <1>1, <1>A DEF Joins
<1>3. Len(w) = 10 /\ w[1] = b[1] /\ w[2] = b[2] /\ \A i \in 1 .. 8 : w[i + 2] = e[i]
  BY <1>2
<1>4. Names(w, a, e)
  BY <1>1, <1>2, <1>3 DEF Names
<1> QED
  BY <1>3, <1>4 DEF w, b

\* One byte behind what is there.
Then(v, w, b) ==
  v \in Seq(Nat) /\ Len(v) = Len(w) + 1 /\ v[Len(w) + 1] = b /\ Covers(v, w)

LEMMA AddByte ==
  ASSUME NEW w \in Seq(Nat), NEW b \in Nat
  PROVE  Then(w \o <<b>>, w, b)
<1> DEFINE t == <<b>>
           v == w \o t
<1>1. t \in Seq(Nat) /\ Len(t) = 1 /\ t[1] = b
  OBVIOUS
<1> HIDE DEF t
<1>2. Joins(v, w, t)
  BY <1>1, Places
<1> HIDE DEF v
<1>3. v \in Seq(Nat) /\ Len(w) \in Nat /\ Len(v) = Len(w) + 1
  BY <1>1, <1>2 DEF Joins
<1>4. v[Len(w) + 1] = b
  <2>1. 1 \in 1 .. Len(t) /\ 1 + Len(w) = Len(w) + 1
    BY <1>1, <1>3
  <2>2. v[1 + Len(w)] = t[1]
    BY <1>2, <2>1 DEF Joins
  <2> QED
    BY <1>1, <2>1, <2>2
<1>5. Covers(v, w)
  BY <1>2, <1>3 DEF Covers, Joins
<1> QED
  BY <1>3, <1>4, <1>5 DEF v, t, Then

\* The layouts of Encoding.
JoinedBytes(a, e, c)  == Bytes2(a) \o e \o <<c>>
LeftBytes(a, e, r)    == Bytes2(a) \o e \o <<0>> \o <<r>>
MessageBytes(c, a, m) ==
  <<0, 0>> \o Bytes2(c) \o Bytes2(a) \o [i \in 1 .. 10 |-> 0] \o <<Len(m)>> \o m

LEMMA JoinedLayout ==
  ASSUME NEW a \in Word, NEW e \in Seq(Nat), Len(e) = 8, NEW c \in Nat,
         NEW w, w = JoinedBytes(a, e, c)
  PROVE  w \in Seq(Nat) /\ Len(w) = 11 /\ Names(w, a, e) /\ w[11] = c
<1> DEFINE u == Bytes2(a) \o e
<1>1. u \in Seq(Nat) /\ Len(u) = 10 /\ Names(u, a, e)
  BY NamesWritten DEF Names
<1>2. w = u \o <<c>>
  BY DEF JoinedBytes
<1> HIDE DEF u
<1>3. Then(w, u, c)
  BY <1>1, <1>2, AddByte
<1>4. w \in Seq(Nat) /\ Len(w) = 11 /\ w[11] = c /\ Covers(w, u)
  <2>1. Len(u) = 10 /\ 10 + 1 = 11
    BY <1>1
  <2>2. w \in Seq(Nat) /\ Len(w) = Len(u) + 1 /\ w[Len(u) + 1] = c /\ Covers(w, u)
    BY <1>3, Zenon DEF Then
  <2>3. Len(u) + 1 = 11
    BY <2>1
  <2>4. w[11] = c
    BY <2>2, <2>3, Zenon
  <2>5. Len(w) = 11
    BY <2>2, <2>3, Zenon
  <2> QED
    BY <2>2, <2>4, <2>5, Zenon
<1>5. Names(w, a, e)
  BY <1>1, <1>4, NamesKept, Zenon
<1> QED
  BY <1>4, <1>5

LEMMA LeftLayout ==
  ASSUME NEW a \in Word, NEW e \in Seq(Nat), Len(e) = 8, NEW r \in Nat,
         NEW w, w = LeftBytes(a, e, r)
  PROVE  w \in Seq(Nat) /\ Len(w) = 12 /\ Names(w, a, e) /\ w[12] = r
<1> DEFINE u == JoinedBytes(a, e, 0)
<1>1. u \in Seq(Nat) /\ Len(u) = 11 /\ Names(u, a, e)
  <2>1. 0 \in Nat
    OBVIOUS
  <2> QED
    BY <2>1, JoinedLayout, Zenon
<1>2. w = u \o <<r>>
  BY DEF LeftBytes, JoinedBytes
<1> HIDE DEF u
<1>3. Then(w, u, r)
  BY <1>1, <1>2, AddByte
<1>4. w \in Seq(Nat) /\ Len(w) = 12 /\ w[12] = r /\ Covers(w, u)
  <2>1. Len(u) = 11 /\ 11 + 1 = 12
    BY <1>1
  <2>2. w \in Seq(Nat) /\ Len(w) = Len(u) + 1 /\ w[Len(u) + 1] = r /\ Covers(w, u)
    BY <1>3, Zenon DEF Then
  <2>3. Len(u) + 1 = 12
    BY <2>1
  <2>4. w[12] = r
    BY <2>2, <2>3, Zenon
  <2>5. Len(w) = 12
    BY <2>2, <2>3, Zenon
  <2> QED
    BY <2>2, <2>4, <2>5, Zenon
<1>5. Names(w, a, e)
  BY <1>1, <1>4, NamesKept, Zenon
<1> QED
  BY <1>4, <1>5

LEMMA MessageLayout ==
  ASSUME NEW a \in Word, NEW c \in Word, NEW m \in Seq(Nat),
         NEW w, w = MessageBytes(c, a, m)
  PROVE  /\ w \in Seq(Nat) /\ Len(w) = 17 + Len(m) /\ Len(m) \in Nat
         /\ w[5] + ByteMod * w[6] = a
         /\ w[17] = Len(m)
         /\ \A i \in 1 .. Len(m) : w[i + 17] = m[i]
<1> DEFINE g == <<0, 0>>
           bc == Bytes2(c)
           ba == Bytes2(a)
           z == [i \in 1 .. 10 |-> 0]
           u2 == g \o bc
           u3 == u2 \o ba
           u4 == u3 \o z
           u5 == u4 \o <<Len(m)>>
<1>1. g \in Seq(Nat) /\ Len(g) = 2
  OBVIOUS
<1>2. bc \in Seq(Nat) /\ Len(bc) = 2
  BY WordOfBytes
<1>3. ba \in Seq(Nat) /\ Len(ba) = 2 /\ ba[1] + ByteMod * ba[2] = a
  BY WordOfBytes
<1>4. z \in Seq(Nat) /\ Len(z) = 10
  OBVIOUS
<1>5. w = u5 \o m
  BY DEF MessageBytes
<1> HIDE DEF g, bc, ba, z
<1>6. u2 \in Seq(Nat) /\ Len(u2) = 4
  <2>1. Joins(u2, g, bc)
    BY <1>1, <1>2, Places
  <2> HIDE DEF u2
  <2> QED
    BY <1>1, <1>2, <2>1 DEF Joins
<1> HIDE DEF u2
<1>7. u3 \in Seq(Nat) /\ Len(u3) = 6 /\ u3[5] + ByteMod * u3[6] = a
  <2>1. Joins(u3, u2, ba)
    BY <1>3, <1>6, Places
  <2> HIDE DEF u3
  <2>2. u3 \in Seq(Nat) /\ Len(u3) = 6 /\ \A i \in 1 .. 2 : u3[i + 4] = ba[i]
    BY <1>3, <1>6, <2>1 DEF Joins
  <2>3. u3[5] = ba[1] /\ u3[6] = ba[2]
    <3>1. u3[1 + 4] = ba[1] /\ u3[2 + 4] = ba[2]
      BY <2>2
    <3> QED
      BY <3>1
  <2> QED
    BY <1>3, <2>2, <2>3
<1> HIDE DEF u3
<1>8. u4 \in Seq(Nat) /\ Len(u4) = 16 /\ u4[5] = u3[5] /\ u4[6] = u3[6]
  <2>1. Joins(u4, u3, z)
    BY <1>4, <1>7, Places
  <2> HIDE DEF u4
  <2> QED
    BY <1>4, <1>7, <2>1 DEF Joins
<1> HIDE DEF u4
<1>9. Len(m) \in Nat
  BY LenProperties
<1>10. Then(u5, u4, Len(m))
  BY <1>8, <1>9, AddByte
<1> HIDE DEF u5
<1>11. u5 \in Seq(Nat) /\ Len(u5) = 17 /\ u5[17] = Len(m) /\ u5[5] = u4[5] /\ u5[6] = u4[6]
  BY <1>8, <1>10 DEF Covers, Then
<1>12. Joins(w, u5, m)
  BY <1>5, <1>11, Places
<1>13. /\ w \in Seq(Nat) /\ Len(w) = 17 + Len(m)
       /\ \A i \in 1 .. 17 : w[i] = u5[i]
       /\ \A i \in 1 .. Len(m) : w[i + 17] = m[i]
  BY <1>11, <1>12 DEF Joins
<1>14. w[5] = u5[5] /\ w[6] = u5[6] /\ w[17] = u5[17]
  <2>1. 5 \in 1 .. 17 /\ 6 \in 1 .. 17 /\ 17 \in 1 .. 17
    OBVIOUS
  <2> QED
    BY <1>13, <2>1, Zenon
<1> QED
  BY <1>7, <1>8, <1>9, <1>11, <1>13, <1>14
-----------------------------------------------------------------------------
(***************************************************************************)
(* What the handlers read is what the coordinator wrote                    *)
(***************************************************************************)
LEMMA SequencesOfBytes ==
  ASSUME NEW s \in Seq(Byte)
  PROVE  s \in Seq(Nat)
<1>1. Byte \subseteq Nat
  BY DispatchConstants DEF Byte
<1>2. Len(s) \in Nat /\ s \in [1 .. Len(s) -> Byte]
  BY LenProperties
<1>3. s \in [1 .. Len(s) -> Nat]
  BY <1>1, <1>2
<1> QED
  BY <1>2, <1>3, SeqDef

LEMMA KnownBytes ==
  /\ \A e \in Euis : e \in Seq(Nat) /\ Len(e) = 8
  /\ CapBytes \subseteq Nat /\ Cluster \in Word
  /\ \A m \in Contents : m \in Seq(Nat)
<1>1. Byte \subseteq Nat
  BY DispatchConstants DEF Byte
<1> QED
  BY <1>1, SequencesOfBytes, DispatchConstants

LEMMA IndicationKinds ==
  ASSUME NEW f \in Indications
  PROVE  \E e \in Euis : \E a \in Word :
           /\ a \in MayUse[e]
           /\ \/ \E c \in CapBytes : f = Announcement(e, a, c)
              \/ \E r \in BOOLEAN : f = Leaving(e, a, r)
              \/ \E m \in Contents : f = Message(e, a, m)
<1> DEFINE Of(e, a) == {Announcement(e, a, c) : c \in CapBytes}
                       \cup {Leaving(e, a, r) : r \in BOOLEAN}
                       \cup {Message(e, a, m) : m \in Contents}
<1> HIDE DEF Of
<1>1. f \in UNION {UNION {Of(e, a) : a \in MayUse[e]} : e \in Euis}
  BY Zenon DEF Indications, Of
<1>2. PICK e \in Euis : f \in UNION {Of(e, a) : a \in MayUse[e]}
  BY <1>1, Zenon
<1>3. PICK a \in MayUse[e] : f \in Of(e, a)
  BY <1>2, Zenon
<1>4. a \in Word
  BY DispatchConstants
<1>5. \/ \E c \in CapBytes : f = Announcement(e, a, c)
      \/ \E r \in BOOLEAN : f = Leaving(e, a, r)
      \/ \E m \in Contents : f = Message(e, a, m)
  BY <1>3, Zenon DEF Of
<1> QED
  BY <1>4, <1>5

\* A payload that may be cut short.
Cut(d, w) == \E n \in {0, Len(w) - 1} : d = SubSeq(w, 1, n)

LEMMA CutOff ==
  ASSUME NEW w \in Seq(Nat), Len(w) > 0, NEW d, Cut(d, w)
  PROVE  Len(d) \in Nat /\ Len(d) < Len(w) /\ \A i \in 1 .. Len(d) : d[i] = w[i]
<1>1. PICK n \in {0, Len(w) - 1} : d = SubSeq(w, 1, n)
  BY DEF Cut
<1>2. n \in Nat /\ n < Len(w) /\ Len(w) \in Nat
  BY LenProperties
<1>3. Len(SubSeq(w, 1, n)) = n /\ \A i \in 1 .. n : SubSeq(w, 1, n)[i] = w[i]
  BY <1>2
<1> QED
  BY <1>1, <1>2, <1>3

LEMMA AnnouncementRead ==
  ASSUME NEW e \in Euis, NEW a \in Word, NEW c \in CapBytes, NEW f, f = Announcement(e, a, c)
  PROVE  /\ \A d \in {Encoding(f), Append(Encoding(f), 0)} : Reads(d, f)
         /\ \A d : Cut(d, Encoding(f)) => ~Complete(f.kind, d)
<1> DEFINE w == JoinedBytes(a, e, c)
<1>1. Encoding(f) = w
  BY DEF Encoding, Announcement, JoinedBytes
<1>2. f.kind = "joined" /\ f.addr = a /\ f.eui = e /\ f.info = c
  BY DEF Announcement
<1>3. e \in Seq(Nat) /\ Len(e) = 8 /\ c \in Nat
  BY KnownBytes
<1> HIDE DEF w
<1>4. w \in Seq(Nat) /\ Len(w) = 11 /\ Names(w, a, e) /\ w[11] = c
  BY <1>3, JoinedLayout DEF w
<1>5. ASSUME NEW d \in {w, Append(w, 0)} PROVE Reads(d, f)
  <2>1. Covers(d, w)
    BY <1>4, OneByteMore
  <2>2. Names(d, a, e)
    BY <1>4, <2>1, NamesKept, Zenon
  <2>3. Addr(d) = a /\ Eui(d) = e
    BY <1>3, <2>2, NamesRead, Zenon
  <2>4. Len(d) >= 11 /\ d[11] = c
    BY <1>4, <2>1 DEF Covers
  <2> QED
    BY <1>2, <2>3, <2>4 DEF Reads, Complete, Caps
<1>6. ASSUME NEW d, Cut(d, w) PROVE ~Complete(f.kind, d)
  <2>1. Len(w) > 0
    BY <1>4
  <2>2. Len(d) \in Nat /\ Len(d) < Len(w)
    BY <1>4, <1>6, <2>1, CutOff, Zenon
  <2>3. ~(Len(d) >= 11)
    BY <1>4, <2>2
  <2> QED
    BY <1>2, <2>3 DEF Complete
<1> QED
  BY <1>1, <1>5, <1>6

LEMMA LeavingRead ==
  ASSUME NEW e \in Euis, NEW a \in Word, NEW r \in BOOLEAN, NEW f, f = Leaving(e, a, r)
  PROVE  /\ \A d \in {Encoding(f), Append(Encoding(f), 0)} : Reads(d, f)
         /\ \A d : Cut(d, Encoding(f)) => ~Complete(f.kind, d)
<1> DEFINE b == IF r THEN 1 ELSE 0
           w == LeftBytes(a, e, b)
<1>1. Encoding(f) = w
  BY DEF Encoding, Leaving, LeftBytes
<1>2. f.kind = "left" /\ f.addr = a /\ f.eui = e /\ f.info = r
  BY DEF Leaving
<1>3. e \in Seq(Nat) /\ Len(e) = 8 /\ b \in Nat /\ (b # 0) = r
  BY KnownBytes
<1> HIDE DEF b
<1>4. w \in Seq(Nat) /\ Len(w) = 12 /\ Names(w, a, e) /\ w[12] = b
  BY <1>3, LeftLayout
<1> HIDE DEF w
<1>5. ASSUME NEW d \in {w, Append(w, 0)} PROVE Reads(d, f)
  <2>1. Covers(d, w)
    BY <1>4, OneByteMore
  <2>2. Names(d, a, e)
    BY <1>4, <2>1, NamesKept, Zenon
  <2>3. Addr(d) = a /\ Eui(d) = e
    BY <1>3, <2>2, NamesRead, Zenon
  <2>4. Len(d) >= 12 /\ d[12] = b
    BY <1>4, <2>1 DEF Covers
  <2>5. Complete("left", d)
    BY <2>4 DEF Complete
  <2>6. Rejoin(d) = r
    BY <1>3, <2>4 DEF Rejoin
  <2> QED
    BY <1>2, <2>3, <2>5, <2>6 DEF Reads
<1>6. ASSUME NEW d, Cut(d, w) PROVE ~Complete(f.kind, d)
  <2>1. Len(w) > 0
    BY <1>4
  <2>2. Len(d) \in Nat /\ Len(d) < Len(w)
    BY <1>4, <1>6, <2>1, CutOff, Zenon
  <2>3. ~(Len(d) >= 12)
    BY <1>4, <2>2
  <2> QED
    BY <1>2, <2>3 DEF Complete
<1> QED
  BY <1>1, <1>5, <1>6

LEMMA MessageRead ==
  ASSUME NEW e \in Euis, NEW a \in Word, NEW m \in Contents, NEW f, f = Message(e, a, m)
  PROVE  /\ \A d \in {Encoding(f), Append(Encoding(f), 0)} : Reads(d, f)
         /\ \A d : Cut(d, Encoding(f)) => ~Complete(f.kind, d)
<1> DEFINE w == MessageBytes(Cluster, a, m)
<1>1. Encoding(f) = w
  BY DEF Encoding, Message, MessageBytes
<1>2. f.kind = "message" /\ f.addr = a /\ f.info = m
  BY DEF Message
<1>3. m \in Seq(Nat) /\ Cluster \in Word
  BY KnownBytes
<1> HIDE DEF w
<1>4. /\ w \in Seq(Nat) /\ Len(w) = 17 + Len(m) /\ Len(m) \in Nat
      /\ w[5] + ByteMod * w[6] = a /\ w[17] = Len(m)
      /\ \A i \in 1 .. Len(m) : w[i + 17] = m[i]
  BY <1>3, MessageLayout DEF w
<1>5. ASSUME NEW d \in {w, Append(w, 0)} PROVE Reads(d, f)
  <2>1. Covers(d, w)
    BY <1>4, OneByteMore
  <2>2. d \in Seq(Nat) /\ Len(d) \in Nat /\ 17 + Len(m) <= Len(d)
        /\ \A i \in 1 .. 17 + Len(m) : d[i] = w[i]
    BY <1>4, <2>1, LenProperties DEF Covers
  <2>3. d[5] = w[5] /\ d[6] = w[6] /\ d[17] = w[17]
    <3>1. 5 \in 1 .. 17 + Len(m) /\ 6 \in 1 .. 17 + Len(m) /\ 17 \in 1 .. 17 + Len(m)
      BY <1>4
    <3> QED
      BY <2>2, <3>1, Zenon
  <2>4. ASSUME NEW i \in 1 .. Len(m) PROVE d[i + 17] = m[i]
    <3>1. i + 17 \in 1 .. 17 + Len(m)
      BY <1>4
    <3> QED
      BY <1>4, <2>2, <3>1, Zenon
  <2>5. SubSeq(d, 17 + 1, 17 + Len(m)) = m
    BY <1>3, <2>2, <2>4, PartReadBack
  <2>6. Content(d) = m
    BY <1>4, <2>3, <2>5 DEF Content, PayLen
  <2>7. SrcAddr(d) = a
    BY <1>4, <2>3 DEF SrcAddr
  <2>8. Complete("message", d)
    BY <1>4, <2>2, <2>3 DEF Complete, PayLen
  <2> QED
    BY <1>2, <2>6, <2>7, <2>8 DEF Reads
<1>6. ASSUME NEW d, Cut(d, w) PROVE ~Complete(f.kind, d)
  <2>0. Len(w) > 0
    BY <1>4
  <2>1. /\ Len(d) \in Nat /\ Len(d) < 17 + Len(m)
        /\ \A i \in 1 .. Len(d) : d[i] = w[i]
    <3>1. /\ Len(d) \in Nat /\ Len(d) < Len(w)
          /\ \A i \in 1 .. Len(d) : d[i] = w[i]
      BY <1>4, <1>6, <2>0, CutOff, Zenon
    <3> QED
      BY <1>4, <3>1, Zenon
  <2>2. ASSUME Len(d) >= 17 PROVE d[17] = Len(m)
    <3>1. 17 \in 1 .. Len(d)
      BY <2>1, <2>2
    <3> QED
      BY <1>4, <2>1, <3>1, Zenon
  <2> QED
    <3>1. Len(d) >= 17 => ~(Len(d) >= 17 + PayLen(d))
      <4>1. Len(d) \in Nat /\ Len(d) < 17 + Len(m) /\ Len(m) \in Nat
        BY <1>4, <2>1
      <4> QED
        BY <2>2, <4>1 DEF PayLen
    <3>2. ~Complete("message", d)
      BY <3>1 DEF Complete
    <3> QED
      BY <1>2, <3>2, Zenon
<1> QED
  BY <1>1, <1>5, <1>6

\* What the handlers read in a whole payload, or one with a byte too many, is what the
\* coordinator put there, and they know a payload that was cut short (cpp:326-342,
\* cpp:347-361, cpp:370-404).
THEOREM DecodingUndoesEncoding ==
  ASSUME NEW f \in Indications
  PROVE  /\ \A d \in {Encoding(f), Append(Encoding(f), 0)} : Reads(d, f)
         /\ \A d : Cut(d, Encoding(f)) => ~Complete(f.kind, d)
BY IndicationKinds, AnnouncementRead, LeavingRead, MessageRead, Zenon

-----------------------------------------------------------------------------
(***************************************************************************)
(* The frame that is being handled                                         *)
(***************************************************************************)
LEMMA IndicationFields ==
  ASSUME NEW f \in Indications
  PROVE  /\ f.kind \in {"joined", "left", "message"}
         /\ f.eui \in Euis /\ f.addr \in Word /\ f.addr \in MayUse[f.eui]
         /\ f.kind = "joined" => f.info \in CapBytes /\ f = Announcement(f.eui, f.addr, f.info)
         /\ f.kind = "left" => f.info \in BOOLEAN /\ f = Leaving(f.eui, f.addr, f.info)
<1>1. PICK e \in Euis, a \in Word :
           /\ a \in MayUse[e]
           /\ \/ \E c \in CapBytes : f = Announcement(e, a, c)
              \/ \E r \in BOOLEAN : f = Leaving(e, a, r)
              \/ \E m \in Contents : f = Message(e, a, m)
  BY IndicationKinds, Zenon
<1>2. CASE \E c \in CapBytes : f = Announcement(e, a, c)
  BY <1>1, <1>2 DEF Announcement
<1>3. CASE \E r \in BOOLEAN : f = Leaving(e, a, r)
  BY <1>1, <1>3 DEF Leaving
<1>4. CASE \E m \in Contents : f = Message(e, a, m)
  BY <1>1, <1>4 DEF Message
<1> QED
  BY <1>1, <1>2, <1>3, <1>4

\* What the handlers read while they are at work.
LEMMA WhatIsRead ==
  ASSUME FrameInv, step # "idle", step = "dispatch" => Complete(kind, data)
  PROVE  /\ Handled /\ sent \in Indications /\ kind = sent.kind
         /\ sent.kind \in {"joined", "left", "message"}
         /\ sent.eui \in Euis /\ sent.addr \in Word /\ sent.addr \in MayUse[sent.eui]
         /\ kind \in {"joined", "left"} => Addr(data) = sent.addr /\ Eui(data) = sent.eui
         /\ kind = "joined" => /\ Caps(data) = sent.info /\ sent.info \in CapBytes
                               /\ sent = Announcement(sent.eui, sent.addr, sent.info)
         /\ kind = "left" => /\ Rejoin(data) = sent.info /\ sent.info \in BOOLEAN
                             /\ sent = Leaving(sent.eui, sent.addr, sent.info)
         /\ kind = "message" => SrcAddr(data) = sent.addr /\ Content(data) = sent.info
         /\ step = "joined" => kind = "joined"
         /\ step = "remove" => kind = "left"
         /\ step \in {"touch", "message"} => kind = "message"
<1>1. Handled
  BY DEF FrameInv, CutShort
<1>2. sent \in Indications /\ kind = sent.kind /\ Reads(data, sent)
  BY <1>1 DEF Handled
<1>3. /\ step = "joined" => kind = "joined"
      /\ step = "remove" => kind = "left"
      /\ step \in {"touch", "message"} => kind = "message"
  BY <1>1 DEF Handled
<1> QED
  BY <1>1, <1>2, <1>3, IndicationFields DEF Reads

LEMMA NoMeaning == Meaning(NoEvent) = NoEvent
BY DEF Meaning, NoEvent

LEMMA ReceiveKeepsFrame ==
  ASSUME NEW f \in Indications, Receive(f)
  PROVE  FrameInv'
<1>1. f.kind \in {"joined", "left", "message"}
  BY IndicationFields
<1>2. step' = "dispatch" /\ kind' = f.kind /\ event' = NoEvent
  BY DEF Receive
<1>3. CASE Cut(data', Encoding(f)) /\ sent' = NoEvent
  <2>1. ~Complete(f.kind, data')
    BY <1>3, DecodingUndoesEncoding, Zenon
  <2>2. CutShort'
    BY <1>1, <1>2, <1>3, <2>1 DEF CutShort
  <2> QED
    BY <1>2, <2>2 DEF FrameInv
<1>4. CASE data' \in {Encoding(f), Append(Encoding(f), 0)} /\ sent' = f
  <2>1. Reads(data', f)
    BY <1>4, DecodingUndoesEncoding, Zenon
  <2>2. Handled'
    BY <1>2, <1>4, <2>1 DEF Handled
  <2> QED
    BY <1>2, <2>2 DEF FrameInv
<1> QED
  BY <1>3, <1>4, Zenon DEF Receive, Cut

LEMMA HandlersKeepFrame ==
  ASSUME FrameInv, Handlers
  PROVE  FrameInv'
<1> USE DEF Handling, Return, Continue, frameVars
<1>1. CASE DropShortFrame
  <2>1. ~Handled
    BY <1>1 DEF DropShortFrame, Handled, Reads
  <2>2. sent = NoEvent /\ event = NoEvent
    BY <1>1, <2>1 DEF DropShortFrame, FrameInv, CutShort
  <2> QED
    BY <1>1, <2>2, NoMeaning DEF DropShortFrame, FrameInv
<1>2. CASE OnDeviceAnnounce
  BY <1>2, WhatIsRead DEF OnDeviceAnnounce, FrameInv, Handled
<1>3. CASE EmitJoined
  BY <1>3, WhatIsRead DEF EmitJoined, FrameInv, Meaning
<1>4. CASE OnLeaveInd
  BY <1>4, WhatIsRead DEF OnLeaveInd, FrameInv, Handled, Meaning
<1>5. CASE RemoveLeft
  BY <1>5, WhatIsRead DEF RemoveLeft, FrameInv, Handled, Meaning
<1>6. CASE OnAfIncomingMsg
  BY <1>6, WhatIsRead DEF OnAfIncomingMsg, FrameInv, Handled
<1>7. CASE UpdateLastSeen
  BY <1>7, WhatIsRead DEF UpdateLastSeen, FrameInv, Handled
<1>8. CASE EmitMessage
  BY <1>8, WhatIsRead DEF EmitMessage, FrameInv, Meaning
<1> QED
  BY <1>1, <1>2, <1>3, <1>4, <1>5, <1>6, <1>7, <1>8 DEF Handlers

LEMMA FrameKept ==
  ASSUME FrameInv, [Next]_vars
  PROVE  FrameInv'
<1>1. ASSUME UNCHANGED <<step, frameVars, sent, event>> PROVE FrameInv'
  BY <1>1 DEF FrameInv, Handled, CutShort, frameVars
<1>2. CASE UNCHANGED vars
  BY <1>1, <1>2 DEF vars
<1>3. ASSUME NEW e \in Euis, RemoveDevice(e) PROVE FrameInv'
  BY <1>1, <1>3 DEF RemoveDevice
<1> QED
  BY <1>2, <1>3, ReceiveKeepsFrame, HandlersKeepFrame DEF Next

-----------------------------------------------------------------------------
(***************************************************************************)
(* The maps                                                                *)
(***************************************************************************)
LEMMA AnnouncedIsRegistered ==
  ASSUME RegistryInv, NEW e \in Euis, NEW a \in Word, a \in MayUse[e], NEW c \in CapBytes,
         sent.eui = e, AddOrUpdateDevice(e, a, c)
  PROVE  RegistryInv'
<1> USE DEF RegistryInv, RegistryTyped, AddressGiven, IndexLeads, SeenMeansHeard,
            DeviceStates
<1>1. CASE e \in Known
  <2>1. /\ Known' = Known
        /\ devices' = [devices EXCEPT ![e].addr = a, ![e].seenFrom = e]
    BY <1>1 DEF AddOrUpdateDevice, Known
  <2>2. /\ devices'[e] = [devices[e] EXCEPT !.addr = a, !.seenFrom = e]
        /\ devices'[e].addr = a /\ devices'[e].seenFrom = e
        /\ devices'[e] \in DeviceStates
        /\ \A k \in Known \ {e} : devices'[k] = devices[k]
        /\ devices' \in [Known -> DeviceStates]
    <3>1. devices[e] \in DeviceStates /\ DOMAIN devices = Known
      BY <1>1
    <3>2. /\ devices'[e] = [devices[e] EXCEPT !.addr = a, !.seenFrom = e]
          /\ \A k \in Known \ {e} : devices'[k] = devices[k]
          /\ DOMAIN devices' = Known
      BY <1>1, <2>1, <3>1
    <3>3. devices'[e].addr = a /\ devices'[e].seenFrom = e /\ devices'[e] \in DeviceStates
      BY <3>1, <3>2
    <3> QED
      BY <1>1, <2>1, <3>2, <3>3
  <2>3. CASE devices[e].addr = a
    <3>1. addrToEui' = addrToEui
      BY <1>1, <2>3 DEF AddOrUpdateDevice
    <3> QED
      BY <1>1, <2>1, <2>2, <2>3, <3>1
  <2>4. CASE devices[e].addr # a
    <3>1. addrToEui' = Put(Erase(addrToEui, devices[e].addr), a, e)
      BY <1>1, <2>4 DEF AddOrUpdateDevice
    <3>2. /\ DOMAIN addrToEui' = (DOMAIN addrToEui \ {devices[e].addr}) \cup {a}
          /\ \A k \in DOMAIN addrToEui' :
               addrToEui'[k] = IF k = a THEN e ELSE addrToEui[k]
          /\ addrToEui' \in [DOMAIN addrToEui' -> Euis]
      BY <3>1 DEF Put, Erase
    <3>3. IndexLeads'
      BY <1>1, <2>1, <2>2, <3>2
    <3> QED
      BY <1>1, <2>1, <2>2, <3>2, <3>3
  <2> QED
    BY <2>3, <2>4
<1>2. CASE e \notin Known
  <2>1. /\ devices' = Put(devices, e, NewDevice(a, c, e))
        /\ addrToEui' = Put(addrToEui, a, e)
    BY <1>2 DEF AddOrUpdateDevice
  <2>2. /\ Known' = Known \cup {e}
        /\ devices'[e] = NewDevice(a, c, e)
        /\ devices'[e].addr = a /\ devices'[e].seenFrom = e
        /\ devices'[e] \in DeviceStates
        /\ \A k \in Known : devices'[k] = devices[k]
        /\ devices' \in [Known' -> DeviceStates]
    BY <1>2, <2>1 DEF Put, NewDevice, Known
  <2>3. /\ DOMAIN addrToEui' = DOMAIN addrToEui \cup {a}
        /\ \A k \in DOMAIN addrToEui' :
             addrToEui'[k] = IF k = a THEN e ELSE addrToEui[k]
        /\ addrToEui' \in [DOMAIN addrToEui' -> Euis]
    BY <2>1 DEF Put
  <2>4. IndexLeads'
    BY <1>2, <2>2, <2>3
  <2> QED
    BY <1>2, <2>2, <2>3, <2>4
<1> QED
  BY <1>1, <1>2

LEMMA UnregisteredIsGone ==
  ASSUME RegistryInv, NEW e \in Known, Unregister(e)
  PROVE  /\ RegistryInv'
         /\ Known' = Known \ {e} /\ \A k \in Known' : devices'[k] = devices[k]
<1> USE DEF RegistryInv, RegistryTyped, AddressGiven, IndexLeads, SeenMeansHeard
<1>1. /\ Known' = Known \ {e} /\ \A k \in Known' : devices'[k] = devices[k]
      /\ devices' \in [Known' -> DeviceStates]
  BY DEF Unregister, Erase, Known
<1>2. /\ DOMAIN addrToEui' = DOMAIN addrToEui \ {devices[e].addr}
      /\ \A k \in DOMAIN addrToEui' : addrToEui'[k] = addrToEui[k]
      /\ addrToEui' \in [DOMAIN addrToEui' -> Euis]
  BY DEF Unregister, Erase
<1> QED
  BY <1>1, <1>2

\* A sender that shares its address with no other device was heard itself.
LEMMA TouchKeepsRegistry ==
  ASSUME RegistryInv, FrameInv, SenderInv, UpdateLastSeen
  PROVE  RegistryInv'
<1> USE DEF RegistryInv, RegistryTyped, AddressGiven, IndexLeads, SeenMeansHeard,
            DeviceStates
<1>1. /\ sent.eui \in Euis /\ sent.addr \in MayUse[sent.eui] /\ SrcAddr(data) = sent.addr
      /\ step = "touch"
  BY WhatIsRead DEF UpdateLastSeen
<1>2. CASE sender \in Known
  <2>1. /\ Known' = Known /\ addrToEui' = addrToEui
        /\ devices' = [devices EXCEPT ![sender].seenFrom = sent.eui]
    BY <1>2 DEF UpdateLastSeen, Known
  <2>2. /\ devices'[sender].addr = devices[sender].addr
        /\ devices'[sender].seenFrom = sent.eui
        /\ devices'[sender] \in DeviceStates
        /\ \A k \in Known \ {sender} : devices'[k] = devices[k]
        /\ devices' \in [Known -> DeviceStates]
    BY <1>1, <1>2, <2>1
  <2>3. sent.eui # sender => MayUse[sender] \cap MayUse[sent.eui] # {}
    BY <1>1, <1>2 DEF SenderInv
  <2>4. SeenMeansHeard'
    BY <1>1, <1>2, <2>1, <2>2, <2>3
  <2> QED
    BY <1>2, <2>1, <2>2, <2>4
<1>3. CASE sender \notin Known
  BY <1>3 DEF UpdateLastSeen, Known
<1> QED
  BY <1>2, <1>3

LEMMA RegistryKept ==
  ASSUME RegistryInv, FrameInv, SenderInv, [Next]_vars
  PROVE  RegistryInv'
<1>1. ASSUME UNCHANGED registryVars PROVE RegistryInv'
  BY <1>1 DEF registryVars, RegistryInv, RegistryTyped, AddressGiven, IndexLeads,
              SeenMeansHeard, Known
<1>2. CASE UNCHANGED vars
  BY <1>1, <1>2 DEF vars
<1>3. ASSUME NEW f \in Indications, Receive(f) PROVE RegistryInv'
  BY <1>1, <1>3 DEF Receive
<1>4. ASSUME NEW e \in Euis, RemoveDevice(e) PROVE RegistryInv'
  BY <1>4, UnregisteredIsGone DEF RemoveDevice
<1>5. CASE OnDeviceAnnounce
  BY <1>5, WhatIsRead, AnnouncedIsRegistered DEF OnDeviceAnnounce, Handling
<1>6. CASE RemoveLeft
  BY <1>1, <1>6, UnregisteredIsGone DEF RemoveLeft
<1>7. CASE UpdateLastSeen
  BY <1>7, TouchKeepsRegistry
<1>8. CASE DropShortFrame \/ EmitJoined \/ OnLeaveInd \/ OnAfIncomingMsg \/ EmitMessage
  BY <1>1, <1>8 DEF DropShortFrame, EmitJoined, OnLeaveInd, OnAfIncomingMsg, EmitMessage
<1> QED
  BY <1>2, <1>3, <1>4, <1>5, <1>6, <1>7, <1>8 DEF Next, Handlers

LEMMA SenderKept ==
  ASSUME RegistryInv, FrameInv, SenderInv, [Next]_vars
  PROVE  SenderInv'
<1> USE DEF Handling, Return, Continue, frameVars
<1>1. CASE UNCHANGED vars
  BY <1>1 DEF vars, registryVars, SenderInv, Known
<1>2. ASSUME NEW e \in Euis, RemoveDevice(e) PROVE SenderInv'
  <2>1. Known' = Known \ {e} /\ \A k \in Known' : devices'[k] = devices[k]
    BY <1>2, UnregisteredIsGone DEF RemoveDevice
  <2> QED
    BY <1>2, <2>1 DEF RemoveDevice, SenderInv
<1>3. CASE OnAfIncomingMsg
  <2>1. CASE sender' = Nothing
    BY <1>3, <2>1 DEF OnAfIncomingMsg, SenderInv
  <2>2. CASE sender' # Nothing
    <3>1. /\ SrcAddr(data) \in DOMAIN addrToEui
          /\ sender' = addrToEui[SrcAddr(data)] /\ sender' \in Known
      BY <1>3, <2>2 DEF OnAfIncomingMsg, FindByAddr
    <3>2. devices[sender'].addr = SrcAddr(data) /\ sender' \in Euis
      BY <3>1 DEF RegistryInv, RegistryTyped, IndexLeads
    <3>3. Known' = Known /\ devices' = devices /\ data' = data
      BY <1>3 DEF OnAfIncomingMsg, registryVars, Known
    <3> QED
      BY <3>2, <3>3 DEF SenderInv
  <2> QED
    BY <2>1, <2>2
<1>4. CASE \E f \in Indications : Receive(f)
  BY <1>4 DEF Receive, SenderInv
<1>5. CASE \/ DropShortFrame \/ OnDeviceAnnounce \/ EmitJoined \/ OnLeaveInd
           \/ RemoveLeft \/ UpdateLastSeen \/ EmitMessage
  <2>1. step' # "touch"
    BY <1>5 DEF DropShortFrame, OnDeviceAnnounce, EmitJoined, OnLeaveInd, RemoveLeft,
                UpdateLastSeen, EmitMessage
  <2> QED
    BY <2>1 DEF SenderInv
<1> QED
  BY <1>1, <1>2, <1>3, <1>4, <1>5 DEF Next, Handlers

LEMMA TypesKept ==
  ASSUME TypeOK, FrameInv, RegistryInv, SenderInv, [Next]_vars
  PROVE  TypeOK'
<1>1. RegistryTyped'
  BY RegistryKept DEF RegistryInv
<1> DEFINE Rest == /\ step \in {"idle", "dispatch", "joined", "remove", "touch", "message"}
                   /\ sender \in Euis \cup {Nothing}
                   /\ members \subseteq Euis /\ removed \subseteq Euis
<1>2. Rest'
  <2> USE DEF TypeOK, Handling, Return, Continue, historyVars
  <2>1. CASE UNCHANGED vars
    BY <2>1 DEF vars
  <2>2. CASE \E f \in Indications : Receive(f)
    BY <2>2 DEF Receive
  <2>3. CASE \E e \in Euis : RemoveDevice(e)
    BY <2>3 DEF RemoveDevice
  <2>4. CASE OnDeviceAnnounce
    BY <2>4 DEF OnDeviceAnnounce
  <2>5. CASE EmitJoined
    BY <2>5, WhatIsRead DEF EmitJoined
  <2>6. CASE OnLeaveInd
    BY <2>6 DEF OnLeaveInd
  <2>7. CASE OnAfIncomingMsg
    <3>1. sender' \in Euis \cup {Nothing}
      BY <2>7 DEF OnAfIncomingMsg, FindByAddr
    <3> QED
      BY <2>7, <3>1 DEF OnAfIncomingMsg
  <2>8. CASE DropShortFrame \/ RemoveLeft \/ UpdateLastSeen \/ EmitMessage
    BY <2>8 DEF DropShortFrame, RemoveLeft, UpdateLastSeen, EmitMessage
  <2> QED
    BY <2>1, <2>2, <2>3, <2>4, <2>5, <2>6, <2>7, <2>8 DEF Next, Handlers
<1> QED
  BY <1>1, <1>2 DEF TypeOK, RegistryTyped

-----------------------------------------------------------------------------
(***************************************************************************)
(* The invariant                                                           *)
(***************************************************************************)
\* A handler is at work on a frame that came whole or is about to drop one that did not;
\* the index leads to known devices only; and a last-seen time is that of a frame from an
\* address the device may have (cpp:284-405, cpp:515-534).
THEOREM DispatchInvariant == Spec => []DispatchInv
<1>1. Init => DispatchInv
  <2> SUFFICES ASSUME Init PROVE DispatchInv
    OBVIOUS
  <2>1. Known = {} /\ DOMAIN addrToEui = {}
    BY DEF Init, Known
  <2>2. RegistryTyped
    BY <2>1 DEF Init, RegistryTyped
  <2>3. TypeOK
    BY <2>2 DEF Init, TypeOK, RegistryTyped
  <2>4. FrameInv
    BY NoMeaning DEF Init, FrameInv
  <2> QED
    BY <2>1, <2>2, <2>3, <2>4
       DEF Init, DispatchInv, RegistryInv, AddressGiven, IndexLeads, SeenMeansHeard, SenderInv
<1>2. DispatchInv /\ [Next]_vars => DispatchInv'
  BY FrameKept, RegistryKept, SenderKept, TypesKept DEF DispatchInv
<1> QED
  BY <1>1, <1>2, PTL DEF Spec

\* Type correctness.
THEOREM DispatchTypeCorrect == Spec => []TypeOK
<1>1. DispatchInv => TypeOK
  BY DEF DispatchInv
<1> QED
  BY <1>1, DispatchInvariant, PTL

\* Nothing is read past the end of a payload, nothing is made of one that was cut short,
\* and the event tells what the coordinator meant (cpp:326-342, cpp:347-361, cpp:370-404).
THEOREM EventsTellTheFrame == Spec => []EventTellsTheFrame
<1>1. DispatchInv => EventTellsTheFrame
  BY DEF DispatchInv, FrameInv, EventTellsTheFrame
<1> QED
  BY <1>1, DispatchInvariant, PTL

\* The last-seen time of a device that shares its addresses with no other is never that of
\* another's frame (cpp:390-393, cpp:524-529).
THEOREM LastSeenWasHeard == Spec => []SeenMeansHeard
<1>1. DispatchInv => SeenMeansHeard
  BY DEF DispatchInv, RegistryInv
<1> QED
  BY <1>1, DispatchInvariant, PTL

-----------------------------------------------------------------------------
(***************************************************************************)
(* The handlers implement the registry                                     *)
(***************************************************************************)
ShortAddrs == [e \in Known |-> devices[e].addr]

LEMMA SameTask ==
  ASSUME step' = step, sender' = sender, data' = data
  PROVE  RegistryTask' = RegistryTask
BY DEF RegistryTask, Eui, Addr, SrcAddr

LEMMA TaskIsOver ==
  /\ step \in {"idle", "dispatch"} => RegistryTask = Registry!NoTask
  /\ step' \in {"idle", "dispatch"} => RegistryTask' = Registry!NoTask
BY DEF RegistryTask, Registry!NoTask

LEMMA AnnounceImplements ==
  ASSUME DispatchInv, OnDeviceAnnounce
  PROVE  \E e \in Euis : \E a \in MayUse[e] : Registry!AddOrUpdateDevice(e, a)
<1>a. /\ Eui(data) = sent.eui /\ Addr(data) = sent.addr
      /\ sent.eui \in Euis /\ sent.addr \in MayUse[sent.eui]
  BY WhatIsRead DEF OnDeviceAnnounce, Handling, DispatchInv
<1>b. PICK e \in Euis : e = Eui(data)
  BY <1>a
<1>c. PICK a \in MayUse[e] : a = Addr(data)
  BY <1>a, <1>b
<1>1. /\ step = "dispatch" /\ step' = "joined" /\ data' = data
      /\ AddOrUpdateDevice(e, a, Caps(data)) /\ removed' = removed \ {e} /\ members' = members
  BY <1>b, <1>c DEF OnDeviceAnnounce, AddOrUpdateDevice, Handling, Continue, frameVars
<1>3. RegistryTask' = [step |-> "joined", eui |-> e, addr |-> a]
  BY <1>1, <1>b, <1>c DEF RegistryTask
<1>4. devices \in [Known -> DeviceStates]
  BY DEF DispatchInv, TypeOK
<1>5. ShortAddrs' = Registry!Put(ShortAddrs, e, a)
  <2>1. CASE e \in Known
    <3>1. devices' = [devices EXCEPT ![e].addr = a, ![e].seenFrom = sent.eui]
      BY <1>1, <2>1 DEF AddOrUpdateDevice
    <3>2. /\ Known' = Known /\ devices'[e].addr = a
          /\ \A k \in Known \ {e} : devices'[k] = devices[k]
      BY <1>4, <2>1, <3>1 DEF Known, DeviceStates
    <3> QED
      BY <2>1, <3>2 DEF ShortAddrs, Registry!Put
  <2>2. CASE e \notin Known
    <3>1. devices' = Put(devices, e, NewDevice(a, Caps(data), sent.eui))
      BY <1>1, <2>2 DEF AddOrUpdateDevice
    <3>2. /\ Known' = Known \cup {e} /\ devices'[e].addr = a
          /\ \A k \in Known : devices'[k] = devices[k]
      BY <2>2, <3>1 DEF Known, Put, NewDevice
    <3> QED
      BY <2>2, <3>2 DEF ShortAddrs, Registry!Put
  <2> QED
    BY <2>1, <2>2
<1>6. addrToEui' = IF e \in DOMAIN ShortAddrs THEN Registry!Reindex(e, a)
                   ELSE Registry!Put(addrToEui, a, e)
  <2>1. CASE e \in Known
    <3>1. ShortAddrs[e] = devices[e].addr /\ e \in DOMAIN ShortAddrs
      BY <2>1 DEF ShortAddrs
    <3> QED
      BY <1>1, <2>1, <3>1
         DEF AddOrUpdateDevice, Registry!Reindex, Registry!Put, Registry!Erase, Put, Erase,
             ShortAddrs
  <2>2. CASE e \notin Known
    BY <1>1, <2>2 DEF AddOrUpdateDevice, Registry!Put, Put, ShortAddrs
  <2> QED
    BY <2>1, <2>2
<1>7. Registry!AddOrUpdateDevice(e, a)
  BY <1>1, <1>3, <1>5, <1>6, TaskIsOver DEF Registry!AddOrUpdateDevice, Registry!Known, ShortAddrs
<1> QED
  BY <1>7, Zenon

LEMMA UnregisterImplements ==
  ASSUME NEW e \in Known, Unregister(e)
  PROVE  Registry!Unregister(e)
<1>1. ShortAddrs[e] = devices[e].addr
  BY DEF ShortAddrs
<1>2. ShortAddrs' = Registry!Erase(ShortAddrs, e)
  BY DEF Unregister, Erase, Registry!Erase, ShortAddrs, Known
<1> QED
  BY <1>1, <1>2 DEF Unregister, Erase, Registry!Unregister, Registry!Erase, ShortAddrs

LEMMA StepImplements ==
  ASSUME DispatchInv, [Next]_vars
  PROVE  [Registry!Next]_(Registry!vars)
<1> USE DEF Handling, Return, Continue, frameVars, registryVars, historyVars
<1>1. FrameInv
  BY DEF DispatchInv
<1>2. ASSUME registryVars' = registryVars, historyVars' = historyVars,
             RegistryTask' = RegistryTask
      PROVE  UNCHANGED Registry!vars
  BY <1>2 DEF Registry!vars, Known
<1>3. CASE UNCHANGED vars
  BY <1>2, <1>3, SameTask DEF vars
<1>4. ASSUME NEW f \in Indications, Receive(f) PROVE UNCHANGED Registry!vars
  BY <1>2, <1>4, TaskIsOver DEF Receive
<1>5. CASE DropShortFrame
  BY <1>2, <1>5, TaskIsOver DEF DropShortFrame
<1>6. CASE OnDeviceAnnounce
  BY <1>6, AnnounceImplements DEF Registry!Next
<1>7. CASE EmitJoined
  <2>1. RegistryTask = [step |-> "joined", eui |-> Eui(data), addr |-> Addr(data)]
    BY <1>7 DEF EmitJoined, RegistryTask
  <2>2. Registry!EmitJoined
    BY <1>7, <2>1, TaskIsOver DEF EmitJoined, Registry!EmitJoined, Known
  <2> QED
    BY <2>2 DEF Registry!Next
<1>8. CASE OnLeaveInd
  <2>1. step = "dispatch" /\ Eui(data) \in Euis /\ Rejoin(data) \in BOOLEAN
    BY <1>1, <1>8, WhatIsRead DEF OnLeaveInd
  <2>2. RegistryTask' = IF Rejoin(data) THEN Registry!NoTask
                        ELSE [step |-> "remove", eui |-> Eui(data), addr |-> Nothing]
    BY <1>8, TaskIsOver DEF OnLeaveInd, RegistryTask
  <2>3. Registry!EmitLeft(Eui(data), Rejoin(data))
    BY <1>8, <2>1, <2>2, TaskIsOver DEF OnLeaveInd, Registry!EmitLeft, Known
  <2> QED
    BY <2>1, <2>3 DEF Registry!Next
<1>9. CASE RemoveLeft
  <2>1. RegistryTask = [step |-> "remove", eui |-> Eui(data), addr |-> Nothing]
    BY <1>9 DEF RemoveLeft, RegistryTask
  <2>2. CASE Eui(data) \in Known
    <3>1. PICK e \in Known : e = Eui(data)
      BY <2>2
    <3>2. Unregister(e)
      BY <1>9, <3>1 DEF RemoveLeft, Unregister
    <3>3. Registry!Unregister(Eui(data))
      BY <3>1, <3>2, UnregisterImplements DEF Registry!Unregister
    <3>4. RegistryTask.step = "remove" /\ RegistryTask.eui = Eui(data)
      BY <2>1
    <3>5. Registry!Unregister(RegistryTask.eui)
      BY <3>3, <3>4 DEF Registry!Unregister
    <3>6. RegistryTask' = Registry!NoTask /\ UNCHANGED <<members, removed>>
      BY <1>9, TaskIsOver DEF RemoveLeft
    <3>7. RegistryTask.eui \in Registry!Known
      BY <2>2, <3>4 DEF Registry!Known
    <3>8. Registry!RemoveLeft
      BY <3>4, <3>5, <3>6, <3>7 DEF Registry!RemoveLeft
    <3> QED
      BY <3>8 DEF Registry!Next
  <2>3. CASE Eui(data) \notin Known
    <3>1. Registry!RemoveLeft
      BY <1>9, <2>1, <2>3, TaskIsOver DEF RemoveLeft, Registry!RemoveLeft, Registry!Known, Known
    <3> QED
      BY <3>1 DEF Registry!Next
  <2> QED
    BY <2>2, <2>3
<1>10. CASE OnAfIncomingMsg
  <2>1. SrcAddr(data) \in Word
    BY <1>1, <1>10, WhatIsRead DEF OnAfIncomingMsg
  <2>2. sender' = Registry!FindByAddr(SrcAddr(data))
    BY <1>10 DEF OnAfIncomingMsg, FindByAddr, Registry!FindByAddr, Registry!FindByEui,
                 Registry!Indexed, Registry!Known
  <2>3. RegistryTask' = [step |-> IF sender' = Nothing THEN "message" ELSE "touch",
                         eui |-> sender', addr |-> SrcAddr(data)]
    BY <1>10 DEF OnAfIncomingMsg, RegistryTask
  <2>4. Registry!FindSender(SrcAddr(data))
    BY <1>10, <2>2, <2>3, TaskIsOver DEF OnAfIncomingMsg, Registry!FindSender, Known
  <2> QED
    BY <2>1, <2>4 DEF Registry!Next
<1>11. CASE UpdateLastSeen
  <2>1. RegistryTask = [step |-> "touch", eui |-> sender, addr |-> SrcAddr(data)]
    BY <1>11 DEF UpdateLastSeen, RegistryTask
  <2>2. RegistryTask' = [step |-> "message", eui |-> sender, addr |-> SrcAddr(data)]
    BY <1>11 DEF UpdateLastSeen, RegistryTask
  <2>3. devices \in [Known -> DeviceStates]
    BY DEF DispatchInv, TypeOK
  <2>4. ShortAddrs' = ShortAddrs
    BY <1>11, <2>3 DEF UpdateLastSeen, ShortAddrs, Known, DeviceStates
  <2>5. Registry!TouchSender
    BY <1>11, <2>1, <2>2, <2>4 DEF UpdateLastSeen, Registry!TouchSender, ShortAddrs
  <2> QED
    BY <2>5 DEF Registry!Next
<1>12. CASE EmitMessage
  <2>1. RegistryTask = [step |-> "message", eui |-> sender, addr |-> SrcAddr(data)]
    BY <1>12 DEF EmitMessage, RegistryTask
  <2>2. Registry!EmitMessage
    BY <1>12, <2>1, TaskIsOver DEF EmitMessage, Registry!EmitMessage, Known
  <2> QED
    BY <2>2 DEF Registry!Next
<1>13. ASSUME NEW e \in Euis, RemoveDevice(e) PROVE Registry!RemoveDevice(e)
  <2>1. RegistryTask' = RegistryTask
    BY <1>13, SameTask DEF RemoveDevice
  <2> QED
    BY <1>13, <2>1, UnregisterImplements DEF RemoveDevice, Registry!RemoveDevice, Registry!Known
<1> QED
  BY <1>3, <1>4, <1>5, <1>6, <1>7, <1>8, <1>9, <1>10, <1>11, <1>12, <1>13
     DEF Next, Handlers, Registry!Next

\* What holds of DeviceRegistry holds of the handlers, with the device and the address the
\* coordinator meant (cpp:284-405, cpp:515-534).
THEOREM DispatchImplementsRegistry == Spec => ImplementsRegistry
<1>1. Init => Registry!Init
  <2> SUFFICES ASSUME Init PROVE Registry!Init
    OBVIOUS
  <2>1. ShortAddrs = [e \in {} |-> Nothing]
    BY DEF Init, ShortAddrs, Known
  <2> QED
    BY <2>1, TaskIsOver DEF Init, Registry!Init, ShortAddrs
<1>2. DispatchInv /\ [Next]_vars => [Registry!Next]_(Registry!vars)
  BY StepImplements
<1> QED
  BY <1>1, <1>2, DispatchInvariant, PTL DEF Spec, ImplementsRegistry, Registry!Spec

-----------------------------------------------------------------------------
(***************************************************************************)
(* What is proved of the registry holds of the handlers                    *)
(***************************************************************************)
Facts == INSTANCE DeviceRegistryProofs
  WITH Addrs <- Word,
       devicesByEui <- [e \in Known |-> devices[e].addr],
       task <- RegistryTask

LEMMA ConstantsFit == Facts!RegistryConstants
BY DispatchConstants DEF Facts!RegistryConstants

\* Registry and Facts are instances of one module, with the same substitutions.
LEMMA SameRegistry ==
  /\ Registry!Spec => Facts!Spec
  /\ Facts!IndexSound => Registry!IndexSound
  /\ Facts!ExclusiveAddressFound => Registry!ExclusiveAddressFound
  /\ Facts!EventsMatchRegistry => Registry!EventsMatchRegistry
<1>1. Registry!Init => Facts!Init
  BY DEF Registry!Init, Facts!Init, Registry!NoTask, Facts!NoTask
<1>2. Registry!Next => Facts!Next
  BY Zenon
     DEF Registry!Next, Registry!AddOrUpdateDevice, Registry!EmitJoined, Registry!EmitLeft,
         Registry!RemoveLeft, Registry!FindSender, Registry!TouchSender,
         Registry!EmitMessage, Registry!RemoveDevice,
         Registry!NoTask, Registry!Reindex, Registry!Put, Registry!Erase, Registry!Known,
         Registry!Indexed, Registry!Unregister, Registry!FindByAddr, Registry!FindByEui,
         Facts!Next, Facts!AddOrUpdateDevice, Facts!EmitJoined, Facts!EmitLeft,
         Facts!RemoveLeft, Facts!FindSender, Facts!TouchSender,
         Facts!EmitMessage, Facts!RemoveDevice,
         Facts!NoTask, Facts!Reindex, Facts!Put, Facts!Erase, Facts!Known,
         Facts!Indexed, Facts!Unregister, Facts!FindByAddr, Facts!FindByEui
<1>3. UNCHANGED Registry!vars => UNCHANGED Facts!vars
  BY DEF Registry!vars, Facts!vars
<1>4. Registry!Spec => Facts!Spec
  BY <1>1, <1>2, <1>3, PTL DEF Registry!Spec, Facts!Spec
<1>5. Facts!IndexSound => Registry!IndexSound
  BY DEF Facts!IndexSound, Registry!IndexSound, Facts!Indexed, Registry!Indexed,
         Facts!Known, Registry!Known
<1>6. Facts!ExclusiveAddressFound => Registry!ExclusiveAddressFound
  BY Zenon DEF Facts!ExclusiveAddressFound, Registry!ExclusiveAddressFound,
               Facts!Indexed, Registry!Indexed, Facts!Known, Registry!Known,
               Facts!Exclusive, Registry!Exclusive, Facts!FindByAddr, Registry!FindByAddr,
               Facts!FindByEui, Registry!FindByEui
<1>7. Facts!EventsMatchRegistry => Registry!EventsMatchRegistry
  BY Zenon DEF Facts!EventsMatchRegistry, Registry!EventsMatchRegistry,
               Facts!NoTask, Registry!NoTask, Facts!Known, Registry!Known
<1> QED
  BY <1>4, <1>5, <1>6, <1>7

\* Whatever the payloads are, the index leads to a known device that has the address, an
\* address that only one device may have leads to that device, and between two frames the
\* events and the registry agree (cpp:284-405, cpp:515-534).
THEOREM HandlersKeepTheRegistry ==
  Spec => [](/\ Registry!IndexSound
             /\ Registry!ExclusiveAddressFound
             /\ Registry!EventsMatchRegistry)
<1>1. Facts!Spec => []Facts!IndexSound
  BY ConstantsFit, Facts!IndexIsSound
<1>2. Facts!Spec => []Facts!ExclusiveAddressFound
  BY ConstantsFit, Facts!ExclusiveAddressIsFound
<1>3. Facts!Spec => []Facts!EventsMatchRegistry
  BY ConstantsFit, Facts!EventsAndRegistryAgree
<1>4. Spec => Facts!Spec
  BY SameRegistry, DispatchImplementsRegistry, PTL DEF ImplementsRegistry
<1> QED
  BY <1>1, <1>2, <1>3, <1>4, SameRegistry, PTL

=============================================================================
