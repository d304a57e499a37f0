-------------------------- MODULE FrameParserProofs --------------------------
(***************************************************************************)
(* Theorems about FrameParser and SerialLink: for any alphabet, any        *)
(* MAX_DATA_LEN and any operation on bytes that obeys the laws of XOR, on  *)
(* any stream of bytes.                                                    *)
(***************************************************************************)
EXTENDS SerialLink, SequenceTheorems, WellFoundedInduction, TLAPS

\* The frame as it is on the wire, with the FCS that the parser computes.
OnWire(f) ==
  <<SOF>> \o Covered(f)
    \o <<XorFrom(BitXor(BitXor(Cmd0(f), f.command), Len(f.data)), f.data)>>

FramesDelimited ==
  /\ Len(raw) = Len(frames)
  /\ \A i \in 1 .. Len(frames) : IsFrame(frames[i]) /\ raw[i] = OnWire(frames[i])

ParserInv == ParserTypeOK /\ RegistersMatchInput /\ FramesDelimited

(***************************************************************************)
(* CMD0                                                                    *)
(***************************************************************************)

\* The type and the subsystem bits of a CMD0 byte are numbers that put together
\* give the byte again, so no CMD0 is lost by taking it apart.
LEMMA Cmd0Splits ==
  ASSUME NEW b \in Byte
  PROVE  /\ TypeBits(b) \in Nat /\ SubsBits(b) \in Nat
         /\ TypeBits(b) + SubsBits(b) = b
<1>1. b \in Nat /\ Subsystems \in Nat \ {0}
  BY WireConstants
<1>2. b % Subsystems \in 0 .. b
  BY <1>1, Z3
<1> QED
  BY <1>1, <1>2 DEF TypeBits, SubsBits

\* What the parser makes of a CMD0 byte is what serialize() sends.
LEMMA MakeFrameKeepsCmd0 ==
  ASSUME NEW b \in Byte, NEW c \in Byte, NEW d \in Seq(Byte)
  PROVE  /\ MakeFrame(b, c, d) \in
              [type : Nat, subsystem : Nat, command : Byte, data : Seq(Byte)]
         /\ Cmd0(MakeFrame(b, c, d)) = b
BY Cmd0Splits DEF MakeFrame, Cmd0

-----------------------------------------------------------------------------
(***************************************************************************)
(* The loop of the FCS                                                     *)
(***************************************************************************)

\* Induction over the natural numbers for a set: the library's theorem takes an operator,
\* so it is derived here from the fact that < is well-founded.
LEMMA Induction ==
  ASSUME NEW S, 0 \in S, \A n \in Nat : n \in S => n + 1 \in S
  PROVE  Nat \subseteq S
<1> DEFINE R == {ss \in Nat \X Nat : ss[1] < ss[2]}
           T == Nat \ S
<1>1. IsWellFoundedOn(R, Nat)
  BY NatLessThanWellFounded DEF OpToRel
<1>2. SUFFICES ASSUME T # {} PROVE FALSE
  OBVIOUS
<1>3. PICK x \in T : \A y \in T : ~ (<<y, x>> \in R)
  <2> HIDE DEF R
  <2> QED
    BY <1>1, <1>2, WFMin
<1>4. x # 0 /\ x - 1 \in Nat /\ <<x - 1, x>> \in R
  BY <1>3
<1> QED
  BY <1>3, <1>4

\* acc holds the values of the loop that XorFrom stands for, at the positions in D.
Accumulates(acc, base, bytes, D) ==
  \A n \in D : acc[n] = IF n = 0 THEN base ELSE BitXor(acc[n - 1], bytes[n])

\* What the loop computes up to a position is determined ...
LEMMA AccUnique ==
  ASSUME NEW base, NEW bytes, NEW m \in Nat, NEW n \in Nat, m <= n, NEW f, NEW g,
         Accumulates(f, base, bytes, 0 .. m), Accumulates(g, base, bytes, 0 .. n)
  PROVE  \A k \in 0 .. m : f[k] = g[k]
<1> DEFINE S == {k \in Nat : k <= m => f[k] = g[k]}
<1>1. 0 \in S
  <2>1. 0 \in 0 .. m /\ 0 \in 0 .. n
    OBVIOUS
  <2> QED
    BY <2>1 DEF Accumulates
<1>2. ASSUME NEW k \in Nat, k \in S PROVE k + 1 \in S
  <2>1. CASE k + 1 <= m
    <3>1. k + 1 \in 0 .. m /\ k + 1 \in 0 .. n /\ k + 1 # 0 /\ k + 1 - 1 = k /\ f[k] = g[k]
       BY <2>1, <1>2
    <3>2. f[k + 1] = BitXor(f[k], bytes[k + 1]) /\ g[k + 1] = BitXor(g[k], bytes[k + 1])
       BY <3>1 DEF Accumulates
    <3> QED
      BY <3>1, <3>2
  <2> QED
    BY <2>1
<1>3. Nat \subseteq S
  <2> HIDE DEF S
  <2> QED
    BY <1>1, <1>2, Induction
<1> QED
  BY <1>3

\* ... and exists, up to any position ...
LEMMA AccExistsUpTo ==
  ASSUME NEW base, NEW bytes
  PROVE  \A n \in Nat : \E f : Accumulates(f, base, bytes, 0 .. n)
<1> DEFINE S == {n \in Nat : \E f : Accumulates(f, base, bytes, 0 .. n)}
<1>1. 0 \in S
  <2>1. Accumulates([n \in 0 .. 0 |-> base], base, bytes, 0 .. 0)
    BY DEF Accumulates
  <2> QED
    BY <2>1
<1>2. ASSUME NEW n \in Nat, n \in S PROVE n + 1 \in S
  <2>1. PICK f : Accumulates(f, base, bytes, 0 .. n)
    BY <1>2
  <2> DEFINE g == [k \in 0 .. n + 1 |-> IF k = n + 1 THEN BitXor(f[n], bytes[n + 1]) ELSE f[k]]
  <2>3. ASSUME NEW k \in 0 .. n + 1
        PROVE g[k] = IF k = 0 THEN base ELSE BitXor(g[k - 1], bytes[k])
    <3>1. CASE k = n + 1
      <4>1. k # 0 /\ k - 1 \in 0 .. n + 1 /\ k - 1 = n /\ k - 1 # n + 1
        BY <3>1
      <4> QED
        BY <3>1, <4>1
    <3>2. CASE k # n + 1
      <4>1. k \in 0 .. n /\ (k # 0 => k - 1 \in 0 .. n + 1 /\ k - 1 # n + 1)
        BY <3>2
      <4>2. f[k] = IF k = 0 THEN base ELSE BitXor(f[k - 1], bytes[k])
        BY <4>1, <2>1 DEF Accumulates
      <4> QED
        BY <3>2, <4>1, <4>2
    <3> QED
      BY <3>1, <3>2
  <2>4. Accumulates(g, base, bytes, 0 .. n + 1)
    BY <2>3 DEF Accumulates
  <2> QED
    BY <2>4
<1>3. Nat \subseteq S
  <2> HIDE DEF S
  <2> QED
    BY <1>1, <1>2, Induction
<1> QED
  BY <1>3

\* The function that XorFrom defines by recursion.
Acc(base, bytes) ==
  CHOOSE acc : acc = [n \in Nat |-> IF n = 0 THEN base ELSE BitXor(acc[n - 1], bytes[n])]

\* ... and altogether, so that Acc obeys its recursive definition.
LEMMA AccExists ==
  ASSUME NEW base, NEW bytes
  PROVE  \E acc : acc = [n \in Nat |-> IF n = 0 THEN base ELSE BitXor(acc[n - 1], bytes[n])]
<1> DEFINE F(n) == CHOOSE f : Accumulates(f, base, bytes, 0 .. n)
           g == [n \in Nat |-> F(n)[n]]
<1>1. \A n \in Nat : Accumulates(F(n), base, bytes, 0 .. n)
  BY AccExistsUpTo
<1>2. ASSUME NEW n \in Nat
      PROVE  F(n)[n] = IF n = 0 THEN base ELSE BitXor(g[n - 1], bytes[n])
  <2> HIDE DEF F
  <2>1. n \in 0 .. n /\ F(n)[n] = IF n = 0 THEN base ELSE BitXor(F(n)[n - 1], bytes[n])
    BY <1>1 DEF Accumulates
  <2>2. CASE n # 0
    <3>1. n - 1 \in Nat /\ n - 1 <= n /\ n - 1 \in 0 .. (n - 1)
      BY <2>2
    <3>2. F(n - 1)[n - 1] = F(n)[n - 1]
      BY <3>1, <1>1, AccUnique
    <3> QED
      BY <2>1, <3>1, <3>2
  <2> QED
    BY <2>1, <2>2
<1>3. g = [n \in Nat |-> IF n = 0 THEN base ELSE BitXor(g[n - 1], bytes[n])]
  <2> HIDE DEF F
  <2> QED
    BY <1>2
<1> HIDE DEF g
<1> QED
  BY <1>3

LEMMA AccStep ==
  ASSUME NEW base, NEW bytes
  PROVE  /\ Acc(base, bytes)[0] = base
         /\ \A n \in Nat : Acc(base, bytes)[n + 1] = BitXor(Acc(base, bytes)[n], bytes[n + 1])
<1> DEFINE acc == Acc(base, bytes)
<1>1. acc = [n \in Nat |-> IF n = 0 THEN base ELSE BitXor(acc[n - 1], bytes[n])]
  BY AccExists DEF Acc
<1> HIDE DEF acc
<1>2. acc[0] = base 
  BY <1>1
<1>3. ASSUME NEW n \in Nat PROVE acc[n + 1] = BitXor(acc[n], bytes[n + 1])
  <2>1. n + 1 \in Nat /\ n + 1 # 0 /\ n + 1 - 1 = n
    OBVIOUS
  <2> QED
    BY <1>1, <2>1
<1> QED
  BY <1>2, <1>3 DEF acc

LEMMA XorIsAcc ==
  ASSUME NEW base, NEW bytes
  PROVE  XorFrom(base, bytes) = Acc(base, bytes)[Len(bytes)]
BY DEF XorFrom, Acc

\* The codec computes the FCS over length, CMD0, CMD1 and data in this order, the parser
\* starts from CMD0 ^ CMD1 ^ length: at every byte of data they agree.
LEMMA FCSOrders ==
  ASSUME NEW l \in Byte, NEW c0 \in Byte, NEW c1 \in Byte, NEW d \in Seq(Byte),
         NEW h \in Seq(Byte), Len(h) = 3, h[1] = l, h[2] = c0, h[3] = c1
  PROVE  ComputeFCS(h \o d) = XorFrom(BitXor(BitXor(c0, c1), l), d)
<1> DEFINE all   == h \o d
           base  == BitXor(BitXor(c0, c1), l)
           codec == Acc(0, all)
           own   == Acc(base, d)
           S     == {n \in Nat : n <= Len(d) => codec[n + 3] = own[n]}
<1>1. /\ all \in Seq(Byte) /\ Len(all) = 3 + Len(d) /\ Len(d) \in Nat
      /\ all[1] = l /\ all[2] = c0 /\ all[3] = c1
      /\ \A n \in Nat : n + 1 <= Len(d) => all[n + 4] = d[n + 1]
  <2>1. /\ all \in Seq(Byte) /\ Len(all) = Len(h) + Len(d) /\ Len(d) \in Nat
        /\ \A i \in 1 .. Len(h) + Len(d) :
             all[i] = IF i <= Len(h) THEN h[i] ELSE d[i - Len(h)]
    BY ConcatProperties, LenProperties
  <2> HIDE DEF all
  <2>2. ASSUME NEW n \in Nat, n + 1 <= Len(d) PROVE all[n + 4] = d[n + 1]
    <3>1. n + 4 \in 1 .. 3 + Len(d) /\ ~(n + 4 <= 3) /\ (n + 4) - 3 = n + 1
      BY <2>1, <2>2
    <3> QED
      BY <2>1, <3>1
  <2> QED
    BY <2>1, <2>2
<1>2. /\ codec[0] = 0 /\ own[0] = base
      /\ \A n \in Nat : codec[n + 1] = BitXor(codec[n], all[n + 1])
      /\ \A n \in Nat : own[n + 1] = BitXor(own[n], d[n + 1])
  <2> HIDE DEF all, base
  <2> QED
    BY AccStep
<1> HIDE DEF codec, own, all, base
<1>3. codec[3] = base
  <2>1. 0 \in Nat /\ 1 \in Nat /\ 2 \in Nat /\ 0 + 1 = 1 /\ 1 + 1 = 2 /\ 2 + 1 = 3
    OBVIOUS
  <2>2. /\ codec[1] = BitXor(0, l) /\ codec[2] = BitXor(codec[1], c0)
        /\ codec[3] = BitXor(codec[2], c1)
    <3>1. /\ codec[0 + 1] = BitXor(codec[0], all[0 + 1])
          /\ codec[1 + 1] = BitXor(codec[1], all[1 + 1])
          /\ codec[2 + 1] = BitXor(codec[2], all[2 + 1])
      BY <1>2, <2>1, Zenon
    <3> QED
      BY <1>1, <1>2, <2>1, <3>1, Zenon
  <2>3. codec[3] = BitXor(BitXor(l, c0), c1)
    BY <2>2, XorLaws
  <2>4. BitXor(BitXor(l, c0), c1) = BitXor(l, BitXor(c0, c1))
    BY XorLaws
  <2>5. BitXor(l, BitXor(c0, c1)) = BitXor(BitXor(c0, c1), l)
    BY XorLaws, XorOfBytes
  <2> QED
    BY <2>3, <2>4, <2>5 DEF base
<1>4. 0 \in S
  <2>1. 0 + 3 = 3 /\ 0 \in Nat
    OBVIOUS
  <2> QED
    BY <1>2, <1>3, <2>1
<1>5. ASSUME NEW n \in Nat, n \in S PROVE n + 1 \in S
  <2>1. CASE n + 1 <= Len(d)
    <3>1. codec[n + 3] = own[n]
      BY <1>1, <1>5, <2>1
    <3>2. codec[n + 4] = BitXor(codec[n + 3], all[n + 4])
      <4>1. n + 3 \in Nat /\ (n + 3) + 1 = n + 4
        OBVIOUS
      <4> QED
        BY <1>2, <4>1
    <3>3. own[n + 1] = BitXor(own[n], d[n + 1]) /\ all[n + 4] = d[n + 1]
      BY <1>1, <1>2, <2>1
    <3>4. (n + 1) + 3 = n + 4
      OBVIOUS
    <3> QED
      BY <3>1, <3>2, <3>3, <3>4
  <2> QED
    BY <2>1
<1>6. Nat \subseteq S
  <2> HIDE DEF S
  <2> QED
    BY <1>4, <1>5, Induction
<1>7. codec[Len(d) + 3] = own[Len(d)]
  BY <1>1, <1>6
<1>8. ComputeFCS(all) = codec[Len(all)] /\ XorFrom(base, d) = own[Len(d)]
  BY XorIsAcc DEF ComputeFCS, codec, own
<1> QED
  BY <1>1, <1>7, <1>8 DEF all, base

-----------------------------------------------------------------------------
(***************************************************************************)
(* Sequences written out element by element                                *)
(***************************************************************************)

\* Appending to a sequence written out gives the longer one written out: what
\* the history variable of the parser goes through for the four header bytes.
LEMMA AppendToOne ==
  ASSUME NEW S, NEW a \in S, NEW b \in S
  PROVE  Append(<<a>>, b) = <<a, b>>
<1>1. <<a>> \in Seq(S) /\ <<a, b>> \in Seq(S) /\ Append(<<a>>, b) \in Seq(S)
  OBVIOUS
<1>2. Len(<<a>>) = 1 /\ Len(<<a, b>>) = 2
  OBVIOUS
<1>3. Len(Append(<<a>>, b)) = 2
  BY <1>1, <1>2
<1>4. Append(<<a>>, b)[1] = a /\ Append(<<a>>, b)[2] = b
  BY <1>1, <1>2
<1>5. <<a, b>>[1] = a /\ <<a, b>>[2] = b
  OBVIOUS
<1>6. \A i \in 1 .. 2 : Append(<<a>>, b)[i] = <<a, b>>[i]
  BY <1>4, <1>5
<1> QED
  BY <1>1, <1>2, <1>3, <1>6, SeqEqual

LEMMA AppendToTwo ==
  ASSUME NEW S, NEW a \in S, NEW b \in S, NEW c \in S
  PROVE  Append(<<a, b>>, c) = <<a, b, c>>
<1>1. <<a, b>> \in Seq(S) /\ <<a, b, c>> \in Seq(S) /\ Append(<<a, b>>, c) \in Seq(S)
  OBVIOUS
<1>2. Len(<<a, b>>) = 2 /\ Len(<<a, b, c>>) = 3
  OBVIOUS
<1>3. Len(Append(<<a, b>>, c)) = 3
  BY <1>1, <1>2
<1>4. <<a, b>>[1] = a /\ <<a, b>>[2] = b
  OBVIOUS
<1>5. /\ Append(<<a, b>>, c)[1] = a /\ Append(<<a, b>>, c)[2] = b
      /\ Append(<<a, b>>, c)[3] = c
  BY <1>1, <1>2, <1>4
<1>6. <<a, b, c>>[1] = a /\ <<a, b, c>>[2] = b /\ <<a, b, c>>[3] = c
  OBVIOUS
<1>7. \A i \in 1 .. 3 : Append(<<a, b>>, c)[i] = <<a, b, c>>[i]
  BY <1>5, <1>6
<1> QED
  BY <1>1, <1>2, <1>3, <1>7, SeqEqual

LEMMA AppendToThree ==
  ASSUME NEW S, NEW a \in S, NEW b \in S, NEW c \in S, NEW d \in S
  PROVE  Append(<<a, b, c>>, d) = <<a, b, c, d>>
<1>1. /\ <<a, b, c>> \in Seq(S) /\ <<a, b, c, d>> \in Seq(S)
      /\ Append(<<a, b, c>>, d) \in Seq(S)
  OBVIOUS
<1>2. Len(<<a, b, c>>) = 3 /\ Len(<<a, b, c, d>>) = 4
  OBVIOUS
<1>3. Len(Append(<<a, b, c>>, d)) = 4
  BY <1>1, <1>2
<1>4. <<a, b, c>>[1] = a /\ <<a, b, c>>[2] = b /\ <<a, b, c>>[3] = c
  OBVIOUS
<1>5. /\ Append(<<a, b, c>>, d)[1] = a /\ Append(<<a, b, c>>, d)[2] = b
      /\ Append(<<a, b, c>>, d)[3] = c /\ Append(<<a, b, c>>, d)[4] = d
  BY <1>1, <1>2, <1>4
<1>6. /\ <<a, b, c, d>>[1] = a /\ <<a, b, c, d>>[2] = b
      /\ <<a, b, c, d>>[3] = c /\ <<a, b, c, d>>[4] = d
  OBVIOUS
<1>7. \A i \in 1 .. 4 : Append(<<a, b, c>>, d)[i] = <<a, b, c, d>>[i]
  BY <1>5, <1>6
<1> QED
  BY <1>1, <1>2, <1>3, <1>7, SeqEqual

\* A byte of data appended to what came in lengthens the data part only.
LEMMA AppendToData ==
  ASSUME NEW S, NEW h \in Seq(S), NEW d \in Seq(S), NEW b \in S
  PROVE  /\ Append(h \o d, b) = h \o Append(d, b)
         /\ h \o <<>> = h
OBVIOUS

\* The header written out in one piece, and in the pieces of serialize().
LEMMA HeaderInTwo ==
  ASSUME NEW S, NEW a \in S, NEW b \in S, NEW c \in S, NEW d \in S
  PROVE  <<a, b, c, d>> = <<a>> \o <<b, c, d>>
<1> DEFINE R == <<a>> \o <<b, c, d>>
<1>1. /\ <<a, b, c, d>> \in Seq(S) /\ <<a>> \in Seq(S) /\ <<b, c, d>> \in Seq(S)
      /\ R \in Seq(S)
  OBVIOUS
<1>2. Len(<<a, b, c, d>>) = 4 /\ Len(<<a>>) = 1 /\ Len(<<b, c, d>>) = 3
  OBVIOUS
<1>3. Len(R) = 4
  BY <1>1, <1>2
<1>4. /\ <<a, b, c, d>>[1] = a /\ <<a, b, c, d>>[2] = b
      /\ <<a, b, c, d>>[3] = c /\ <<a, b, c, d>>[4] = d
      /\ <<b, c, d>>[1] = b /\ <<b, c, d>>[2] = c /\ <<b, c, d>>[3] = d
      /\ <<a>>[1] = a
  OBVIOUS
<1>5. ASSUME NEW i \in 1 .. 4 PROVE <<a, b, c, d>>[i] = R[i]
  <2>1. R[i] = IF i <= 1 THEN <<a>>[i] ELSE <<b, c, d>>[i - 1]
    BY <1>1, <1>2, <1>3, ConcatProperties
  <2>2. i = 1 \/ i = 2 \/ i = 3 \/ i = 4
    OBVIOUS
  <2> QED
    BY <1>4, <2>1, <2>2
<1> QED
  BY <1>1, <1>2, <1>3, <1>5, SeqEqual

HeaderOf(a, b, c, d) == <<a, b, c, d>>
CoveredHeader(b, c, d) == <<b, c, d>>
StartByte(a) == <<a>>
Joins(whole, first, rest) == whole = first \o rest

\* The same, with the data that follow.
LEMMA SplitHeader ==
  ASSUME NEW S
  PROVE  \A a, b, c, d \in S : \A s \in Seq(S) :
           Joins(HeaderOf(a, b, c, d) \o s, StartByte(a), CoveredHeader(b, c, d) \o s)
<1> SUFFICES ASSUME NEW a \in S, NEW b \in S, NEW c \in S, NEW d \in S, NEW s \in Seq(S)
             PROVE  HeaderOf(a, b, c, d) \o s
                      = StartByte(a) \o (CoveredHeader(b, c, d) \o s)
  BY DEF Joins
<1>1. StartByte(a) \in Seq(S) /\ CoveredHeader(b, c, d) \in Seq(S)
  BY DEF StartByte, CoveredHeader
<1>2. HeaderOf(a, b, c, d) = StartByte(a) \o CoveredHeader(b, c, d)
  BY HeaderInTwo DEF HeaderOf, StartByte, CoveredHeader
<1>3. (StartByte(a) \o CoveredHeader(b, c, d)) \o s
        = StartByte(a) \o (CoveredHeader(b, c, d) \o s)
  BY <1>1, ConcatAssociative
<1> QED
  BY <1>2, <1>3

-----------------------------------------------------------------------------
(***************************************************************************)
(* Frames on the wire                                                      *)
(***************************************************************************)

\* The FCS of bytes is a byte.
LEMMA FCSIsByte ==
  ASSUME NEW base \in Byte, NEW bytes \in Seq(Byte)
  PROVE  XorFrom(base, bytes) \in Byte
<1> DEFINE fcs == Acc(base, bytes)
           S   == {n \in Nat : n <= Len(bytes) => fcs[n] \in Byte}
<1>1. fcs[0] = base /\ \A n \in Nat : fcs[n + 1] = BitXor(fcs[n], bytes[n + 1])
  BY AccStep
<1> HIDE DEF fcs
<1>2. 0 \in S
  BY <1>1
<1>3. ASSUME NEW n \in Nat, n \in S PROVE n + 1 \in S
  <2>1. CASE n + 1 <= Len(bytes)
    <3>1. fcs[n] \in Byte /\ bytes[n + 1] \in Byte
      BY <1>3, <2>1
    <3>2. BitXor(fcs[n], bytes[n + 1]) \in Byte
      BY <3>1, XorOfBytes, Zenon
    <3>3. fcs[n + 1] \in Byte
      BY <1>1, <3>2, Zenon
    <3> QED
      BY <3>3
  <2> QED
    BY <2>1
<1>4. Nat \subseteq S
  <2> HIDE DEF S
  <2> QED
    BY <1>2, <1>3, Induction
<1>5. Len(bytes) \in Nat /\ XorFrom(base, bytes) = fcs[Len(bytes)]
  BY XorIsAcc DEF fcs
<1> QED
  BY <1>4, <1>5

\* w is s followed by t, element by element.
Follows(w, s, t) ==
  /\ Len(w) = Len(s) + Len(t) /\ Len(s) \in Nat /\ Len(t) \in Nat
  /\ \A i \in 1 .. Len(s) : w[i] = s[i]
  /\ \A i \in 1 .. Len(t) : w[i + Len(s)] = t[i]

LEMMA ConcatParts ==
  ASSUME NEW S, NEW s \in Seq(S), NEW t \in Seq(S)
  PROVE  s \o t \in Seq(S) /\ Follows(s \o t, s, t)
<1> DEFINE st == s \o t
<1>1. /\ st \in Seq(S) /\ Len(st) = Len(s) + Len(t) /\ Len(s) \in Nat /\ Len(t) \in Nat
      /\ \A i \in 1 .. Len(s) + Len(t) :
           st[i] = IF i <= Len(s) THEN s[i] ELSE t[i - Len(s)]
  BY ConcatProperties, LenProperties
<1> HIDE DEF st
<1>2. \A i \in 1 .. Len(s) : st[i] = s[i]
  BY <1>1
<1>3. ASSUME NEW i \in 1 .. Len(t) PROVE st[i + Len(s)] = t[i]
  <2>1. /\ i + Len(s) \in 1 .. Len(s) + Len(t)
        /\ ~(i + Len(s) <= Len(s)) /\ (i + Len(s)) - Len(s) = i
    BY <1>1
  <2> QED
    BY <1>1, <2>1
<1>4. Follows(st, s, t)
  BY <1>1, <1>2, <1>3 DEF Follows
<1> QED
  BY <1>1, <1>4 DEF st

\* A sequence of one byte, a middle part and one byte, element by element.
LEMMA Enclosed ==
  \A S : \A h, m, t \in Seq(S) :
    Len(h) = 1 /\ Len(t) = 1 =>
      /\ h \o m \o t \in Seq(S)
      /\ Len(h \o m \o t) = Len(m) + 2
      /\ (h \o m \o t)[1] = h[1]
      /\ \A i \in 1 .. Len(m) : (h \o m \o t)[i + 1] = m[i]
      /\ (h \o m \o t)[Len(m) + 2] = t[1]
<1> SUFFICES ASSUME NEW S, NEW h \in Seq(S), NEW m \in Seq(S), NEW t \in Seq(S),
                    Len(h) = 1, Len(t) = 1
             PROVE  /\ h \o m \o t \in Seq(S)
                    /\ Len(h \o m \o t) = Len(m) + 2
                    /\ (h \o m \o t)[1] = h[1]
                    /\ \A i \in 1 .. Len(m) : (h \o m \o t)[i + 1] = m[i]
                    /\ (h \o m \o t)[Len(m) + 2] = t[1]
  OBVIOUS
<1> DEFINE hm == h \o m
<1>1. hm \in Seq(S) /\ Len(hm) = 1 + Len(m) /\ Len(m) \in Nat
  BY ConcatParts DEF Follows
<1>2. hm[1] = h[1] /\ \A i \in 1 .. Len(m) : hm[i + 1] = m[i]
  <2>1. Follows(hm, h, m)
    BY ConcatParts
  <2> HIDE DEF hm
  <2> QED
    BY <2>1 DEF Follows
<1> HIDE DEF hm
<1> DEFINE w == hm \o t
<1>3. w \in Seq(S) /\ Follows(w, hm, t)
  BY <1>1, ConcatParts
<1> HIDE DEF w
<1>4. /\ w \in Seq(S) /\ Len(w) = Len(m) + 2
      /\ \A i \in 1 .. Len(m) + 1 : w[i] = hm[i]
      /\ w[1 + (1 + Len(m))] = t[1]
  BY <1>1, <1>3 DEF Follows
<1>5. w[1] = h[1] /\ w[Len(m) + 2] = t[1]
  BY <1>1, <1>2, <1>4
<1>6. ASSUME NEW i \in 1 .. Len(m) PROVE w[i + 1] = m[i]
  <2>1. i + 1 \in 1 .. Len(m) + 1
    BY <1>1
  <2> QED
    BY <1>2, <1>4, <2>1
<1> QED
  BY <1>4, <1>5, <1>6 DEF w, hm

\* What the FCS covers, byte by byte.
LEMMA CoveredBytes ==
  ASSUME NEW f, IsFrame(f)
  PROVE  /\ Covered(f) \in Seq(Byte) /\ Len(Covered(f)) = Len(f.data) + 3
         /\ Len(f.data) \in Nat /\ Len(f.data) \in Byte
         /\ Covered(f)[1] = Len(f.data) /\ Covered(f)[2] = Cmd0(f)
         /\ Covered(f)[3] = f.command
         /\ \A i \in 1 .. Len(f.data) : Covered(f)[i + 3] = f.data[i]
<1> DEFINE h == <<Len(f.data), Cmd0(f), f.command>>
           d == f.data
<1>1. /\ Len(d) \in Nat /\ Len(d) \in Byte /\ Cmd0(f) \in Byte /\ f.command \in Byte
      /\ d \in Seq(Byte)
  BY WireConstants DEF IsFrame
<1>2. /\ h \in Seq(Byte) /\ Len(h) = 3
      /\ h[1] = Len(d) /\ h[2] = Cmd0(f) /\ h[3] = f.command
  BY <1>1
<1>3. Covered(f) = h \o d
  BY DEF Covered
<1> HIDE DEF h, d
<1>4. /\ h \o d \in Seq(Byte) /\ Len(h \o d) = Len(d) + 3
      /\ \A i \in 1 .. 3 : (h \o d)[i] = h[i]
      /\ \A i \in 1 .. Len(d) : (h \o d)[i + 3] = d[i]
  <2> DEFINE hd == h \o d
  <2>1. hd \in Seq(Byte) /\ Follows(hd, h, d)
    BY <1>1, <1>2, ConcatParts
  <2> HIDE DEF hd
  <2>2. /\ hd \in Seq(Byte) /\ Len(hd) = Len(d) + 3
        /\ \A i \in 1 .. 3 : hd[i] = h[i]
        /\ \A i \in 1 .. Len(d) : hd[i + 3] = d[i]
    BY <1>1, <1>2, <2>1 DEF Follows
  <2> QED
    BY <2>2 DEF hd
<1> QED
  BY <1>1, <1>2, <1>3, <1>4 DEF d

\* The FCS of a frame is the one the parser computes for it, so what serialize() sends is
\* what the parser takes for a frame.
LEMMA FCSAgrees ==
  ASSUME NEW f, IsFrame(f)
  PROVE  /\ ComputeFCS(Covered(f))
              = XorFrom(BitXor(BitXor(Cmd0(f), f.command), Len(f.data)), f.data)
         /\ ComputeFCS(Covered(f)) \in Byte
<1>1. /\ Len(f.data) \in Byte /\ Cmd0(f) \in Byte /\ f.command \in Byte
      /\ f.data \in Seq(Byte)
  BY CoveredBytes DEF IsFrame
<1> DEFINE h == <<Len(f.data), Cmd0(f), f.command>>
<1>2. /\ h \in Seq(Byte) /\ Len(h) = 3
      /\ h[1] = Len(f.data) /\ h[2] = Cmd0(f) /\ h[3] = f.command
  BY <1>1
<1>3. Covered(f) = h \o f.data
  BY DEF Covered
<1> HIDE DEF h
<1>4. 0 \in Byte
  BY WireConstants
<1>5. ComputeFCS(Covered(f)) \in Byte
  BY <1>4, FCSIsByte, CoveredBytes DEF ComputeFCS
<1>6. ComputeFCS(h \o f.data)
        = XorFrom(BitXor(BitXor(Cmd0(f), f.command), Len(f.data)), f.data)
  BY <1>1, <1>2, FCSOrders
<1> QED
  BY <1>3, <1>5, <1>6

LEMMA SerializedBytes ==
  ASSUME NEW f, IsFrame(f)
  PROVE  /\ Serialize(f) \in Seq(Byte) /\ Len(Serialize(f)) = Len(f.data) + 5
         /\ Serialize(f) = OnWire(f)
         /\ Serialize(f)[1] = SOF /\ Serialize(f)[2] = Len(f.data)
         /\ Serialize(f)[3] = Cmd0(f) /\ Serialize(f)[4] = f.command
         /\ \A i \in 1 .. Len(f.data) : Serialize(f)[i + 4] = f.data[i]
         /\ \A i \in 1 .. Len(f.data) + 3 : Serialize(f)[i + 1] = Covered(f)[i]
         /\ Serialize(f)[Len(f.data) + 5] = ComputeFCS(Covered(f))
<1> DEFINE c == ComputeFCS(Covered(f))
           h == StartByte(SOF)
           t == StartByte(c)
           m == Covered(f)
           w == h \o m \o t
<1>1. Serialize(f) = w /\ Serialize(f) = OnWire(f)
  BY FCSAgrees, Zenon DEF Serialize, OnWire, StartByte
<1>2. /\ h \in Seq(Byte) /\ Len(h) = 1 /\ h[1] = SOF
      /\ t \in Seq(Byte) /\ Len(t) = 1 /\ t[1] = c
  BY FCSAgrees, WireConstants DEF StartByte
<1>3. /\ m \in Seq(Byte) /\ Len(m) = Len(f.data) + 3 /\ Len(f.data) \in Nat
      /\ m[1] = Len(f.data) /\ m[2] = Cmd0(f) /\ m[3] = f.command
      /\ \A i \in 1 .. Len(f.data) : m[i + 3] = f.data[i]
  BY CoveredBytes
<1> HIDE DEF c, h, t, m
<1>4. /\ w \in Seq(Byte) /\ Len(w) = Len(m) + 2 /\ w[1] = SOF
      /\ \A i \in 1 .. Len(m) : w[i + 1] = m[i]
      /\ w[Len(m) + 2] = c
  <2>1. Len(h) = 1 /\ Len(t) = 1 /\ h \in Seq(Byte) /\ m \in Seq(Byte) /\ t \in Seq(Byte)
    BY <1>2, <1>3
  <2>2. /\ w \in Seq(Byte) /\ Len(w) = Len(m) + 2 /\ w[1] = h[1]
        /\ \A i \in 1 .. Len(m) : w[i + 1] = m[i]
        /\ w[Len(m) + 2] = t[1]
    BY <2>1, Enclosed
  <2> QED
    BY <1>2, <2>2, Zenon
<1> HIDE DEF w
<1>5. w[1 + 1] = m[1] /\ w[2 + 1] = m[2] /\ w[3 + 1] = m[3]
  <2>1. 1 \in 1 .. Len(m) /\ 2 \in 1 .. Len(m) /\ 3 \in 1 .. Len(m)
    BY <1>3
  <2> QED
    BY <1>4, <2>1, Zenon
<1>6. w[2] = Len(f.data) /\ w[3] = Cmd0(f) /\ w[4] = f.command
  BY <1>3, <1>5
<1>7. ASSUME NEW i \in 1 .. Len(f.data) PROVE w[i + 4] = f.data[i]
  <2>1. i + 3 \in 1 .. Len(m) /\ (i + 3) + 1 = i + 4
    BY <1>3
  <2> QED
    BY <1>3, <1>4, <2>1
<1>8. Len(m) + 2 = Len(f.data) + 5
  BY <1>3
<1> QED
  BY <1>1, <1>3, <1>4, <1>6, <1>7, <1>8 DEF c, m

\* deserialize() takes apart what serialize() has put together, for every frame that
\* serialize() accepts: lengths, CMD0 and the FCS included (ZNPFrame.cpp:29-91).
THEOREM DeserializeInvertsSerialize ==
  ASSUME NEW f, IsFrame(f)
  PROVE  Deserialize(Serialize(f)) = f
<1> DEFINE w == Serialize(f)
           n == Len(f.data)
           c == Covered(f)
<1>1. /\ w \in Seq(Byte) /\ Len(w) = n + 5 /\ w[1] = SOF /\ w[2] = n
      /\ w[3] = Cmd0(f) /\ w[4] = f.command
      /\ \A i \in 1 .. n : w[i + 4] = f.data[i]
      /\ \A i \in 1 .. n + 3 : w[i + 1] = c[i]
      /\ w[n + 5] = ComputeFCS(c)
  BY SerializedBytes
<1>2. n \in Nat /\ f.data \in Seq(Byte) /\ c \in Seq(Byte) /\ Len(c) = n + 3
  BY CoveredBytes DEF IsFrame
<1> HIDE DEF w, n, c
<1>3. \A i \in 1 .. n + 5 : w[i] \in Byte
  BY <1>1, <1>2, ElementOfSeq
<1>4. SubSeq(w, 2, 4 + n) = c
  <2> DEFINE u == SubSeq(w, 2, 4 + n)
  <2>1. 2 \in Int /\ 4 + n \in Int /\ \A i \in 2 .. 4 + n : w[i] \in Byte
    BY <1>2, <1>3
  <2>2. /\ u \in Seq(Byte) /\ Len(u) = IF 2 <= 4 + n THEN (4 + n) - 2 + 1 ELSE 0
        /\ \A i \in 1 .. (4 + n) - 2 + 1 : u[i] = w[2 + i - 1]
    BY <2>1, SubSeqProperties
  <2> HIDE DEF u
  <2>3. Len(u) = n + 3
    BY <1>2, <2>2
  <2>4. ASSUME NEW i \in 1 .. Len(u) PROVE u[i] = c[i]
    <3>1. i \in 1 .. (4 + n) - 2 + 1 /\ i \in 1 .. n + 3 /\ 2 + i - 1 = i + 1
      BY <1>2, <2>3
    <3> QED
      BY <1>1, <2>2, <3>1
  <2>5. u = c
    BY <1>2, <2>2, <2>3, <2>4, SeqEqual
  <2> QED
    BY <2>5 DEF u
<1>5. SubSeq(w, 5, 4 + n) = f.data
  <2> DEFINE u == SubSeq(w, 5, 4 + n)
  <2>1. 5 \in Int /\ 4 + n \in Int /\ \A i \in 5 .. 4 + n : w[i] \in Byte
    BY <1>2, <1>3
  <2>2. /\ u \in Seq(Byte) /\ Len(u) = IF 5 <= 4 + n THEN (4 + n) - 5 + 1 ELSE 0
        /\ \A i \in 1 .. (4 + n) - 5 + 1 : u[i] = w[5 + i - 1]
    BY <2>1, SubSeqProperties
  <2> HIDE DEF u
  <2>3. Len(u) = n
    BY <1>2, <2>2
  <2>4. ASSUME NEW i \in 1 .. Len(u) PROVE u[i] = f.data[i]
    <3>1. i \in 1 .. (4 + n) - 5 + 1 /\ i \in 1 .. n /\ 5 + i - 1 = i + 4
      BY <1>2, <2>3
    <3> QED
      BY <1>1, <2>2, <3>1
  <2>5. u = f.data
    BY <1>2, <2>2, <2>3, <2>4, SeqEqual DEF n
  <2> QED
    BY <2>5 DEF u
<1>6. Len(w) >= 5 /\ Len(w) >= 5 + w[2] /\ 5 + w[2] = n + 5
  BY <1>1, <1>2
<1>7. ComputeFCS(SubSeq(w, 2, 4 + w[2])) = w[5 + w[2]]
  BY <1>1, <1>4, <1>6
<1>8. Deserialize(w) = MakeFrame(w[3], w[4], SubSeq(w, 5, 4 + w[2]))
  BY <1>1, <1>6, <1>7 DEF Deserialize
<1> QED
  BY <1>1, <1>5, <1>8 DEF w, IsFrame

-----------------------------------------------------------------------------
(***************************************************************************)
(* Every step of the parser                                                *)
(***************************************************************************)
Frame == [type : Nat, subsystem : Nat, command : Byte, data : Seq(Byte)]

\* The type invariant survives every byte: a length is stored only when it is
\* within MAX_DATA_LEN.
LEMMA FeedKeepsTypes ==
  ASSUME ParserInv, NEW b \in Byte, Feed(b)
  PROVE  ParserTypeOK'
<1> USE WireConstants DEF ParserInv, ParserTypeOK, States
<1>1. Append(pending, b) \in Seq(Byte) /\ <<b>> \in Seq(Byte) /\ <<>> \in Seq(Byte)
  OBVIOUS
<1>2. Append(dataAccum, b) \in Seq(Byte)
  OBVIOUS
<1>3. CASE FeedWaitSOF(b)
  BY <1>1, <1>3, Zenon DEF FeedWaitSOF
<1>4. CASE FeedLength(b)
  <2>1. b \in Nat /\ MaxDataLen \in Nat
    OBVIOUS
  <2>2. ~(b > MaxDataLen) => b \in 0 .. MaxDataLen
    BY <2>1
  <2>3. length' \in 0 .. MaxDataLen
    BY <1>4, <2>2, Zenon DEF FeedLength
  <2> QED
    BY <1>1, <1>4, <2>3, Zenon DEF FeedLength
<1>5. CASE FeedCMD0(b)
  BY <1>1, <1>5, Zenon DEF FeedCMD0
<1>6. CASE FeedCMD1(b)
  BY <1>1, <1>6, Zenon DEF FeedCMD1
<1>7. CASE FeedData(b)
  BY <1>1, <1>2, <1>7, Zenon DEF FeedData
<1>8. CASE FeedFCS(b)
  <2>1. MakeFrame(cmd0, cmd1, dataAccum) \in Frame
    BY MakeFrameKeepsCmd0 DEF Frame
  <2>2. frames \in Seq(Frame)
    BY Zenon DEF Frame
  <2>3. Append(frames, MakeFrame(cmd0, cmd1, dataAccum)) \in Seq(Frame)
    BY <2>1, <2>2
  <2>4. Append(raw, Append(pending, b)) \in Seq(Seq(Byte))
    BY <1>1
  <2> QED
    BY <1>1, <1>8, <2>2, <2>3, <2>4, Zenon DEF FeedFCS, Frame
<1> QED
  BY <1>3, <1>4, <1>5, <1>6, <1>7, <1>8 DEF Feed

\* So does the agreement of the registers with the bytes that came in.
LEMMA FeedKeepsRegisters ==
  ASSUME ParserInv, NEW b \in Byte, Feed(b)
  PROVE  RegistersMatchInput'
<1> USE WireConstants DEF ParserInv
<1> USE DEF RegistersMatchInput
<1>1. SOF \in Byte /\ length \in Byte /\ cmd0 \in Byte /\ cmd1 \in Byte
  BY DEF ParserTypeOK
<1>2. dataAccum \in Seq(Byte) /\ Header \in Seq(Byte)
  BY <1>1 DEF ParserTypeOK, Header
<1>3. CASE FeedWaitSOF(b)
  BY <1>3, Zenon DEF FeedWaitSOF
<1>4. CASE FeedLength(b)
  <2>1. Append(<<SOF>>, b) = <<SOF, b>>
    BY <1>1, AppendToOne
  <2> QED
    BY <1>4, <2>1, Zenon DEF FeedLength
<1>5. CASE FeedCMD0(b)
  <2>1. Append(<<SOF, length>>, b) = <<SOF, length, b>>
    BY <1>1, AppendToTwo
  <2> QED
    BY <1>5, <2>1, Zenon DEF FeedCMD0
<1>6. CASE FeedCMD1(b)
  <2>1. Append(<<SOF, length, cmd0>>, b) = <<SOF, length, cmd0, b>>
    BY <1>1, AppendToThree
  <2>2. Header' = <<SOF, length, cmd0, b>> /\ dataAccum' = <<>>
    BY <1>6, Zenon DEF FeedCMD1, Header
  <2>3. <<SOF, length, cmd0, b>> \in Seq(Byte)
    BY <1>1
  <2>4. pending' = Header' \o dataAccum'
    <3>1. pending' = <<SOF, length, cmd0, b>>
      BY <1>6, <2>1, Zenon DEF FeedCMD1
    <3>2. <<SOF, length, cmd0, b>> \o <<>> = <<SOF, length, cmd0, b>>
      BY <2>3, AppendToData
    <3> QED
      BY <2>2, <3>1, <3>2, Zenon
  <2>5. Len(dataAccum') = 0 /\ length' = length /\ length \in Nat
    BY <1>6, <2>2 DEF FeedCMD1, ParserTypeOK
  <2>6. state' = IF length = 0 THEN "FCS" ELSE "Data"
    BY <1>6, Zenon DEF FeedCMD1
  <2>7. /\ state' = "Data" => Len(dataAccum') < length'
        /\ state' = "FCS" => Len(dataAccum') = length'
        /\ state' \in {"Data", "FCS"}
    BY <2>5, <2>6
  <2> QED
    BY <2>4, <2>7
<1>7. CASE FeedData(b)
  <2>1. Append(Header \o dataAccum, b) = Header \o Append(dataAccum, b)
    <3> HIDE DEF ParserInv, RegistersMatchInput
    <3> QED
      BY <1>2
  <2>2. pending' = Header' \o dataAccum'
    BY <1>7, <2>1, Zenon DEF FeedData, Header
  <2>3. /\ Len(dataAccum') = Len(dataAccum) + 1 /\ Len(dataAccum) \in Nat
        /\ Len(dataAccum) < length /\ length \in Nat /\ length' = length
    BY <1>2, <1>7 DEF FeedData, ParserTypeOK
  <2>4. state' = IF Len(dataAccum') = length THEN "FCS" ELSE "Data"
    BY <1>7, Zenon DEF FeedData
  <2>5. /\ state' = "Data" => Len(dataAccum') < length'
        /\ state' = "FCS" => Len(dataAccum') = length'
        /\ state' \in {"Data", "FCS"}
    BY <2>3, <2>4
  <2> QED
    BY <2>2, <2>5
<1>8. CASE FeedFCS(b)
  BY <1>8, Zenon DEF FeedFCS
<1> QED
  BY <1>3, <1>4, <1>5, <1>6, <1>7, <1>8 DEF Feed

\* The frame an FCS byte completes is queued with the bytes it came from.
LEMMA FeedKeepsFrames ==
  ASSUME ParserInv, NEW b \in Byte, Feed(b)
  PROVE  FramesDelimited'
<1> USE DEF ParserInv
<1>1. CASE ~(state = "FCS" /\ Computed = b)
  <2>1. frames' = frames /\ raw' = raw
    BY <1>1, Zenon DEF Feed, FeedWaitSOF, FeedLength, FeedCMD0, FeedCMD1, FeedData, FeedFCS
  <2> QED
    BY <2>1, Zenon DEF FramesDelimited
<1>2. CASE state = "FCS" /\ Computed = b
  <2> DEFINE f == MakeFrame(cmd0, cmd1, dataAccum)
             r == Append(pending, b)
  <2>1. frames' = Append(frames, f) /\ raw' = Append(raw, r)
    BY <1>2 DEF Feed, FeedWaitSOF, FeedLength, FeedCMD0, FeedCMD1, FeedData, FeedFCS
  <2>2. /\ f.command = cmd1 /\ f.data = dataAccum /\ Cmd0(f) = cmd0
        /\ f \in Frame
    BY MakeFrameKeepsCmd0 DEF MakeFrame, ParserTypeOK, Frame
  <2>3. pending = <<SOF, length, cmd0, cmd1>> \o dataAccum /\ Len(dataAccum) = length
    BY <1>2 DEF RegistersMatchInput, Header
  <2>4. Covered(f) = <<length, cmd0, cmd1>> \o dataAccum
    BY <2>2, <2>3, Zenon DEF Covered
  <2>5. /\ SOF \in Byte /\ length \in Byte /\ cmd0 \in Byte /\ cmd1 \in Byte
        /\ dataAccum \in Seq(Byte) /\ pending \in Seq(Byte)
    BY WireConstants DEF ParserTypeOK
  <2>6. pending = <<SOF>> \o Covered(f)
    <3>1. pending = HeaderOf(SOF, length, cmd0, cmd1) \o dataAccum
      BY <2>3, Zenon DEF HeaderOf
    <3>2. Covered(f) = CoveredHeader(length, cmd0, cmd1) \o dataAccum
      BY <2>4, Zenon DEF CoveredHeader
    <3>3. /\ SOF \in Byte /\ length \in Byte /\ cmd0 \in Byte /\ cmd1 \in Byte
          /\ dataAccum \in Seq(Byte)
      BY <2>5, Zenon
    <3>4. Joins(HeaderOf(SOF, length, cmd0, cmd1) \o dataAccum, StartByte(SOF),
                CoveredHeader(length, cmd0, cmd1) \o dataAccum)
      BY <3>3, SplitHeader, Zenon
    <3> QED
      BY <3>1, <3>2, <3>4, Zenon DEF Joins, StartByte
  <2>7. b = XorFrom(BitXor(BitXor(Cmd0(f), f.command), Len(f.data)), f.data)
    BY <1>2, <2>2, <2>3, Zenon DEF Computed
  <2>8. r = pending \o <<b>>
    BY <2>5, AppendIsConcat
  <2>9. r = OnWire(f)
    BY <2>6, <2>7, <2>8, Zenon DEF OnWire
  <2>10. frames \in Seq(Frame) /\ raw \in Seq(Seq(Byte)) /\ r \in Seq(Byte)
    BY <2>5 DEF ParserTypeOK, Frame
  <2>11. Len(raw') = Len(frames') /\ Len(frames') = Len(frames) + 1 /\ Len(frames) \in Nat
    BY <2>1, <2>2, <2>10 DEF FramesDelimited
  <2>12. IsFrame(f)
    <3>1. f = MakeFrame(Cmd0(f), f.command, f.data)
      BY <2>2, Zenon
    <3>2. Len(f.data) <= MaxDataLen /\ f.data \in Seq(Byte)
      BY <2>2, <2>3, <2>5, WireConstants DEF ParserTypeOK
    <3>3. Cmd0(f) \in Byte /\ f.command \in Byte
      BY <2>2, <2>5
    <3> QED
      BY <3>1, <3>2, <3>3 DEF IsFrame
  <2>13. ASSUME NEW i \in 1 .. Len(frames')
         PROVE  IsFrame(frames'[i]) /\ raw'[i] = OnWire(frames'[i])
    <3>1. CASE i \in 1 .. Len(frames)
      <4>1. frames'[i] = frames[i] /\ raw'[i] = raw[i]
        BY <2>1, <2>2, <2>10, <3>1, AppendProperties DEF FramesDelimited
      <4> QED
        BY <3>1, <4>1, Zenon DEF FramesDelimited
    <3>2. CASE i = Len(frames) + 1
      <4>1. frames'[i] = f /\ raw'[i] = r
        BY <2>1, <2>2, <2>10, <3>2, AppendProperties DEF FramesDelimited
      <4> QED
        BY <2>9, <2>12, <4>1, Zenon
    <3> QED
      BY <2>11, <3>1, <3>2
  <2> QED
    BY <2>11, <2>13, Zenon DEF FramesDelimited, OnWire, Covered, Cmd0, IsFrame, MakeFrame
<1> QED
  BY <1>1, <1>2

LEMMA NextFrameKeepsInv ==
  ASSUME ParserInv, NextFrame
  PROVE  ParserInv'
<1> USE DEF ParserInv
<1>1. /\ frames \in Seq(Frame) /\ frames # <<>>
      /\ raw \in Seq(Seq(Byte)) /\ raw # <<>>
  <2>1. frames \in Seq(Frame) /\ frames # <<>> /\ raw \in Seq(Seq(Byte))
    BY DEF ParserTypeOK, NextFrame, Frame
  <2>2. Len(frames) # 0
    BY <2>1
  <2>3. raw # <<>>
    BY <2>2 DEF FramesDelimited
  <2> QED
    BY <2>1, <2>3
<1>2. frames' \in Seq(Frame) /\ raw' \in Seq(Seq(Byte))
  BY <1>1, HeadTailProperties DEF NextFrame
<1>3. ParserTypeOK'
  BY <1>2, Zenon DEF ParserTypeOK, NextFrame, Frame
<1>4. RegistersMatchInput'
  BY Zenon DEF RegistersMatchInput, Header, NextFrame
<1>5. FramesDelimited'
  <2>1. /\ Len(frames') = Len(frames) - 1 /\ Len(raw') = Len(raw) - 1
        /\ Len(frames) \in Nat /\ Len(raw) = Len(frames)
    BY <1>1, HeadTailProperties DEF NextFrame, FramesDelimited
  <2>2. ASSUME NEW i \in 1 .. Len(frames')
        PROVE  IsFrame(frames'[i]) /\ raw'[i] = OnWire(frames'[i])
    <3>1. frames'[i] = frames[i + 1] /\ raw'[i] = raw[i + 1]
      BY <1>1, <2>1, HeadTailProperties DEF NextFrame
    <3>2. i + 1 \in 1 .. Len(frames)
      BY <2>1
    <3> QED
      BY <3>1, <3>2, Zenon DEF FramesDelimited
  <2> QED
    BY <2>1, <2>2, Zenon DEF FramesDelimited, OnWire, Covered, Cmd0, IsFrame, MakeFrame
<1> QED
  BY <1>3, <1>4, <1>5

-----------------------------------------------------------------------------
(***************************************************************************)
(* The parser on any stream of bytes                                       *)
(***************************************************************************)
LEMMA ParserInvInductive == ParserSpec => []ParserInv
<1>1. ParserInit => ParserInv
  <2>1. ASSUME ParserInit PROVE ParserInv
    <3>1. 0 \in Byte /\ 0 \in 0 .. MaxDataLen
      BY WireConstants
    <3>2. ParserTypeOK
      BY <2>1, <3>1 DEF ParserInit, ParserTypeOK, States
    <3>3. RegistersMatchInput /\ FramesDelimited
      BY <2>1 DEF ParserInit, RegistersMatchInput, FramesDelimited
    <3> QED
      BY <3>2, <3>3 DEF ParserInv
  <2> QED
    BY <2>1
<1>2. ParserInv /\ [ParserNext]_parserVars => ParserInv'
  <2> SUFFICES ASSUME ParserInv, [ParserNext]_parserVars PROVE ParserInv'
    OBVIOUS
  <2>1. CASE \E b \in Byte : Feed(b)
    BY <2>1, FeedKeepsTypes, FeedKeepsRegisters, FeedKeepsFrames DEF ParserInv
  <2>2. CASE NextFrame
    BY <2>2, NextFrameKeepsInv
  <2>3. CASE UNCHANGED parserVars
    BY <2>3, Zenon DEF parserVars, ParserInv, ParserTypeOK, RegistersMatchInput, Header,
                FramesDelimited, OnWire, Covered, Cmd0
  <2> QED
    BY <2>1, <2>2, <2>3 DEF ParserNext
<1> QED
  BY <1>1, <1>2, PTL DEF ParserSpec

\* feed() stores bytes in its byte registers, a length within MAX_DATA_LEN in
\* length_ and well-formed frames in frames_ (ZNPFrame.cpp:97-152).
THEOREM ParserTypeCorrect == ParserSpec => []ParserTypeOK
BY ParserInvInductive, PTL DEF ParserInv

\* Whatever bytes come, the registers hold what came in since the SOF and nothing
\* of an earlier frame (ZNPFrame.cpp:97-152).
THEOREM RegistersHoldInput == ParserSpec => []RegistersMatchInput
BY ParserInvInductive, PTL DEF ParserInv

\* Every frame nextFrame() can return stands for the very bytes between one SOF
\* and one FCS of the input, with the FCS the parser computes (ZNPFrame.cpp:132-149).
THEOREM FramesAreDelimited == ParserSpec => []FramesDelimited
BY ParserInvInductive, PTL DEF ParserInv

\* Every frame nextFrame() can return is one that serialize() would have sent as the
\* bytes it was parsed from, and that deserialize() reads in them: the three agree on
\* every input (ZNPFrame.cpp:29-91, ZNPFrame.cpp:132-149).
THEOREM OnlyGenuineFrames == ParserSpec => []FramesGenuine
<1>1. ParserInv => FramesGenuine
  <2> SUFFICES ASSUME ParserInv PROVE FramesGenuine
    OBVIOUS
  <2>1. ASSUME NEW i \in 1 .. Len(frames)
        PROVE  raw[i] = Serialize(frames[i]) /\ Deserialize(raw[i]) = frames[i]
    <3>1. IsFrame(frames[i]) /\ raw[i] = OnWire(frames[i])
      BY DEF ParserInv, FramesDelimited
    <3>2. raw[i] = Serialize(frames[i])
      BY <3>1, SerializedBytes
    <3> QED
      BY <3>1, <3>2, DeserializeInvertsSerialize
  <2> QED
    BY <2>1 DEF ParserInv, FramesDelimited, FramesGenuine
<1> QED
  BY <1>1, ParserInvInductive, PTL

\* The parser is never more than MAX_DATA_LEN + 4 bytes into what it takes for a frame,
\* whatever the line does (ZNPFrame.hpp:18-19, ZNPFrame.cpp:105-113, 126-130).
THEOREM ExtentIsBounded == ParserSpec => []FrameExtentBounded
<1>1. ASSUME ParserInv PROVE FrameExtentBounded
  <2> USE WireConstants DEF ParserInv
  <2>1. /\ SOF \in Byte /\ length \in Byte /\ cmd0 \in Byte /\ cmd1 \in Byte
        /\ dataAccum \in Seq(Byte) /\ length \in 0 .. MaxDataLen /\ MaxDataLen \in Nat
    BY <1>1 DEF ParserTypeOK
  <2>2. Header \in Seq(Byte) /\ Len(Header) = 4
    BY <2>1 DEF Header
  <2>3. Len(Header \o dataAccum) = 4 + Len(dataAccum) /\ Len(dataAccum) \in Nat
    <3>1. Len(Header \o dataAccum) = Len(Header) + Len(dataAccum)
      BY <2>1, <2>2, ConcatProperties, Zenon
    <3> QED
      BY <2>1, <2>2, <3>1
  <2>4. /\ Len(<<>>) = 0 /\ Len(<<SOF>>) = 1 /\ Len(<<SOF, length>>) = 2
        /\ Len(<<SOF, length, cmd0>>) = 3
    OBVIOUS
  <2>5. CASE state \in {"Data", "FCS"}
    <3>1. pending = Header \o dataAccum /\ Len(dataAccum) <= length
      BY <1>1, <2>1, <2>3, <2>5 DEF RegistersMatchInput
    <3> QED
      BY <2>1, <2>3, <3>1 DEF FrameExtentBounded
  <2>6. CASE state \in {"WaitSOF", "Length", "CMD0", "CMD1"}
    <3>1. Len(pending) \in 0 .. 3
      BY <1>1, <2>4, <2>6 DEF RegistersMatchInput
    <3>2. MaxDataLen \in Nat
      BY <2>1
    <3>3. \A n \in 0 .. 3 : n <= MaxDataLen + 4
      BY <3>2
    <3> QED
      BY <3>1, <3>3, Zenon DEF FrameExtentBounded
  <2> QED
    BY <1>1, <2>5, <2>6 DEF ParserTypeOK, States
<1> QED
  BY <1>1, ParserInvInductive, PTL

-----------------------------------------------------------------------------
(***************************************************************************)
(* The parser at the end of the serial line                                *)
(***************************************************************************)
WireOK == wire \in Seq(Byte)

LEMMA WireKept ==
  ASSUME WireOK, [Next]_vars
  PROVE  WireOK'
<1>1. ASSUME NEW f \in Sendable, StartFrame(f) PROVE WireOK'
  BY <1>1, LinkConstants, SerializedBytes DEF StartFrame, WireOK
<1>2. CASE wire # <<>> /\ wire' = Tail(wire)
  BY <1>2, HeadTailProperties DEF WireOK
<1>3. CASE wire' = wire
  BY <1>3 DEF WireOK
<1> QED
  BY <1>1, <1>2, <1>3 DEF Next, Arrive, LoseByte, AddByte, Pop, linkVars, vars

\* With the coordinator, the line and its faults, and the driver that empties the
\* queue, the parser is the one of ParserSpec: every step of the link is a step of
\* the parser or leaves it alone (ZigbeeDongle.cpp:263-269).
THEOREM LinkRefinesParser == Spec => ParserSpec
<1>1. Init => WireOK /\ ParserInit
  BY DEF Init, WireOK
<1>2. WireOK /\ [Next]_vars => WireOK'
  BY WireKept
<1>3. WireOK /\ [Next]_vars => [ParserNext]_parserVars
  <2> SUFFICES ASSUME WireOK, [Next]_vars PROVE [ParserNext]_parserVars
    OBVIOUS
  <2>1. CASE Arrive
    <3>1. Head(wire) \in Byte
      BY <2>1, HeadTailProperties DEF Arrive, WireOK
    <3> QED
      BY <2>1, <3>1 DEF Arrive, ParserNext
  <2>2. ASSUME NEW b \in Noise, AddByte(b) PROVE [ParserNext]_parserVars
    <3>1. b \in Byte /\ Feed(b)
      BY <2>2, LinkConstants DEF AddByte
    <3> QED
      BY <3>1 DEF ParserNext
  <2>3. CASE Pop
    BY <2>3, Zenon DEF Pop, ParserNext
  <2>4. CASE UNCHANGED parserVars
    BY <2>4
  <2> QED
    BY <2>1, <2>2, <2>3, <2>4 DEF Next, StartFrame, LoseByte, vars
<1> QED
  BY <1>1, <1>2, <1>3, PTL DEF Spec, ParserSpec

-----------------------------------------------------------------------------
(***************************************************************************)
(* No frame is lost                                                        *)
(***************************************************************************)

\* While a frame that began in WaitSOF arrives undisturbed, the parser has taken what was
\* sent of it, and the rest is on the wire.
InStep ==
  intact /\ synced /\ wire # <<>> => Follows(Serialize(current), pending, wire)

LinkInv == ParserInv /\ WireOK /\ current \in Sendable /\ InStep

\* One byte on.
LEMMA FollowsStep ==
  ASSUME NEW w, NEW p \in Seq(Byte), NEW v \in Seq(Byte), v # <<>>, Follows(w, p, v)
  PROVE  Follows(w, Append(p, Head(v)), Tail(v))
<1> DEFINE q == Append(p, Head(v))
           r == Tail(v)
<1>1. Head(v) \in Byte /\ Head(v) = v[1] /\ Len(v) \in Nat /\ Len(v) >= 1
      /\ Len(p) \in Nat
  BY HeadTailProperties, EmptySeq, LenProperties
<1>2. /\ Len(q) = Len(p) + 1 /\ q[Len(p) + 1] = v[1]
      /\ \A i \in 1 .. Len(p) : q[i] = p[i]
  BY <1>1, AppendProperties
<1>3. Len(r) = Len(v) - 1 /\ \A i \in 1 .. Len(r) : r[i] = v[i + 1]
  BY HeadTailProperties
<1> HIDE DEF q, r
<1>4. Len(w) = Len(q) + Len(r) /\ Len(q) \in Nat /\ Len(r) \in Nat
  BY <1>1, <1>2, <1>3 DEF Follows
<1>5. ASSUME NEW i \in 1 .. Len(q) PROVE w[i] = q[i]
  <2>1. CASE i \in 1 .. Len(p)
    BY <1>2, <2>1 DEF Follows
  <2>2. CASE i = Len(p) + 1
    <3>1. 1 \in 1 .. Len(v) /\ 1 + Len(p) = i
      BY <1>1, <2>2
    <3>2. w[1 + Len(p)] = v[1]
      BY <3>1 DEF Follows
    <3> QED
      BY <1>2, <2>2, <3>1, <3>2
  <2> QED
    BY <1>1, <1>2, <2>1, <2>2
<1>6. ASSUME NEW i \in 1 .. Len(r) PROVE w[i + Len(q)] = r[i]
  <2>1. i + 1 \in 1 .. Len(v) /\ (i + 1) + Len(p) = i + Len(q)
    BY <1>1, <1>2, <1>3
  <2>2. w[(i + 1) + Len(p)] = v[i + 1]
    BY <2>1 DEF Follows
  <2> QED
    BY <1>3, <2>1, <2>2
<1> QED
  BY <1>4, <1>5, <1>6 DEF Follows, q, r

\* How far the parser is in the frame, and that it is at the FCS exactly when one byte
\* is missing.
LEMMA Position ==
  ASSUME ParserInv, WireOK, wire # <<>>, IsFrame(current),
         Follows(Serialize(current), pending, wire)
  PROVE  /\ state = "WaitSOF" => Head(wire) = SOF
         /\ state = "Length" => Head(wire) <= MaxDataLen
         /\ (state = "FCS") <=> (Tail(wire) = <<>>)
         /\ state = "FCS" => /\ cmd0 = Cmd0(current) /\ cmd1 = current.command
                             /\ dataAccum = current.data
                             /\ Computed = Head(wire)
<1> DEFINE w == Serialize(current)
           n == Len(current.data)
<1>1. /\ w \in Seq(Byte) /\ Len(w) = n + 5
      /\ w[1] = SOF /\ w[2] = n /\ w[3] = Cmd0(current) /\ w[4] = current.command
      /\ \A i \in 1 .. n : w[i + 4] = current.data[i]
      /\ w[n + 5] = ComputeFCS(Covered(current))
  BY SerializedBytes
<1>2. /\ n \in Nat /\ current.data \in Seq(Byte) /\ n <= MaxDataLen
      /\ ComputeFCS(Covered(current))
           = XorFrom(BitXor(BitXor(Cmd0(current), current.command), n), current.data)
  BY CoveredBytes, FCSAgrees DEF IsFrame
<1>3. Follows(w, pending, wire)
  OBVIOUS
<1> HIDE DEF w, n
<1>4. /\ Len(wire) \in Nat /\ Len(wire) >= 1 /\ Len(pending) \in Nat
      /\ Head(wire) = wire[1] /\ 1 \in 1 .. Len(wire)
      /\ (Tail(wire) = <<>>) <=> (Len(wire) = 1)
  <2>1. wire \in Seq(Byte) /\ wire # <<>> /\ pending \in Seq(Byte)
    BY DEF WireOK, ParserInv, ParserTypeOK
  <2>2. Len(wire) \in Nat /\ Len(wire) >= 1 /\ Len(pending) \in Nat /\ Head(wire) = wire[1]
    BY <2>1, EmptySeq, HeadTailProperties, LenProperties
  <2>3. Tail(wire) \in Seq(Byte) /\ Len(Tail(wire)) = Len(wire) - 1
    BY <2>1, HeadTailProperties
  <2>4. (Tail(wire) = <<>>) <=> (Len(Tail(wire)) = 0)
    BY <2>3, EmptySeq
  <2> QED
    BY <2>2, <2>3, <2>4
<1>5. Head(wire) = w[1 + Len(pending)] /\ Len(pending) + Len(wire) = n + 5
  BY <1>1, <1>3, <1>4 DEF Follows
<1>6. \A i \in 1 .. Len(pending) : w[i] = pending[i]
  BY <1>3 DEF Follows
<1>7. /\ SOF \in Byte /\ length \in Byte /\ cmd0 \in Byte /\ cmd1 \in Byte
      /\ dataAccum \in Seq(Byte) /\ length \in Nat /\ Len(dataAccum) \in Nat
  BY WireConstants DEF ParserInv, ParserTypeOK
<1>8. CASE state \in {"WaitSOF", "Length", "CMD0", "CMD1"}
  <2>1. /\ Len(<<>>) = 0 /\ Len(<<SOF>>) = 1 /\ Len(<<SOF, length>>) = 2
        /\ Len(<<SOF, length, cmd0>>) = 3
    OBVIOUS
  <2> DEFINE k == Len(pending)
             m == Len(wire)
  <2>2. /\ state = "WaitSOF" => k = 0
        /\ state = "Length" => k = 1
        /\ state = "CMD0" => k = 2
        /\ state = "CMD1" => k = 3
    BY <2>1 DEF ParserInv, RegistersMatchInput
  <2>3. m \in Nat /\ k + m = n + 5 /\ Head(wire) = w[1 + k]
    BY <1>4, <1>5
  <2> HIDE DEF k, m
  <2>4. k \in 0 .. 3
    BY <1>8, <2>2
  <2>5. m # 1 /\ state # "FCS"
    BY <1>2, <1>8, <2>3, <2>4
  <2>6. ASSUME state = "WaitSOF" PROVE Head(wire) = SOF
    BY <1>1, <2>2, <2>3, <2>6
  <2>7. ASSUME state = "Length" PROVE Head(wire) <= MaxDataLen
    <3>1. 1 + k = 2
      BY <2>2, <2>7
    <3> QED
      BY <1>1, <1>2, <2>3, <3>1
  <2> QED
    BY <1>4, <2>5, <2>6, <2>7 DEF m
<1>9. CASE state \in {"Data", "FCS"}
  <2>1. Header \in Seq(Byte) /\ Len(Header) = 4
        /\ Header[2] = length /\ Header[3] = cmd0 /\ Header[4] = cmd1
    BY <1>7 DEF Header
  <2>2. /\ pending = Header \o dataAccum
        /\ state = "Data" => Len(dataAccum) < length
        /\ state = "FCS" => Len(dataAccum) = length
    BY <1>9 DEF ParserInv, RegistersMatchInput
  <2>3. Follows(pending, Header, dataAccum)
    BY <1>7, <2>1, <2>2, ConcatParts
  <2>4. /\ Len(pending) = 4 + Len(dataAccum)
        /\ pending[2] = length /\ pending[3] = cmd0 /\ pending[4] = cmd1
        /\ \A i \in 1 .. Len(dataAccum) : pending[i + 4] = dataAccum[i]
    <3> HIDE DEF Header
    <3>1. \A i \in 1 .. Len(Header) : pending[i] = Header[i]
      BY <2>3 DEF Follows
    <3>2. 2 \in 1 .. Len(Header) /\ 3 \in 1 .. Len(Header) /\ 4 \in 1 .. Len(Header)
      BY <2>1
    <3> QED
      BY <2>1, <2>3, <3>1, <3>2 DEF Follows
  <2>5. length = n /\ cmd0 = Cmd0(current) /\ cmd1 = current.command
    <3>1. 2 \in 1 .. Len(pending) /\ 3 \in 1 .. Len(pending) /\ 4 \in 1 .. Len(pending)
      BY <1>7, <2>4
    <3> QED
      BY <1>1, <1>6, <2>4, <3>1
  <2>6. (state = "FCS") <=> (Len(wire) = 1)
    <3> DEFINE d == Len(dataAccum)
               m == Len(wire)
    <3>1. d \in Nat /\ m \in Nat /\ (4 + d) + m = n + 5
      BY <1>4, <1>5, <1>7, <2>4
    <3>2. (state = "Data" => d < n) /\ (state = "FCS" => d = n)
      BY <2>2, <2>5
    <3> HIDE DEF d, m
    <3>3. ASSUME state = "Data" PROVE m # 1
      BY <1>2, <3>1, <3>2, <3>3
    <3>4. ASSUME state = "FCS" PROVE m = 1
      BY <1>2, <3>1, <3>2, <3>4
    <3> QED
      BY <1>9, <3>3, <3>4 DEF m
  <2>7. ASSUME state = "FCS" PROVE dataAccum = current.data /\ Computed = Head(wire)
    <3>1. Len(dataAccum) = n
      BY <2>2, <2>5, <2>7
    <3>2. ASSUME NEW i \in 1 .. n PROVE dataAccum[i] = current.data[i]
      <4>1. i + 4 \in 1 .. Len(pending) /\ i \in 1 .. Len(dataAccum)
        BY <1>2, <2>4, <3>1
      <4>2. w[i + 4] = pending[i + 4] /\ pending[i + 4] = dataAccum[i]
        BY <1>6, <2>4, <4>1
      <4> QED
        BY <1>1, <4>2
    <3>3. dataAccum = current.data
      BY <1>2, <1>7, <3>1, <3>2, SeqEqual DEF n
    <3>4. Head(wire) = w[n + 5]
      BY <1>2, <1>5, <2>4, <3>1
    <3> QED
      BY <1>1, <1>2, <2>5, <3>3, <3>4 DEF Computed
  <2> QED
    BY <1>4, <1>9, <2>5, <2>6, <2>7
<1> QED
  BY <1>8, <1>9 DEF ParserInv, ParserTypeOK, States

\* A byte of such a frame takes the parser one byte on, and the last one queues it.
LEMMA ArriveInStep ==
  ASSUME LinkInv, Arrive, intact, synced
  PROVE  /\ wire' # <<>> => pending' = Append(pending, Head(wire))
         /\ wire' = <<>> => Queued
<1>1. wire # <<>> /\ wire' = Tail(wire) /\ Feed(Head(wire))
  BY DEF Arrive
<1>2. IsFrame(current)
  BY LinkConstants DEF LinkInv
<1>3. /\ state = "WaitSOF" => Head(wire) = SOF
      /\ state = "Length" => Head(wire) <= MaxDataLen
      /\ (state = "FCS") <=> (Tail(wire) = <<>>)
      /\ state = "FCS" => /\ cmd0 = Cmd0(current) /\ cmd1 = current.command
                          /\ dataAccum = current.data
                          /\ Computed = Head(wire)
  BY <1>1, <1>2, Position DEF LinkInv, InStep
<1>4. CASE state = "FCS"
  <2>1. frames' = Append(frames, MakeFrame(cmd0, cmd1, dataAccum))
    BY <1>1, <1>3, <1>4 DEF Feed, FeedWaitSOF, FeedLength, FeedCMD0, FeedCMD1, FeedData, FeedFCS
  <2>2. MakeFrame(cmd0, cmd1, dataAccum) = current
    BY <1>2, <1>3, <1>4, Zenon DEF IsFrame
  <2> QED
    BY <1>1, <1>3, <1>4, <2>1, <2>2 DEF Queued
<1>5. CASE state # "FCS"
  <2>1. wire' # <<>>
    BY <1>1, <1>3, <1>5
  <2>2. Head(wire) \in Nat /\ MaxDataLen \in Nat
    BY <1>1, HeadTailProperties, WireConstants DEF LinkInv, WireOK
  <2>3. state = "Length" => ~(Head(wire) > MaxDataLen)
    BY <1>3, <2>2
  <2>4. state = "WaitSOF" => pending = <<>> /\ Append(pending, Head(wire)) = <<Head(wire)>>
    BY DEF LinkInv, ParserInv, RegistersMatchInput
  <2>5. pending' = Append(pending, Head(wire))
    BY <1>1, <1>3, <1>5, <2>3, <2>4, Zenon
       DEF Feed, FeedWaitSOF, FeedLength, FeedCMD0, FeedCMD1, FeedData, FeedFCS
  <2> QED
    BY <2>1, <2>5
<1> QED
  BY <1>4, <1>5

LEMMA NextKeepsInStep ==
  ASSUME LinkInv, WireOK', [Next]_vars
  PROVE  current' \in Sendable /\ InStep'
<1>1. ASSUME NEW f \in Sendable, StartFrame(f) PROVE current' \in Sendable /\ InStep'
  <2>1. current' = f /\ wire' = Serialize(f) /\ pending' = pending
        /\ synced' = (state = "WaitSOF")
    BY <1>1 DEF StartFrame, parserVars
  <2>2. ASSUME state = "WaitSOF" PROVE Follows(Serialize(f), <<>>, Serialize(f))
    <3>1. Serialize(f) \in Seq(Byte) /\ Len(Serialize(f)) \in Nat
      BY LinkConstants, SerializedBytes
    <3>2. Len(<<>>) = 0
      OBVIOUS
    <3> QED
      BY <3>1, <3>2 DEF Follows
  <2>3. state = "WaitSOF" => pending = <<>>
    BY DEF LinkInv, ParserInv, RegistersMatchInput
  <2> QED
    BY <2>1, <2>2, <2>3 DEF InStep
<1>2. CASE Arrive
  <2>1. UNCHANGED <<current, intact, synced>> /\ wire # <<>> /\ wire' = Tail(wire)
    BY <1>2 DEF Arrive
  <2>2. ASSUME intact, synced, wire' # <<>>
        PROVE  Follows(Serialize(current), pending', wire')
    <3>1. pending' = Append(pending, Head(wire))
      BY <1>2, <2>2, ArriveInStep
    <3>2. pending \in Seq(Byte) /\ wire \in Seq(Byte)
      BY DEF LinkInv, ParserInv, ParserTypeOK, WireOK
    <3>3. Follows(Serialize(current), pending, wire)
      BY <2>1, <2>2 DEF LinkInv, InStep
    <3> QED
      BY <2>1, <3>1, <3>2, <3>3, FollowsStep
  <2> QED
    BY <2>1, <2>2 DEF InStep, LinkInv
<1>3. CASE LoseByte
  BY <1>3 DEF LoseByte, InStep, LinkInv
<1>4. ASSUME NEW b \in Noise, AddByte(b) PROVE current' \in Sendable /\ InStep'
  BY <1>4 DEF AddByte, InStep, LinkInv
<1>5. CASE Pop
  BY <1>5 DEF Pop, NextFrame, linkVars, InStep, LinkInv
<1>6. CASE UNCHANGED vars
  BY <1>6 DEF vars, parserVars, linkVars, InStep, LinkInv
<1> QED
  BY <1>1, <1>2, <1>3, <1>4, <1>5, <1>6 DEF Next

\* A frame that begins while the parser waits for an SOF, and arrives undisturbed, comes
\* out of the parser as it was sent, whatever faults came before it and whatever its
\* bytes look like (ZNPFrame.cpp:97-152).
THEOREM SyncedFramesAreQueued == Spec => SyncedFrameQueued
<1>1. Spec => []ParserInv
  BY LinkRefinesParser, ParserInvInductive, PTL
<1>2. Init => WireOK /\ current \in Sendable /\ InStep
  BY DEF Init, WireOK, InStep
<1>3. /\ ParserInv /\ WireOK /\ current \in Sendable /\ InStep
      /\ [Next]_vars
      => WireOK' /\ (current \in Sendable)' /\ InStep'
  BY WireKept, NextKeepsInStep DEF LinkInv
<1>4. LinkInv /\ [Next]_vars => [FrameComplete /\ synced => Queued]_vars
  <2> SUFFICES ASSUME LinkInv, Next, FrameComplete, synced PROVE Queued
    OBVIOUS
  <2>1. ASSUME NEW f \in Sendable, StartFrame(f) PROVE Queued
    <3>1. Serialize(f) # <<>>
      <4>1. Serialize(f)  \in Seq(Byte) /\ Len(Serialize(f)) = Len(f.data) + 5
            /\ Len(f.data) \in Nat
        BY LinkConstants, SerializedBytes, CoveredBytes
      <4>2. Len(Serialize(f)) # 0 /\ Len(<<>>) = 0
        BY <4>1
      <4> QED
        BY <4>2
    <3> QED
      BY <2>1, <3>1 DEF StartFrame, FrameComplete
  <2>2. CASE Arrive
    BY <2>2, ArriveInStep DEF FrameComplete, Arrive
  <2>3. CASE LoseByte \/ (\E b \in Noise : AddByte(b)) \/ Pop
    BY <2>3 DEF LoseByte, AddByte, Pop, linkVars, FrameComplete
  <2> QED
    BY <2>1, <2>2, <2>3 DEF Next
<1>5. Spec => [](WireOK /\ current \in Sendable /\ InStep)
  BY <1>1, <1>2, <1>3, PTL DEF Spec
<1>6. Spec => []LinkInv
  BY <1>1, <1>5, PTL DEF LinkInv
<1> QED
  BY <1>4, <1>6, PTL DEF Spec, SyncedFrameQueued
=============================================================================
