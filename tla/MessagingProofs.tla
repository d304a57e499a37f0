--------------------------- MODULE MessagingProofs ----------------------------
(***************************************************************************)
(* Theorems about Messaging, for any senders, any number of requests, any  *)
(* width of the counter and any number of parts of a frame.                *)
(***************************************************************************)
EXTENDS Messaging, SerialPortProofs

\* While no destroyed port was touched, the port is in the states of SerialPort.
PortGuard == PortTypeInv /\ (misused \/ (PortInv /\ BytesInv))

SendersTyped ==
  /\ call \in [Senders -> Calls] /\ calls \in 0 .. MaxCalls
  /\ afSeqNum \in 0 .. SeqMod - 1
  /\ numbers \in Seq([id : 1 .. MaxCalls, seq : 0 .. SeqMod - 1, raced : BOOLEAN])
  /\ wire \in Seq([id : 1 .. MaxCalls, part : 1 .. Parts])
  /\ accepted \subseteq 1 .. MaxCalls /\ overlapped \subseteq 1 .. MaxCalls

Active(s) == call[s].at # "idle"
InWrite(s) == call[s].at = "write"

\* A request has a number of its own, and is in the hands of one sender until it returns.
CallInv ==
  /\ \A s \in Senders :
       /\ InWrite(s) => call[s].done < Parts
       /\ ~InWrite(s) => call[s].done = 0
       /\ Active(s) => call[s].id \in 1 .. calls /\ call[s].id \notin accepted
  /\ \A s, t \in Senders : Active(s) /\ Active(t) /\ call[s].id = call[t].id => s = t
  /\ accepted \subseteq 1 .. calls

\* What a request under way has on the line are its first parts.
LineInv ==
  /\ \A i \in DOMAIN wire : wire[i].id \in 1 .. calls
  /\ \A s \in Senders : Active(s) =>
       /\ \A i \in DOMAIN wire : wire[i].id = call[s].id => wire[i].part <= call[s].done
       /\ \A k \in 1 .. call[s].done : \E i \in DOMAIN wire : wire[i] = Part(call[s].id, k)
  /\ \A id \in 1 .. calls : InOrder(id)
  /\ \A id \in accepted : IsWhole(id)

\* A request that is alone in write() has its parts at the end of the line.
AtEnd(id, n) ==
  n <= Len(wire) /\ \A k \in 1 .. n : wire[Len(wire) - n + k] = Part(id, k)
AloneInv ==
  /\ \A s, t \in Senders : InWrite(s) /\ InWrite(t) /\ s # t => call[s].id \in overlapped
  /\ \A s \in Senders :
       InWrite(s) /\ call[s].id \notin overlapped => AtEnd(call[s].id, call[s].done)
  /\ \A id \in accepted \ overlapped : IsUnbroken(id)

MsgInv == PortGuard /\ SendersTyped /\ CallInv /\ LineInv /\ AloneInv

\* The d-th number after q.
After(q, d) == IF q + d < SeqMod THEN q + d ELSE q + d - SeqMod

\* From a number the counter goes on by one with every send, as long as none races.
RunsOn ==
  \A i, j \in DOMAIN numbers :
    i <= j /\ j - i < SeqMod /\ (\A k \in i .. j - 1 : ~numbers[k].raced)
      => numbers[j].seq = After(numbers[i].seq, j - i)

Storing == {s \in Senders : call[s].at = "store"}

\* The send that took the last number, if it did not race, is the only one that has its
\* store to do, or has done it.
LastNumber ==
  LET last == numbers[Len(numbers)]
  IN  numbers # <<>> /\ ~last.raced =>
        \/ \E s \in Storing :
             Storing = {s} /\ call[s].id = last.id /\ call[s].seq = last.seq
        \/ Storing = {} /\ afSeqNum = After(last.seq, 1)

NumbersInv == RunsOn /\ LastNumber

-----------------------------------------------------------------------------
(***************************************************************************)
(* What a step does to the senders                                         *)
(***************************************************************************)

\* Only s moves.
Others(s) == \A t \in Senders \ {s} : call'[t] = call[t]

LEMMA SlotOf ==
  ASSUME SendersTyped, NEW s \in Senders
  PROVE  /\ call[s] \in Calls
         /\ call[s].at \in {"idle", "load", "store", "check", "write"}
         /\ call[s].id \in 0 .. MaxCalls /\ call[s].seq \in 0 .. SeqMod - 1
         /\ call[s].port \in 0 .. MaxPorts /\ call[s].done \in 0 .. Parts
         /\ call[s].id \in Nat /\ call[s].done \in Nat
         /\ calls \in Nat /\ MaxCalls \in Nat /\ Parts \in Nat /\ SeqMod \in Nat
<1>1. call[s] \in Calls /\ calls \in 0 .. MaxCalls
  BY DEF SendersTyped
<1>2. MaxCalls \in Nat /\ Parts \in Nat /\ SeqMod \in Nat
  BY MessagingConstants
<1> QED
  BY <1>1, <1>2 DEF Calls

LEMMA Moves ==
  ASSUME SendersTyped, NEW s \in Senders, NEW c, call' = [call EXCEPT ![s] = c]
  PROVE  /\ call'[s] = c /\ Others(s)
         /\ c \in Calls => call' \in [Senders -> Calls]
BY DEF SendersTyped, Others

LEMMA IdleIsCall == Idle \in Calls
<1>1. 0 \in 0 .. MaxCalls /\ 0 \in 0 .. SeqMod - 1 /\ 0 \in 0 .. MaxPorts /\ 0 \in 0 .. Parts
  BY MessagingConstants, SerialPortConstants
<1> QED
  BY <1>1 DEF Idle, Calls

\* A sender whose request goes on, or returns.
LEMMA CallKept ==
  ASSUME SendersTyped, CallInv, NEW s \in Senders, Others(s), UNCHANGED <<calls, accepted>>,
         \/ call'[s] = Idle
         \/ /\ Active(s) /\ Active(s)' /\ call'[s].id = call[s].id
            /\ InWrite(s)' => call'[s].done < Parts
            /\ ~InWrite(s)' => call'[s].done = 0
  PROVE  CallInv'
<1>1. \A t \in Senders : Active(t)' => Active(t) /\ call'[t].id = call[t].id
  BY DEF Others, Active, Idle
<1>2. ASSUME NEW t \in Senders
      PROVE  /\ InWrite(t)' => call'[t].done < Parts
             /\ ~InWrite(t)' => call'[t].done = 0
  BY DEF CallInv, Others, InWrite, Idle
<1> QED
  BY <1>1, <1>2 DEF CallInv

\* A step that writes nothing.
LEMMA LineKept ==
  ASSUME SendersTyped, LineInv, UNCHANGED <<wire, accepted>>, calls' \in {calls, calls + 1},
         \A t \in Senders : Active(t)' =>
           \/ Active(t) /\ call'[t].id = call[t].id /\ call'[t].done = call[t].done
           \/ call'[t].id = calls + 1 /\ call'[t].done = 0
  PROVE  LineInv'
<1>1. calls \in Nat
  BY MessagingConstants DEF SendersTyped
<1>2. \A i \in DOMAIN wire : wire[i].id \in 1 .. calls
  BY DEF LineInv
<1>3. \A i \in DOMAIN wire' : wire'[i].id \in 1 .. calls'
  BY <1>1, <1>2
<1>4. ASSUME NEW t \in Senders, Active(t)'
      PROVE  /\ \A i \in DOMAIN wire : wire[i].id = call'[t].id => wire[i].part <= call'[t].done
             /\ \A k \in 1 .. call'[t].done :
                  \E i \in DOMAIN wire : wire[i] = Part(call'[t].id, k)
  <2>1. CASE Active(t) /\ call'[t].id = call[t].id /\ call'[t].done = call[t].done
    BY <2>1 DEF LineInv
  <2>2. CASE call'[t].id = calls + 1 /\ call'[t].done = 0
    BY <1>1, <1>2, <2>2
  <2> QED
    BY <1>4, <2>1, <2>2
<1>5. ASSUME NEW id \in 1 .. calls' PROVE InOrder(id)'
  <2>1. CASE id \in 1 .. calls
    BY <2>1 DEF LineInv, InOrder
  <2>2. CASE id = calls + 1
    BY <1>1, <1>2, <2>2 DEF InOrder
  <2> QED
    BY <1>1, <2>1, <2>2
<1>6. \A id \in accepted' : IsWhole(id)'
  BY DEF LineInv, IsWhole, InOrder
<1> QED
  BY <1>3, <1>4, <1>5, <1>6 DEF LineInv

\* A step that writes nothing and enters no write().
LEMMA AloneKept ==
  ASSUME AloneInv, UNCHANGED <<wire, accepted, overlapped>>,
         \A t \in Senders : InWrite(t)' => InWrite(t) /\ call'[t] = call[t]
  PROVE  AloneInv'
<1>1. \A t \in Senders : InWrite(t)' => InWrite(t) /\ call'[t].id = call[t].id
                                        /\ call'[t].done = call[t].done
  OBVIOUS
<1>2. \A id \in accepted' \ overlapped' : IsUnbroken(id)'
  BY DEF AloneInv, IsUnbroken
<1>3. \A t \in Senders :
        InWrite(t)' /\ call'[t].id \notin overlapped' => AtEnd(call[t].id, call[t].done)'
  BY <1>1 DEF AloneInv, AtEnd
<1> QED
  BY <1>1, <1>2, <1>3 DEF AloneInv

-----------------------------------------------------------------------------
(***************************************************************************)
(* The steps                                                               *)
(***************************************************************************)
LEMMA PortGuardKept ==
  ASSUME PortGuard, UNCHANGED portVars
  PROVE  PortGuard'
<1>1. PortTypeInv'
  BY TypesKept, PortTypeParts
  DEF PortGuard, portVars, ownVars, objVars, loopVars, ioVars, byteVars, errVars, endVars
<1>2. misused' = misused
  BY DEF portVars, endVars
<1>3. PortInv /\ BytesInv => PortInv' /\ BytesInv'
  BY PortInvStep, BytesInvStep
<1> QED
  BY <1>1, <1>2, <1>3 DEF PortGuard

LEMMA PortStepKeeps ==
  ASSUME MsgInv, PortNext, UNCHANGED sendVars
  PROVE  MsgInv'
<1>1. PortGuard'
  <2>1. PortInv /\ BytesInv /\ PortTypeInv
    BY DEF PortNext, MsgInv, PortGuard
  <2> QED
    BY <2>1, PortInvStep, BytesInvStep, PortTypeInvStep DEF PortGuard
<1>2. SendersTyped'
  BY DEF MsgInv, SendersTyped, sendVars
<1>3. CallInv'
  BY DEF MsgInv, CallInv, sendVars, Active, InWrite
<1>4. LineInv'
  BY DEF MsgInv, LineInv, sendVars, Active, InOrder, IsWhole
<1>5. AloneInv'
  BY AloneKept DEF MsgInv, sendVars, InWrite
<1> QED
  BY <1>1, <1>2, <1>3, <1>4, <1>5 DEF MsgInv

LEMMA RequestKeeps ==
  ASSUME MsgInv, NEW s \in Senders, NEW at \in {"load", "check"}, Begin(s, at)
  PROVE  MsgInv'
<1>1. /\ call[s].at = "idle" /\ calls < MaxCalls /\ calls' = calls + 1
      /\ call' = [call EXCEPT ![s].at = at, ![s].id = calls + 1]
      /\ UNCHANGED <<portVars, afSeqNum, numbers, wire, accepted, overlapped>>
  BY DEF Begin
<1>2. SendersTyped /\ CallInv /\ LineInv /\ AloneInv /\ PortGuard
  BY DEF MsgInv
<1>3. /\ calls \in Nat /\ calls' \in 1 .. MaxCalls /\ calls' \in 0 .. MaxCalls
      /\ call[s] \in Calls
  BY <1>1, <1>2, SlotOf
<1> DEFINE c == [call[s] EXCEPT !.at = at, !.id = calls + 1]
<1>4. call' = [call EXCEPT ![s] = c]
  BY <1>1, <1>2 DEF SendersTyped
<1>5. /\ c \in Calls /\ c.at = at /\ c.id = calls + 1 /\ c.done = call[s].done
  BY <1>1, <1>3 DEF Calls
<1>6. call[s].done = 0
  BY <1>1, <1>2 DEF CallInv, InWrite
<1>7. /\ Others(s) /\ call' \in [Senders -> Calls]
      /\ call'[s].at = at /\ call'[s].id = calls + 1 /\ call'[s].done = 0
  BY <1>2, <1>4, <1>5, <1>6, Moves
<1> HIDE DEF c
<1>8. SendersTyped'
  BY <1>1, <1>2, <1>3, <1>7 DEF SendersTyped
<1>9. \A t \in Senders \ {s} : Active(t) => call[t].id \in 1 .. calls
  BY <1>2 DEF CallInv
<1>10. CallInv'
  <2>1. \A t \in Senders : /\ InWrite(t)' => call'[t].done < Parts
                           /\ ~InWrite(t)' => call'[t].done = 0
    BY <1>2, <1>7 DEF CallInv, Others, InWrite
  <2>2. \A id \in accepted : id \in 1 .. calls
    BY <1>2 DEF CallInv
  <2>3. calls + 1 \notin accepted /\ calls + 1 \in 1 .. calls'
    BY <1>1, <1>3, <2>2
  <2>4. \A id \in 1 .. calls : id \in 1 .. calls' /\ id # calls + 1
    BY <1>1, <1>3
  <2>5. \A t \in Senders : Active(t)' =>
          call'[t].id \in 1 .. calls' /\ call'[t].id \notin accepted'
    BY <1>1, <1>2, <1>7, <2>3, <2>4 DEF CallInv, Others, Active
  <2>6. \A t, u \in Senders :
          Active(t)' /\ Active(u)' /\ call'[t].id = call'[u].id => t = u
    BY <1>2, <1>7, <1>9, <2>4 DEF CallInv, Others, Active
  <2> QED
    BY <1>1, <2>1, <2>2, <2>4, <2>5, <2>6 DEF CallInv
<1>11. LineInv'
  <2>1. \A t \in Senders : Active(t)' =>
           \/ Active(t) /\ call'[t].id = call[t].id /\ call'[t].done = call[t].done
           \/ call'[t].id = calls + 1 /\ call'[t].done = 0
    BY <1>7 DEF Others, Active
  <2> QED
    BY <1>1, <1>2, <2>1, LineKept
<1>12. AloneInv'
  <2>1. \A t \in Senders : InWrite(t)' => InWrite(t) /\ call'[t] = call[t]
    BY <1>7 DEF Others, InWrite
  <2> QED
    BY <1>1, <1>2, <2>1, AloneKept
<1>13. PortGuard'
  BY <1>1, <1>2, PortGuardKept
<1> QED
  BY <1>8, <1>10, <1>11, <1>12, <1>13 DEF MsgInv

\* A sender goes on with its request: nothing is written, and none enters write().
LEMMA GoOnKeeps ==
  ASSUME MsgInv, NEW s \in Senders, NEW c \in Calls, call' = [call EXCEPT ![s] = c],
         \/ c = Idle
         \/ Active(s) /\ c.at # "idle" /\ c.at # "write" /\ c.id = call[s].id /\ c.done = 0
            /\ ~InWrite(s),
         UNCHANGED <<portVars, calls, wire, accepted, overlapped>>
  PROVE  PortGuard' /\ call' \in [Senders -> Calls] /\ CallInv' /\ LineInv' /\ AloneInv'
<1>1. SendersTyped /\ CallInv /\ LineInv /\ AloneInv /\ PortGuard
  BY DEF MsgInv
<1>2. call'[s] = c /\ Others(s) /\ call' \in [Senders -> Calls]
  BY <1>1, Moves
<1>3. CallInv'
  BY <1>1, <1>2, CallKept DEF Active, InWrite
<1>4. LineInv'
  <2>1. ~InWrite(s) => call[s].done = 0
    BY <1>1 DEF CallInv
  <2>2. \A t \in Senders : Active(t)' =>
          Active(t) /\ call'[t].id = call[t].id /\ call'[t].done = call[t].done
    BY <1>2, <2>1 DEF Others, Active, Idle
  <2> QED
    BY <1>1, <2>2, LineKept
<1>5. AloneInv'
  <2>1. \A t \in Senders : InWrite(t)' => InWrite(t) /\ call'[t] = call[t]
    BY <1>2 DEF Others, InWrite, Idle
  <2> QED
    BY <1>1, <2>1, AloneKept
<1> QED
  BY <1>1, <1>2, <1>3, <1>4, <1>5, PortGuardKept

LEMMA ReturnKeepsMsg ==
  ASSUME MsgInv, NEW s \in Senders, RefuseWrite(s) \/ WriteFails(s)
  PROVE  MsgInv'
<1>1. /\ call' = [call EXCEPT ![s] = Idle]
      /\ UNCHANGED <<portVars, calls, afSeqNum, numbers, wire, accepted, overlapped>>
  BY DEF RefuseWrite, WriteFails, Return
<1>2. PortGuard' /\ call' \in [Senders -> Calls] /\ CallInv' /\ LineInv' /\ AloneInv'
  BY <1>1, IdleIsCall, GoOnKeeps
<1>3. SendersTyped'
  BY <1>1, <1>2 DEF MsgInv, SendersTyped
<1> QED
  BY <1>2, <1>3 DEF MsgInv

LEMMA StoreKeeps ==
  ASSUME MsgInv, NEW s \in Senders, StoreSeq(s)
  PROVE  MsgInv'
<1>1. /\ call[s].at = "store" /\ call' = [call EXCEPT ![s].at = "check"]
      /\ afSeqNum' = (call[s].seq + 1) % SeqMod
      /\ UNCHANGED <<portVars, calls, numbers, wire, accepted, overlapped>>
  BY DEF StoreSeq
<1>2. SendersTyped /\ CallInv
  BY DEF MsgInv
<1> DEFINE c == [call[s] EXCEPT !.at = "check"]
<1>3. call' = [call EXCEPT ![s] = c]
  BY <1>1, <1>2 DEF SendersTyped
<1>4. c \in Calls /\ c.at = "check" /\ c.id = call[s].id /\ c.done = call[s].done
  BY <1>2, SlotOf DEF Calls
<1>5. call[s].done = 0 /\ Active(s) /\ ~InWrite(s)
  BY <1>1, <1>2 DEF CallInv, InWrite, Active
<1> HIDE DEF c
<1>6. PortGuard' /\ call' \in [Senders -> Calls] /\ CallInv' /\ LineInv' /\ AloneInv'
  BY <1>1, <1>3, <1>4, <1>5, GoOnKeeps
<1>7. afSeqNum' \in 0 .. SeqMod - 1
  BY <1>1, <1>2, SlotOf, MessagingConstants
<1>8. SendersTyped'
  BY <1>1, <1>2, <1>6, <1>7 DEF SendersTyped
<1> QED
  BY <1>6, <1>8 DEF MsgInv

Taken == [id : 1 .. MaxCalls, seq : 0 .. SeqMod - 1, raced : BOOLEAN]

\* What a load does to the numbers taken before it.
LEMMA LoadNumbers ==
  ASSUME SendersTyped, CallInv, NEW s \in Senders, LoadSeq(s)
  PROVE  /\ numbers' \in Seq(Taken) /\ Len(numbers) \in Nat
         /\ DOMAIN numbers = 1 .. Len(numbers)
         /\ Len(numbers') = Len(numbers) + 1 /\ DOMAIN numbers' = 1 .. Len(numbers) + 1
         /\ \A i \in 1 .. Len(numbers) :
              /\ numbers'[i].id = numbers[i].id /\ numbers'[i].seq = numbers[i].seq
              /\ numbers'[i].raced = (numbers[i].raced \/ numbers[i].id \in Racing)
         /\ numbers'[Len(numbers) + 1] =
              [id |-> call[s].id, seq |-> afSeqNum, raced |-> Racing # {}]
<1> DEFINE Mark(x) == [x EXCEPT !.raced = @ \/ x.id \in Racing]
           old == [i \in DOMAIN numbers |-> Mark(numbers[i])]
           new == [id |-> call[s].id, seq |-> afSeqNum, raced |-> Racing # {}]
<1>1. numbers' = Append(old, new) /\ call[s].at = "load"
  BY DEF LoadSeq
<1>2. numbers \in Seq(Taken) /\ Len(numbers) \in Nat /\ DOMAIN numbers = 1 .. Len(numbers)
  BY LenProperties DEF SendersTyped, Taken
<1>3. ASSUME NEW x \in Taken
      PROVE  /\ Mark(x) \in Taken /\ Mark(x).id = x.id /\ Mark(x).seq = x.seq
             /\ Mark(x).raced = (x.raced \/ x.id \in Racing)
  <2>1. (x.raced \/ x.id \in Racing) \in BOOLEAN
    OBVIOUS
  <2>2. /\ x.id \in 1 .. MaxCalls /\ x.seq \in 0 .. SeqMod - 1
        /\ x = [id |-> x.id, seq |-> x.seq, raced |-> x.raced]
    BY DEF Taken
  <2> DEFINE r == (x.raced \/ x.id \in Racing)
  <2>3. Mark(x) = [id |-> x.id, seq |-> x.seq, raced |-> r]
    BY <2>2
  <2>4. r \in BOOLEAN
    BY <2>1
  <2> HIDE DEF r, Mark
  <2>5. Mark(x) \in Taken
    BY <2>2, <2>3, <2>4 DEF Taken
  <2>6. Mark(x).id = x.id /\ Mark(x).seq = x.seq /\ Mark(x).raced = r
    BY <2>3
  <2> QED
    BY <2>5, <2>6 DEF r
<1>4. new \in Taken
  <2>1. call[s].id \in 1 .. MaxCalls /\ afSeqNum \in 0 .. SeqMod - 1
    <3>1. call[s].id \in 1 .. calls /\ calls \in Nat /\ calls <= MaxCalls /\ MaxCalls \in Nat
      BY <1>1, MessagingConstants DEF CallInv, SendersTyped, Active
    <3> QED
      BY <3>1 DEF SendersTyped
  <2>2. (Racing # {}) \in BOOLEAN
    OBVIOUS
  <2> QED
    BY <2>1, <2>2 DEF Taken
<1> HIDE DEF Mark, new
<1>5. old \in Seq(Taken) /\ Len(old) = Len(numbers)
      /\ \A i \in 1 .. Len(numbers) : old[i] = Mark(numbers[i]) /\ numbers[i] \in Taken
  <2>1. \A i \in 1 .. Len(numbers) : numbers[i] \in Taken
    BY <1>2
  <2>2. \A i \in 1 .. Len(numbers) : Mark(numbers[i]) \in Taken
    BY <1>3, <2>1
  <2>3. old \in [1 .. Len(numbers) -> Taken]
    BY <1>2, <2>2
  <2>4. old \in Seq(Taken) /\ Len(old) = Len(numbers)
    BY <1>2, <2>3
  <2> QED
    BY <1>2, <2>1, <2>4
<1> HIDE DEF old
<1>6. /\ numbers' \in Seq(Taken) /\ Len(numbers') = Len(numbers) + 1
      /\ numbers'[Len(numbers) + 1] = new
      /\ \A i \in 1 .. Len(numbers) : numbers'[i] = old[i]
  BY <1>1, <1>2, <1>4, <1>5, AppendProperties
<1>7. DOMAIN numbers' = 1 .. Len(numbers) + 1
  BY <1>6, LenProperties
<1>8. ASSUME NEW i \in 1 .. Len(numbers)
      PROVE  /\ numbers'[i].id = numbers[i].id /\ numbers'[i].seq = numbers[i].seq
             /\ numbers'[i].raced = (numbers[i].raced \/ numbers[i].id \in Racing)
  <2> DEFINE x == numbers[i]
  <2>1. x \in Taken /\ numbers'[i] = Mark(x)
    BY <1>5, <1>6
  <2> HIDE DEF x
  <2>2. /\ Mark(x).id = x.id /\ Mark(x).seq = x.seq
        /\ Mark(x).raced = (x.raced \/ x.id \in Racing)
    BY <1>3, <2>1
  <2>3. /\ numbers'[i].id = x.id /\ numbers'[i].seq = x.seq
        /\ numbers'[i].raced = (x.raced \/ x.id \in Racing)
    BY <2>1, <2>2, Zenon
  <2> QED
    BY <2>3 DEF x
<1> QED
  BY <1>2, <1>6, <1>7, <1>8 DEF new

LEMMA LoadKeeps ==
  ASSUME MsgInv, NEW s \in Senders, LoadSeq(s)
  PROVE  MsgInv'
<1>1. /\ call[s].at = "load" /\ call' = [call EXCEPT ![s].at = "store", ![s].seq = afSeqNum]
      /\ UNCHANGED <<portVars, calls, afSeqNum, wire, accepted, overlapped>>
  BY DEF LoadSeq
<1>2. SendersTyped /\ CallInv /\ afSeqNum \in 0 .. SeqMod - 1
  BY DEF MsgInv, SendersTyped
<1> DEFINE c == [call[s] EXCEPT !.at = "store", !.seq = afSeqNum]
<1>3. call' = [call EXCEPT ![s] = c]
  BY <1>1, <1>2 DEF SendersTyped
<1>4. c \in Calls /\ c.at = "store" /\ c.id = call[s].id /\ c.done = call[s].done
  BY <1>2, SlotOf DEF Calls
<1>5. call[s].done = 0 /\ Active(s) /\ ~InWrite(s)
  BY <1>1, <1>2 DEF CallInv, InWrite, Active
<1> HIDE DEF c
<1>6. PortGuard' /\ call' \in [Senders -> Calls] /\ CallInv' /\ LineInv' /\ AloneInv'
  BY <1>1, <1>3, <1>4, <1>5, GoOnKeeps
<1>7. numbers' \in Seq(Taken)
  BY <1>2, LoadNumbers
<1>8. SendersTyped'
  BY <1>1, <1>2, <1>6, <1>7 DEF SendersTyped, Taken
<1> QED
  BY <1>6, <1>8 DEF MsgInv

\* A request enters write(): those that are there, and it, are no longer alone.
LEMMA EnterKeeps ==
  ASSUME MsgInv, NEW s \in Senders, EnterWrite(s)
  PROVE  MsgInv'
<1>1. /\ call[s].at = "check" /\ call' = [call EXCEPT ![s].at = "write", ![s].port = made]
      /\ overlapped' = IF Writing = {} THEN overlapped
                       ELSE overlapped \cup Writing \cup {call[s].id}
      /\ UNCHANGED <<portVars, calls, afSeqNum, numbers, wire, accepted>>
  BY DEF EnterWrite
<1>2. SendersTyped /\ CallInv /\ LineInv /\ AloneInv /\ PortGuard
  BY DEF MsgInv
<1>3. made \in 0 .. MaxPorts
  BY <1>2 DEF PortGuard, PortTypeInv, PortTypeOK
<1> DEFINE c == [call[s] EXCEPT !.at = "write", !.port = made]
<1>4. call' = [call EXCEPT ![s] = c]
  BY <1>1, <1>2 DEF SendersTyped
<1>5. c \in Calls /\ c.at = "write" /\ c.id = call[s].id /\ c.done = call[s].done
  BY <1>2, <1>3, SlotOf DEF Calls
<1>6. call[s].done = 0 /\ Active(s) /\ ~InWrite(s) /\ 0 < Parts
  BY <1>1, <1>2, MessagingConstants DEF CallInv, InWrite, Active
<1> HIDE DEF c
<1>7. call'[s] = c /\ Others(s) /\ call' \in [Senders -> Calls]
  BY <1>2, <1>4, <1>5, Moves
<1>8. SendersTyped'
  <2>1. \A t \in Senders : InWrite(t) => call[t].id \in 1 .. MaxCalls
    <3>1. \A t \in Senders : InWrite(t) => call[t].id \in 1 .. calls
      BY <1>2 DEF CallInv, InWrite, Active
    <3>2. calls \in Nat /\ calls <= MaxCalls /\ MaxCalls \in Nat
      BY <1>2, MessagingConstants DEF SendersTyped
    <3> QED
      BY <3>1, <3>2
  <2>2. call[s].id \in 1 .. MaxCalls
    <3>1. call[s].id \in 1 .. calls
      BY <1>2, <1>6 DEF CallInv
    <3>2. calls \in Nat /\ calls <= MaxCalls /\ MaxCalls \in Nat
      BY <1>2, MessagingConstants DEF SendersTyped
    <3> QED
      BY <3>1, <3>2
  <2>3. overlapped' \subseteq 1 .. MaxCalls
    BY <1>1, <1>2, <2>1, <2>2 DEF SendersTyped, Writing, InWrite
  <2> QED
    BY <1>1, <1>2, <1>7, <2>3 DEF SendersTyped
<1>9. CallInv'
  BY <1>1, <1>2, <1>5, <1>6, <1>7, CallKept DEF Active, InWrite
<1>10. LineInv'
  <2>1. \A t \in Senders : Active(t)' =>
          Active(t) /\ call'[t].id = call[t].id /\ call'[t].done = call[t].done
    BY <1>5, <1>6, <1>7 DEF Others, Active
  <2> QED
    BY <1>1, <1>2, <2>1, LineKept
<1>11. AloneInv'
  <2>1. overlapped \subseteq overlapped'
    BY <1>1
  <2>2. \A t \in Senders : t # s /\ InWrite(t) =>
          call[t].id \in overlapped' /\ call[s].id \in overlapped'
    BY <1>1 DEF Writing, InWrite
  <2>3. \A t, u \in Senders : InWrite(t)' /\ InWrite(u)' /\ t # u => call'[t].id \in overlapped'
    BY <1>2, <1>5, <1>7, <2>1, <2>2 DEF AloneInv, Others, InWrite
  <2>4. AtEnd(call[s].id, 0)
    <3>1. Len(wire) \in Nat
      BY <1>2, LenProperties DEF SendersTyped
    <3> QED
      BY <3>1 DEF AtEnd
  <2>5. ASSUME NEW t \in Senders, InWrite(t)', call'[t].id \notin overlapped'
        PROVE  AtEnd(call[t].id, call[t].done)'
    <3>1. CASE t = s
      BY <1>1, <1>5, <1>6, <1>7, <2>4, <3>1 DEF AtEnd
    <3>2. CASE t # s
      BY <1>1, <1>2, <1>7, <2>1, <2>5, <3>2 DEF AloneInv, AtEnd, Others, InWrite
    <3> QED
      BY <3>1, <3>2
  <2>6. \A id \in accepted' \ overlapped' : IsUnbroken(id)'
    BY <1>1, <1>2, <2>1 DEF AloneInv, IsUnbroken
  <2> QED
    BY <2>3, <2>5, <2>6 DEF AloneInv
<1>12. PortGuard'
  BY <1>1, <1>2, PortGuardKept
<1> QED
  BY <1>8, <1>9, <1>10, <1>11, <1>12 DEF MsgInv

\* One part more on the line.
LEMMA OnePartMore ==
  ASSUME SendersTyped, NEW p \in [id : 1 .. MaxCalls, part : 1 .. Parts],
         wire' = Append(wire, p)
  PROVE  /\ wire' \in Seq([id : 1 .. MaxCalls, part : 1 .. Parts])
         /\ Len(wire) \in Nat /\ Len(wire') = Len(wire) + 1
         /\ DOMAIN wire = 1 .. Len(wire) /\ DOMAIN wire' = 1 .. Len(wire) + 1
         /\ \A i \in 1 .. Len(wire) : wire'[i] = wire[i]
         /\ wire'[Len(wire) + 1] = p
<1> DEFINE T == [id : 1 .. MaxCalls, part : 1 .. Parts]
<1>1. wire \in Seq(T) /\ p \in T
  BY DEF SendersTyped
<1> HIDE DEF T
<1>2. /\ wire' \in Seq(T) /\ Len(wire) \in Nat /\ Len(wire') = Len(wire) + 1
      /\ DOMAIN wire = 1 .. Len(wire) /\ DOMAIN wire' = 1 .. Len(wire')
      /\ \A i \in 1 .. Len(wire) : wire'[i] = wire[i]
      /\ wire'[Len(wire) + 1] = p
  BY <1>1, AppendProperties, LenProperties
<1> QED
  BY <1>2 DEF T

LEMMA PartKeeps ==
  ASSUME MsgInv, NEW s \in Senders, WritePart(s),
         NEW n, n = Len(wire), NEW x, x = call[s].id, NEW d, d = call[s].done
  PROVE  MsgInv'
<1>1. /\ InWrite(s) /\ wire' = Append(wire, Part(x, d + 1))
      /\ \/ /\ d + 1 = Parts /\ call' = [call EXCEPT ![s] = Idle]
            /\ accepted' = accepted \cup {x}
         \/ /\ d + 1 # Parts /\ call' = [call EXCEPT ![s].done = @ + 1]
            /\ accepted' = accepted
      /\ UNCHANGED <<portVars, calls, afSeqNum, numbers, overlapped>>
  BY DEF WritePart, InWrite, Part, Return
<1>2. SendersTyped /\ CallInv /\ LineInv /\ AloneInv /\ PortGuard
  BY DEF MsgInv
<1>3. /\ Active(s) /\ x \in 1 .. calls /\ x \notin accepted /\ x \in 1 .. MaxCalls
      /\ d \in Nat /\ d < Parts /\ Parts \in Nat /\ d + 1 \in 1 .. Parts
  <2>1. Active(s) /\ x \in 1 .. calls /\ x \notin accepted /\ d < Parts
    BY <1>1, <1>2 DEF CallInv, Active, InWrite
  <2>2. calls \in 0 .. MaxCalls /\ MaxCalls \in Nat /\ d \in Nat /\ Parts \in Nat
    BY <1>2, SlotOf DEF SendersTyped
  <2> QED
    BY <2>1, <2>2
<1>4. /\ Others(s) /\ call' \in [Senders -> Calls]
      /\ \/ call'[s] = Idle /\ d + 1 = Parts
         \/ /\ call'[s].at = "write" /\ call'[s].id = x /\ call'[s].done = d + 1
            /\ d + 1 < Parts
  <2>1. CASE call' = [call EXCEPT ![s] = Idle] /\ d + 1 = Parts
    BY <1>2, <2>1, IdleIsCall, Moves
  <2>2. CASE call' = [call EXCEPT ![s].done = @ + 1] /\ d + 1 # Parts
    <3> DEFINE c == [call[s] EXCEPT !.done = d + 1]
    <3>1. call' = [call EXCEPT ![s] = c]
      BY <1>2, <2>2 DEF SendersTyped
    <3>2. call[s] \in Calls /\ call[s].at = "write" /\ d + 1 \in 0 .. Parts
      BY <1>1, <1>2, <1>3, SlotOf DEF InWrite
    <3>3. c \in Calls /\ c.at = "write" /\ c.id = x /\ c.done = d + 1
      BY <3>2 DEF Calls
    <3> HIDE DEF c
    <3>4. call'[s] = c /\ Others(s) /\ call' \in [Senders -> Calls]
      BY <1>2, <3>1, <3>3, Moves
    <3>5. d + 1 < Parts
      BY <1>3, <2>2
    <3> QED
      BY <3>3, <3>4, <3>5
  <2> QED
    BY <1>1, <2>1, <2>2
<1>5. Part(x, d + 1).id = x /\ Part(x, d + 1).part = d + 1
      /\ Part(x, d + 1) \in [id : 1 .. MaxCalls, part : 1 .. Parts]
  BY <1>3 DEF Part
<1>6. /\ wire' \in Seq([id : 1 .. MaxCalls, part : 1 .. Parts])
      /\ n \in Nat /\ Len(wire') = n + 1
      /\ DOMAIN wire = 1 .. n /\ DOMAIN wire' = 1 .. n + 1
      /\ \A i \in 1 .. n : wire'[i] = wire[i]
      /\ wire'[n + 1] = Part(x, d + 1)
  BY <1>1, <1>2, <1>5, OnePartMore
<1>7. \A i \in 1 .. n + 1 : i \in 1 .. n \/ i = n + 1
  BY <1>6
<1>8. SendersTyped'
  <2>1. accepted' \subseteq 1 .. MaxCalls
    BY <1>1, <1>2, <1>3 DEF SendersTyped
  <2> QED
    BY <1>1, <1>2, <1>4, <1>6, <2>1 DEF SendersTyped
<1>9. CallInv'
  <2>1. \A t \in Senders : Active(t)' => Active(t) /\ call'[t].id = call[t].id
    BY <1>3, <1>4 DEF Others, Active, Idle
  <2>2. ASSUME NEW t \in Senders
        PROVE  /\ InWrite(t)' => call'[t].done < Parts
               /\ ~InWrite(t)' => call'[t].done = 0
    BY <1>2, <1>4 DEF CallInv, Others, InWrite, Idle
  <2>3. ASSUME NEW t \in Senders, Active(t)' PROVE call'[t].id \notin accepted'
    <3>1. CASE t = s
      BY <1>1, <1>3, <1>4, <2>3, <3>1 DEF Active, Idle
    <3>2. CASE t # s
      BY <1>1, <1>2, <1>3, <2>1, <2>3, <3>2 DEF CallInv
    <3> QED
      BY <3>1, <3>2
  <2>4. accepted' \subseteq 1 .. calls
    BY <1>1, <1>2, <1>3 DEF CallInv
  <2> QED
    BY <1>1, <1>2, <2>1, <2>2, <2>3, <2>4 DEF CallInv
<1>10. \A t \in Senders : Active(t)' /\ t # s =>
         Active(t) /\ call'[t] = call[t] /\ call[t].id # x
  BY <1>2, <1>3, <1>4 DEF CallInv, Others, Active
<1>11. /\ \A i \in 1 .. n : wire[i].id \in 1 .. calls
       /\ \A i \in 1 .. n : wire[i].id = x => wire[i].part <= d
       /\ \A k \in 1 .. d : \E i \in 1 .. n : wire[i] = Part(x, k)
  BY <1>2, <1>3, <1>6 DEF LineInv
<1>12. \A i \in 1 .. n : wire[i].part \in Nat
  <2> DEFINE T == [id : 1 .. MaxCalls, part : 1 .. Parts]
  <2>1. \A i \in 1 .. n : wire[i] \in T
    <3>1. wire \in Seq(T)
      BY <1>2 DEF SendersTyped
    <3> HIDE DEF T
    <3> QED
      BY <3>1
  <2> QED
    BY <1>3, <2>1
<1>13. \A k \in 1 .. d + 1 : \E i \in 1 .. n + 1 : wire'[i] = Part(x, k)
  <2> SUFFICES ASSUME NEW k \in 1 .. d + 1
               PROVE  \E i \in 1 .. n + 1 : wire'[i] = Part(x, k)
    OBVIOUS
  <2>1. CASE k \in 1 .. d
    <3>1. PICK i \in 1 .. n : wire[i] = Part(x, k)
      BY <1>11, <2>1
    <3>2. i \in 1 .. n + 1 /\ wire'[i] = Part(x, k)
      BY <1>6, <3>1
    <3> QED
      BY <3>2
  <2>2. CASE k = d + 1
    BY <1>6, <2>2
  <2> QED
    BY <1>3, <2>1, <2>2
<1>14. LineInv'
  <2>1. \A i \in DOMAIN wire' : wire'[i].id \in 1 .. calls'
    BY <1>1, <1>3, <1>5, <1>6, <1>7, <1>11
  <2>2. ASSUME NEW t \in Senders, Active(t)'
        PROVE  /\ \A i \in DOMAIN wire' :
                    wire'[i].id = call'[t].id => wire'[i].part <= call'[t].done
               /\ \A k \in 1 .. call'[t].done :
                    \E i \in DOMAIN wire' : wire'[i] = Part(call'[t].id, k)
    <3>1. CASE t = s
      <4>1. call'[t].id = x /\ call'[t].done = d + 1
        BY <1>4, <2>2, <3>1 DEF Active, Idle
      <4>2. \A i \in 1 .. n + 1 : wire'[i].id = x => wire'[i].part <= d + 1
        <5>1. \A i \in 1 .. n : wire[i].id = x => wire[i].part <= d + 1
          BY <1>3, <1>11, <1>12
        <5>2. wire'[n + 1].part <= d + 1
          BY <1>3, <1>5, <1>6
        <5> QED
          BY <1>6, <1>7, <5>1, <5>2
      <4> QED
        BY <1>6, <1>13, <4>1, <4>2
    <3>2. CASE t # s
      <4>1. Active(t) /\ call'[t] = call[t] /\ call[t].id # x
        BY <1>10, <2>2, <3>2
      <4>2. \A i \in 1 .. n : wire[i].id = call[t].id => wire[i].part <= call[t].done
        BY <1>2, <1>6, <4>1 DEF LineInv
      <4>3. \A k \in 1 .. call[t].done : \E i \in 1 .. n : wire[i] = Part(call[t].id, k)
        BY <1>2, <1>6, <4>1 DEF LineInv
      <4>4. \A i \in 1 .. n + 1 : wire'[i].id = call[t].id => wire'[i].part <= call[t].done
        BY <1>5, <1>6, <1>7, <4>1, <4>2
      <4>5. \A i \in 1 .. n : i \in 1 .. n + 1
        BY <1>6
      <4>6. \A k \in 1 .. call[t].done : \E i \in 1 .. n + 1 : wire'[i] = Part(call[t].id, k)
        BY <1>6, <4>3, <4>5
      <4> QED
        BY <1>6, <4>1, <4>4, <4>6
    <3> QED
      BY <3>1, <3>2
  <2>3. ASSUME NEW id \in 1 .. calls PROVE InOrder(id)'
    <3>1. \A i, j \in 1 .. n :
            i < j /\ wire[i].id = id /\ wire[j].id = id => wire[i].part < wire[j].part
      BY <1>2, <1>6 DEF LineInv, InOrder
    <3>2. ASSUME NEW i \in 1 .. n + 1, NEW j \in 1 .. n + 1,
                 i < j, wire'[i].id = id, wire'[j].id = id
          PROVE  wire'[i].part < wire'[j].part
      <4>1. i \in 1 .. n
        BY <1>6, <3>2
      <4>2. CASE j \in 1 .. n
        BY <1>6, <3>1, <3>2, <4>1, <4>2
      <4>3. CASE j = n + 1
        <5>1. id = x /\ wire'[j].part = d + 1
          BY <1>5, <1>6, <3>2, <4>3
        <5>2. wire'[i] = wire[i] /\ wire[i].part <= d /\ wire[i].part \in Nat
          BY <1>6, <1>11, <1>12, <3>2, <4>1, <5>1
        <5> QED
          BY <1>3, <5>1, <5>2
      <4> QED
        BY <1>7, <4>2, <4>3
    <3> QED
      BY <1>6, <3>2 DEF InOrder
  <2>4. ASSUME NEW id \in accepted' PROVE IsWhole(id)'
    <3>1. id \in 1 .. calls
      BY <1>1, <1>2, <1>3 DEF CallInv
    <3>2. ASSUME NEW k \in 1 .. Parts PROVE \E i \in DOMAIN wire' : wire'[i] = Part(id, k)
      <4>1. CASE id \in accepted
        <5>1. PICK i \in 1 .. n : wire[i] = Part(id, k)
          BY <1>2, <1>6, <4>1 DEF LineInv, IsWhole
        <5>2. i \in 1 .. n + 1 /\ wire'[i] = Part(id, k)
          BY <1>6, <5>1
        <5> QED
          BY <1>6, <5>2
      <4>2. CASE id = x /\ d + 1 = Parts
        BY <1>6, <1>13, <4>2
      <4> QED
        BY <1>1, <4>1, <4>2
    <3> QED
      BY <2>3, <3>1, <3>2 DEF IsWhole
  <2> QED
    BY <1>1, <2>1, <2>2, <2>3, <2>4 DEF LineInv
<1>15. x \notin overlapped => AtEnd(x, d + 1)'
  <2> SUFFICES ASSUME x \notin overlapped PROVE AtEnd(x, d + 1)'
    OBVIOUS
  <2>1. d <= n /\ \A k \in 1 .. d : wire[n - d + k] = Part(x, k)
    BY <1>1, <1>2 DEF AloneInv, AtEnd
  <2>2. ASSUME NEW k \in 1 .. d + 1 PROVE wire'[(n + 1) - (d + 1) + k] = Part(x, k)
    <3>1. (n + 1) - (d + 1) + k = n - d + k
      <4>1. n \in Nat /\ d \in Nat /\ k \in Nat
        BY <1>3, <1>6
      <4>2. \A a, b, c \in Nat : (a + 1) - (b + 1) + c = a - b + c
        OBVIOUS
      <4> QED
        BY <4>1, <4>2
    <3>2. CASE k \in 1 .. d
      <4>1. n - d + k \in 1 .. n
        <5>1. d \in Nat /\ n \in Nat /\ d <= n /\ k \in Nat /\ 1 <= k /\ k <= d
          BY <1>3, <1>6, <2>1, <3>2
        <5> QED
          BY <5>1
      <4> QED
        BY <1>6, <2>1, <3>1, <3>2, <4>1
    <3>3. CASE k = d + 1
      <4>1. n - d + k = n + 1
        BY <1>3, <1>6, <3>3
      <4> QED
        BY <1>6, <3>1, <3>3, <4>1
    <3> QED
      BY <1>3, <3>2, <3>3
  <2>3. d + 1 <= n + 1
    BY <1>3, <1>6, <2>1
  <2> QED
    BY <1>6, <2>2, <2>3 DEF AtEnd
<1>16. AloneInv'
  <2>1. \A t \in Senders : InWrite(t)' => InWrite(t) /\ call'[t].id = call[t].id
    BY <1>1, <1>4 DEF Others, InWrite, Idle
  <2>2. \A t, u \in Senders : InWrite(t)' /\ InWrite(u)' /\ t # u => call'[t].id \in overlapped'
    BY <1>1, <1>2, <2>1 DEF AloneInv
  <2>3. ASSUME NEW t \in Senders, InWrite(t)', call'[t].id \notin overlapped'
        PROVE  AtEnd(call[t].id, call[t].done)'
    <3>1. t = s
      BY <1>1, <1>2, <2>1, <2>3 DEF AloneInv
    <3>2. call'[t].id = x /\ call'[t].done = d + 1
      BY <1>4, <2>3, <3>1 DEF InWrite, Idle
    <3>3. AtEnd(x, d + 1)'
      BY <1>1, <1>15, <2>3, <3>2
    <3> QED
      BY <3>2, <3>3 DEF AtEnd
  <2>4. ASSUME NEW id \in accepted' \ overlapped' PROVE IsUnbroken(id)'
    <3>1. CASE id \in accepted
      <4>1. PICK i \in 0 .. n - Parts : \A k \in 1 .. Parts : wire[i + k] = Part(id, k)
        BY <1>1, <1>2, <2>4, <3>1 DEF AloneInv, IsUnbroken
      <4>2. i \in 0 .. (n + 1) - Parts
        BY <1>3, <1>6
      <4>3. \A k \in 1 .. Parts : i + k \in 1 .. n
        BY <1>3, <1>6
      <4>4. \A k \in 1 .. Parts : wire'[i + k] = Part(id, k)
        BY <1>6, <4>1, <4>3
      <4> QED
        BY <1>6, <4>2, <4>4 DEF IsUnbroken
    <3>2. CASE id = x /\ d + 1 = Parts
      <4>1. AtEnd(x, Parts)'
        BY <1>1, <1>15, <2>4, <3>2
      <4>2. Parts <= n + 1 /\ \A k \in 1 .. Parts : wire'[(n + 1) - Parts + k] = Part(x, k)
        BY <1>6, <4>1 DEF AtEnd
      <4>3. (n + 1) - Parts \in 0 .. (n + 1) - Parts
        BY <1>3, <1>6, <4>2
      <4> QED
        BY <1>6, <3>2, <4>2, <4>3 DEF IsUnbroken
    <3> QED
      BY <1>1, <3>1, <3>2
  <2> QED
    BY <2>2, <2>3, <2>4 DEF AloneInv
<1>17. PortGuard'
  BY <1>1, <1>2, PortGuardKept
<1> QED
  BY <1>8, <1>9, <1>14, <1>16, <1>17 DEF MsgInv

LEMMA ResetKeeps ==
  ASSUME MsgInv, NEW s \in Senders, WriteAfterReset(s)
  PROVE  MsgInv'
<1>1. /\ misused' = TRUE
      /\ UNCHANGED <<ownVars, objVars, loopVars, ioVars, byteVars, errVars, late, sendVars>>
  BY DEF WriteAfterReset
<1>2. PortGuard'
  <2>1. OwnerTyped' /\ LoopTyped' /\ LineTyped'
    BY <1>1, TypesKept DEF MsgInv, PortGuard, objVars
  <2>2. ErrorsTyped'
    BY <1>1, PortTypeParts DEF MsgInv, PortGuard, ErrorsTyped, errVars
  <2> QED
    BY <1>1, <2>1, <2>2, PortTypeParts DEF PortGuard
<1>3. SendersTyped' /\ CallInv' /\ LineInv'
  BY <1>1 DEF MsgInv, SendersTyped, CallInv, LineInv, sendVars, Active, InWrite, InOrder,
              IsWhole
<1>4. AloneInv'
  BY <1>1, AloneKept DEF MsgInv, sendVars, InWrite
<1> QED
  BY <1>2, <1>3, <1>4 DEF MsgInv

-----------------------------------------------------------------------------
(***************************************************************************)
(* Theorems                                                                *)
(***************************************************************************)
LEMMA MsgInvInit ==
  ASSUME MsgInit
  PROVE  MsgInv
<1>1. PortGuard
  BY PortInvInit, BytesInvInit, PortTypeInvInit DEF MsgInit, PortGuard
<1>2. /\ call = [s \in Senders |-> Idle] /\ calls = 0 /\ afSeqNum = 0 /\ numbers = <<>>
      /\ wire = <<>> /\ accepted = {} /\ overlapped = {}
  BY DEF MsgInit
<1>3. SendersTyped
  <2>1. call \in [Senders -> Calls]
    BY <1>2, IdleIsCall
  <2>2. calls \in 0 .. MaxCalls /\ afSeqNum \in 0 .. SeqMod - 1
    BY <1>2, MessagingConstants
  <2> QED
    BY <1>2, <2>1, <2>2 DEF SendersTyped
<1>4. CallInv
  BY <1>2 DEF CallInv, Active, InWrite, Idle
<1>5. LineInv
  BY <1>2 DEF LineInv, Active, Idle
<1>6. AloneInv
  BY <1>2 DEF AloneInv, InWrite, Idle
<1> QED
  BY <1>1, <1>3, <1>4, <1>5, <1>6 DEF MsgInv

LEMMA MsgInvStep ==
  ASSUME MsgInv, [MsgNext]_msgVars
  PROVE  MsgInv'
<1>1. CASE UNCHANGED msgVars
  <2>1. UNCHANGED <<portVars, sendVars>>
    BY <1>1 DEF msgVars
  <2>2. PortGuard'
    BY <2>1, PortGuardKept DEF MsgInv
  <2>3. SendersTyped' /\ CallInv' /\ LineInv'
    BY <2>1 DEF MsgInv, SendersTyped, CallInv, LineInv, sendVars, Active, InWrite, InOrder,
                IsWhole
  <2>4. AloneInv'
    BY <2>1, AloneKept DEF MsgInv, sendVars, InWrite
  <2> QED
    BY <2>2, <2>3, <2>4 DEF MsgInv
<1>2. CASE PortNext /\ UNCHANGED sendVars
  BY <1>2, PortStepKeeps
<1>3. ASSUME NEW s \in Senders, SenderStep(s) PROVE MsgInv'
  <2>1. CASE SendMessage(s) \/ SetPermitJoin(s)
    BY <2>1, RequestKeeps DEF SendMessage, SetPermitJoin
  <2>2. CASE LoadSeq(s) \/ StoreSeq(s)
    BY <2>2, LoadKeeps, StoreKeeps
  <2>3. CASE EnterWrite(s) \/ RefuseWrite(s) \/ WriteFails(s)
    BY <2>3, EnterKeeps, ReturnKeepsMsg
  <2>4. CASE WritePart(s)
    BY <2>4, PartKeeps
  <2>5. CASE WriteAfterReset(s)
    BY <2>5, ResetKeeps
  <2> QED
    BY <1>3, <2>1, <2>2, <2>3, <2>4, <2>5 DEF SenderStep
<1> QED
  BY <1>1, <1>2, <1>3 DEF MsgNext

\* Whatever the senders and the port do, what a request under way has on the line are its
\* first parts, and a request alone in write() has them at the end of the line
\* (cpp:226-257, SerialPort.cpp:93-99).
THEOREM MsgInvariant == MsgSpec => []MsgInv
BY MsgInvInit, MsgInvStep, PTL DEF MsgSpec

\* The variables keep their types, whatever the senders do to one another and to the port.
THEOREM MsgTypeCorrect == MsgSpec => []MsgTypeOK
<1>1. MsgInv => MsgTypeOK
  BY DEF MsgInv, PortGuard, PortTypeInv, SendersTyped, MsgTypeOK
<1> QED
  BY <1>1, MsgInvariant, PTL

\* What write() reported as sent is on the line completely and in order, and in one piece
\* if no other request was in write() with it (SerialPort.cpp:93-99).
THEOREM RequestsAreWhole == MsgSpec => []RequestsWhole
<1>1. MsgInv => RequestsWhole
  BY DEF MsgInv, LineInv, AloneInv, RequestsWhole
<1> QED
  BY <1>1, MsgInvariant, PTL

-----------------------------------------------------------------------------
(***************************************************************************)
(* The sequence numbers                                                    *)
(***************************************************************************)
LEMMA CounterStep ==
  ASSUME NEW q \in 0 .. SeqMod - 1
  PROVE  (q + 1) % SeqMod = After(q, 1)
<1>1. SeqMod \in Nat /\ SeqMod > 0
  BY MessagingConstants
<1>2. CASE q + 1 < SeqMod
  BY <1>1, <1>2 DEF After
<1>3. CASE q + 1 = SeqMod
  BY <1>1, <1>3 DEF After
<1> QED
  BY <1>1, <1>2, <1>3

LEMMA AfterAfter ==
  ASSUME NEW q \in 0 .. SeqMod - 1, NEW d \in 0 .. SeqMod - 1
  PROVE  /\ d + 1 < SeqMod => After(After(q, d), 1) = After(q, d + 1)
         /\ After(q, 0) = q
         /\ d > 0 => After(q, d) # q
BY MessagingConstants DEF After

\* A step that takes no number and stores none.
LEMMA NumbersKept ==
  ASSUME NumbersInv, UNCHANGED <<numbers, afSeqNum>>,
         \A s \in Senders :
           /\ (call[s].at = "store") <=> (call'[s].at = "store")
           /\ call[s].at = "store" => call'[s] = call[s]
  PROVE  NumbersInv'
<1>1. Storing' = Storing
  BY DEF Storing
<1>2. \A s \in Storing : call'[s] = call[s]
  BY DEF Storing
<1>3. RunsOn'
  BY DEF NumbersInv, RunsOn
<1>4. LastNumber'
  BY <1>1, <1>2 DEF NumbersInv, LastNumber
<1> QED
  BY <1>3, <1>4 DEF NumbersInv

LEMMA StoreKeepsNumbers ==
  ASSUME SendersTyped, NumbersInv, NEW s \in Senders, StoreSeq(s)
  PROVE  NumbersInv'
<1>1. /\ call[s].at = "store" /\ call' = [call EXCEPT ![s].at = "check"]
      /\ afSeqNum' = (call[s].seq + 1) % SeqMod /\ numbers' = numbers
  BY DEF StoreSeq
<1>2. /\ \A t \in Senders \ {s} : call'[t] = call[t]
      /\ call'[s].at = "check"
  BY <1>1 DEF SendersTyped, Calls
<1>3. s \in Storing /\ Storing' = Storing \ {s}
  BY <1>1, <1>2 DEF Storing
<1>4. afSeqNum' = After(call[s].seq, 1)
  BY <1>1, SlotOf, CounterStep
<1>5. LastNumber'
  BY <1>1, <1>3, <1>4 DEF NumbersInv, LastNumber
<1>6. RunsOn'
  BY <1>1 DEF NumbersInv, RunsOn
<1> QED
  BY <1>5, <1>6 DEF NumbersInv

LEMMA LoadKeepsNumbers ==
  ASSUME SendersTyped, CallInv, NumbersInv, NEW s \in Senders, LoadSeq(s),
         NEW n, n = Len(numbers)
  PROVE  NumbersInv'
<1>1. /\ call[s].at = "load" /\ call' = [call EXCEPT ![s].at = "store", ![s].seq = afSeqNum]
      /\ afSeqNum' = afSeqNum
  BY DEF LoadSeq
<1>2. /\ \A t \in Senders \ {s} : call'[t] = call[t]
      /\ call'[s].at = "store" /\ call'[s].id = call[s].id /\ call'[s].seq = afSeqNum
  BY <1>1 DEF SendersTyped, Calls
<1>3. s \notin Storing /\ Storing' = Storing \cup {s}
  BY <1>1, <1>2 DEF Storing
<1>4. Racing = {call[t].id : t \in Storing}
  BY DEF Racing, Storing
<1>5. /\ n \in Nat /\ DOMAIN numbers = 1 .. n /\ DOMAIN numbers' = 1 .. n + 1
      /\ Len(numbers') = n + 1
      /\ \A i \in 1 .. n :
           /\ numbers'[i].id = numbers[i].id /\ numbers'[i].seq = numbers[i].seq
           /\ numbers'[i].raced = (numbers[i].raced \/ numbers[i].id \in Racing)
      /\ numbers'[n + 1].id = call[s].id /\ numbers'[n + 1].seq = afSeqNum
      /\ numbers'[n + 1].raced = (Racing # {})
  <2> DEFINE r == (Racing # {})
             new == [id |-> call[s].id, seq |-> afSeqNum, raced |-> r]
  <2>1. /\ n \in Nat /\ DOMAIN numbers = 1 .. n /\ DOMAIN numbers' = 1 .. n + 1
        /\ Len(numbers') = n + 1
    BY LoadNumbers
  <2>2. numbers'[n + 1] = new
    BY LoadNumbers
  <2>3. \A i \in 1 .. n :
          /\ numbers'[i].id = numbers[i].id /\ numbers'[i].seq = numbers[i].seq
          /\ numbers'[i].raced = (numbers[i].raced \/ numbers[i].id \in Racing)
    BY LoadNumbers, Zenon
  <2> HIDE DEF r
  <2>4. new.id = call[s].id /\ new.seq = afSeqNum /\ new.raced = r
    OBVIOUS
  <2> QED
    BY <2>1, <2>2, <2>3, <2>4, Zenon DEF r
<1>6. \A i \in 1 .. n : numbers[i].seq \in 0 .. SeqMod - 1
  <2> DEFINE T == [id : 1 .. MaxCalls, seq : 0 .. SeqMod - 1, raced : BOOLEAN]
  <2>1. \A i \in 1 .. n : numbers[i] \in T
    <3>1. numbers \in Seq(T)
      BY DEF SendersTyped
    <3> HIDE DEF T
    <3> QED
      BY <3>1
  <2> QED
    BY <2>1
<1>7. afSeqNum \in 0 .. SeqMod - 1 /\ SeqMod \in Nat /\ SeqMod > 0
  BY MessagingConstants DEF SendersTyped
<1>8. \A i \in 1 .. n : ~numbers'[i].raced => ~numbers[i].raced /\ numbers[i].id \notin Racing
  BY <1>5
<1>9. ASSUME n > 0, ~numbers'[n].raced
      PROVE  afSeqNum = After(numbers[n].seq, 1)
  <2>1. n \in 1 .. n /\ numbers # <<>>
    BY <1>5, <1>9, EmptySeq
  <2>2. ~numbers[n].raced /\ numbers[n].id \notin Racing
    BY <1>8, <1>9, <2>1
  <2>3. ~ \E t \in Storing : call[t].id = numbers[n].id
    BY <1>4, <2>2
  <2> QED
    BY <2>1, <2>2, <2>3 DEF NumbersInv, LastNumber
<1>10. ASSUME NEW i \in 1 .. n + 1, NEW j \in 1 .. n + 1, i <= j, j - i < SeqMod,
              \A k \in i .. j - 1 : ~numbers'[k].raced
       PROVE  numbers'[j].seq = After(numbers'[i].seq, j - i)
  <2>1. CASE j \in 1 .. n
    <3>1. i \in 1 .. n /\ \A k \in i .. j - 1 : k \in 1 .. n
      BY <1>5, <1>10, <2>1
    <3>2. \A k \in i .. j - 1 : ~numbers[k].raced
      BY <1>8, <1>10, <3>1
    <3>3. numbers[j].seq = After(numbers[i].seq, j - i)
      BY <1>5, <1>10, <2>1, <3>1, <3>2 DEF NumbersInv, RunsOn
    <3> QED
      BY <1>5, <2>1, <3>1, <3>3
  <2>2. CASE j = n + 1 /\ i = n + 1
    <3>1. j - i = 0
      BY <1>5, <2>2
    <3> QED
      BY <1>5, <1>7, <2>2, <3>1, AfterAfter
  <2>3. CASE j = n + 1 /\ i \in 1 .. n
    <3>1. /\ n \in 1 .. n /\ n > 0 /\ i <= n /\ n - i \in 0 .. SeqMod - 1
          /\ (n - i) + 1 = j - i /\ (n - i) + 1 < SeqMod /\ n - i < SeqMod
          /\ \A k \in i .. n - 1 : k \in 1 .. n /\ k \in i .. j - 1
          /\ n \in i .. j - 1
      BY <1>5, <1>7, <1>10, <2>3
    <3>2. \A k \in i .. n - 1 : ~numbers[k].raced
      BY <1>8, <1>10, <3>1
    <3>3. numbers[n].seq = After(numbers[i].seq, n - i)
      BY <1>5, <2>3, <3>1, <3>2 DEF NumbersInv, RunsOn
    <3>4. afSeqNum = After(numbers[n].seq, 1)
      BY <1>9, <1>10, <3>1
    <3>5. After(After(numbers[i].seq, n - i), 1) = After(numbers[i].seq, (n - i) + 1)
      BY <1>6, <2>3, <3>1, AfterAfter
    <3> QED
      BY <1>5, <2>3, <3>1, <3>3, <3>4, <3>5
  <2> QED
    BY <1>5, <2>1, <2>2, <2>3
<1>11. RunsOn'
  BY <1>5, <1>10 DEF RunsOn
<1>12. LastNumber'
  <2>1. CASE Racing # {}
    BY <1>5, <2>1 DEF LastNumber
  <2>2. CASE Racing = {}
    <3>1. Storing' = {s}
      BY <1>3, <1>4, <2>2
    <3> QED
      BY <1>2, <1>5, <3>1 DEF LastNumber
  <2> QED
    BY <2>1, <2>2
<1> QED
  BY <1>11, <1>12 DEF NumbersInv

\* The other steps of a sender.
LEMMA NumbersStep ==
  ASSUME MsgInv, NumbersInv, [MsgNext]_msgVars
  PROVE  NumbersInv'
<1>1. SendersTyped /\ CallInv
  BY DEF MsgInv
<1>2. CASE UNCHANGED sendVars
  BY <1>2, NumbersKept DEF sendVars
<1>3. ASSUME NEW s \in Senders, LoadSeq(s) \/ StoreSeq(s) PROVE NumbersInv'
  BY <1>1, <1>3, LoadKeepsNumbers, StoreKeepsNumbers
<1>4. ASSUME NEW s \in Senders,
             \/ SendMessage(s) \/ SetPermitJoin(s) \/ EnterWrite(s)
             \/ RefuseWrite(s) \/ WritePart(s) \/ WriteFails(s)
      PROVE  NumbersInv'
  <2>1. UNCHANGED <<numbers, afSeqNum>> /\ call[s].at # "store"
    BY <1>4 DEF SendMessage, SetPermitJoin, Begin, EnterWrite, RefuseWrite, WritePart,
                WriteFails
  <2>2. PICK c : call' = [call EXCEPT ![s] = c] /\ c.at # "store"
    <3>1. CASE SendMessage(s) \/ SetPermitJoin(s)
      <4>1. PICK at \in {"load", "check"} : call' = [call EXCEPT ![s].at = at, ![s].id = calls']
        BY <3>1 DEF SendMessage, SetPermitJoin, Begin
      <4> DEFINE c == [call[s] EXCEPT !.at = at, !.id = calls']
      <4>2. call' = [call EXCEPT ![s] = c] /\ c.at # "store"
        BY <1>1, <4>1, SlotOf DEF SendersTyped, Calls
      <4> QED
        BY <4>2
    <3>2. CASE EnterWrite(s)
      <4> DEFINE c == [call[s] EXCEPT !.at = "write", !.port = made]
      <4>1. call' = [call EXCEPT ![s] = c] /\ c.at # "store"
        BY <1>1, <3>2, SlotOf DEF EnterWrite, SendersTyped, Calls
      <4> QED
        BY <4>1
    <3>3. CASE RefuseWrite(s) \/ WriteFails(s)
      BY <3>3 DEF RefuseWrite, WriteFails, Return, Idle
    <3>4. CASE WritePart(s)
      <4> DEFINE c == [call[s] EXCEPT !.done = @ + 1]
      <4>1. c.at # "store"
        BY <1>1, <2>1, SlotOf DEF Calls
      <4>2. call' = [call EXCEPT ![s] = Idle] \/ call' = [call EXCEPT ![s] = c]
        BY <1>1, <3>4 DEF WritePart, Return, SendersTyped
      <4> QED
        BY <4>1, <4>2 DEF Idle
    <3> QED
      BY <1>4, <3>1, <3>2, <3>3, <3>4
  <2>3. call'[s].at # "store" /\ \A t \in Senders \ {s} : call'[t] = call[t]
    BY <1>1, <2>2 DEF SendersTyped
  <2> QED
    BY <2>1, <2>3, NumbersKept
<1>5. ASSUME NEW s \in Senders, WriteAfterReset(s) PROVE NumbersInv'
  BY <1>2, <1>5 DEF WriteAfterReset
<1> QED
  BY <1>2, <1>3, <1>4, <1>5 DEF MsgNext, msgVars, SenderStep

\* Two messages carry the same number only if the counter has gone round between them or a
\* send from the one to the other raced with another (ZigbeeDongle.cpp:236).
THEOREM NumbersRepeatByRace == MsgSpec => []NumbersRepeatOnlyByRace
<1>1. MsgInit => NumbersInv
  BY DEF MsgInit, NumbersInv, RunsOn, LastNumber
<1>2. MsgInv /\ NumbersInv => NumbersRepeatOnlyByRace
  <2> SUFFICES ASSUME MsgInv, NumbersInv, NEW i \in DOMAIN numbers, NEW j \in DOMAIN numbers,
                      i < j, j - i < SeqMod, numbers[i].seq = numbers[j].seq,
                      \A k \in i .. j : ~numbers[k].raced
               PROVE  FALSE
    BY DEF NumbersRepeatOnlyByRace
  <2> DEFINE T == [id : 1 .. MaxCalls, seq : 0 .. SeqMod - 1, raced : BOOLEAN]
  <2>1. numbers \in Seq(T)
    BY DEF MsgInv, SendersTyped
  <2>2. i \in Nat /\ j \in Nat /\ SeqMod \in Nat
    BY <2>1, MessagingConstants
  <2>3. numbers[i].seq \in 0 .. SeqMod - 1
    <3>1. numbers[i] \in T
      <4> HIDE DEF T
      <4> QED
        BY <2>1
    <3> QED
      BY <3>1
  <2>4. i <= j /\ j - i \in 0 .. SeqMod - 1 /\ j - i > 0
        /\ \A k \in i .. j - 1 : k \in i .. j
    BY <2>2
  <2>5. numbers[j].seq = After(numbers[i].seq, j - i)
    BY <2>4 DEF NumbersInv, RunsOn
  <2> QED
    BY <2>3, <2>4, <2>5, AfterAfter
<1> QED
  BY <1>1, <1>2, NumbersStep, MsgInvariant, PTL DEF MsgSpec
=============================================================================
