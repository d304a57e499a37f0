------------------------------ MODULE Messaging -------------------------------
(***************************************************************************)
(* Requests of application threads on the port of SerialPort: sendMessage()*)
(* and setPermitJoin() down to SerialPort::write(), beside the thread that *)
(* connects and disconnects and beside the I/O thread.                     *)
(*                                                                         *)
(* Nothing serializes the senders: afSeqNum_ is incremented by a load and  *)
(* a store, port_ is read without a lock, and write() hands a frame to the *)
(* operating system in as many parts as it takes.  A frame is its call and *)
(* the number of its parts; what they contain is left out.                 *)
(***************************************************************************)
EXTENDS SerialPort

CONSTANTS
  Senders,    \* application threads
  SeqMod,     \* values of afSeqNum_, a uint8_t
  Parts,      \* parts in which asio::write() hands over a frame
  MaxCalls    \* bound: requests made

ASSUME MessagingConstants ==
  /\ SeqMod \in Nat \ {0} /\ Parts \in Nat \ {0} /\ MaxCalls \in Nat

VARIABLES
  call,        \* what each sender is doing
  calls,       \* requests made so far: the number of the last one
  afSeqNum,    \* afSeqNum_
  numbers,     \* sequence numbers taken, in the order of the loads
  wire,        \* parts of frames the coordinator was sent
  accepted,    \* requests whose write() returned success
  overlapped   \* requests that were in write() together with another

sendVars == <<call, calls, afSeqNum, numbers, wire, accepted, overlapped>>
msgVars  == <<portVars, sendVars>>

Idle  == [at |-> "idle", id |-> 0, seq |-> 0, port |-> 0, done |-> 0]
Calls == [at : {"idle", "load", "store", "check", "write"}, id : 0 .. MaxCalls,
          seq : 0 .. SeqMod - 1, port : 0 .. MaxPorts, done : 0 .. Parts]

MsgTypeOK ==
  /\ PortTypeOK
  /\ call \in [Senders -> Calls] /\ calls \in 0 .. MaxCalls
  /\ afSeqNum \in 0 .. SeqMod - 1
  /\ numbers \in Seq([id : 1 .. MaxCalls, seq : 0 .. SeqMod - 1, raced : BOOLEAN])
  /\ wire \in Seq([id : 1 .. MaxCalls, part : 1 .. Parts])
  /\ accepted \subseteq 1 .. MaxCalls /\ overlapped \subseteq 1 .. MaxCalls

MsgInit ==
  /\ PortInit
  /\ call = [s \in Senders |-> Idle] /\ calls = 0
  /\ afSeqNum = 0 /\ numbers = <<>>
  /\ wire = <<>> /\ accepted = {} /\ overlapped = {}

-----------------------------------------------------------------------------
(***************************************************************************)
(* Faulty variants, not part of the specification: each breaks a property  *)
(* when it takes the place of the definition it is named after.            *)
(***************************************************************************)

\* The counter is wider than the byte that is sent ...
StoreSeq_NoWrap(s) ==
  /\ call[s].at = "store"
  /\ afSeqNum' = call[s].seq + 1
  /\ call' = [call EXCEPT ![s].at = "check"]
  /\ UNCHANGED <<portVars, calls, numbers, wire, accepted, overlapped>>

\* ... or goes round one too early.
StoreSeq_WrapsEarly(s) ==
  /\ call[s].at = "store"
  /\ afSeqNum' = (call[s].seq + 1) % (SeqMod - 1)
  /\ call' = [call EXCEPT ![s].at = "check"]
  /\ UNCHANGED <<portVars, calls, numbers, wire, accepted, overlapped>>

\* What was written before the error counts as the whole.
WriteFails_Ignored(s) ==
  /\ call[s].at = "write" /\ call[s].port = made /\ owner # "none"
  /\ call' = [call EXCEPT ![s] = Idle]
  /\ accepted' = accepted \cup {call[s].id}
  /\ UNCHANGED <<portVars, calls, afSeqNum, numbers, wire, overlapped>>

-----------------------------------------------------------------------------
Begin(s, at) ==
  /\ call[s].at = "idle" /\ calls < MaxCalls
  /\ calls' = calls + 1
  /\ call' = [call EXCEPT ![s].at = at, ![s].id = calls']
  /\ UNCHANGED <<portVars, afSeqNum, numbers, wire, accepted, overlapped>>

\* A session that is not up, or a payload that is too long, is refused at once.
SendMessage(s) == connected /\ Begin(s, "load")

\* setPermitJoin() does not ask for connected_; connect() makes its requests so, too.
SetPermitJoin(s) == Begin(s, "check")

\* The loads whose store is outstanding: their senders race with one another.
Racing == {call[s].id : s \in {s \in Senders : call[s].at = "store"}}

\* afSeqNum_++: the load ...
LoadSeq(s) ==
  /\ call[s].at = "load"
  /\ call' = [call EXCEPT ![s].at = "store", ![s].seq = afSeqNum]
  /\ numbers' =
       Append([i \in DOMAIN numbers |->
                 [numbers[i] EXCEPT !.raced = @ \/ numbers[i].id \in Racing]],
              [id |-> call[s].id, seq |-> afSeqNum, raced |-> Racing # {}])
  /\ UNCHANGED <<portVars, calls, afSeqNum, wire, accepted, overlapped>>

\* ... and the store.
StoreSeq(s) ==
  /\ call[s].at = "store"
  /\ afSeqNum' = (call[s].seq + 1) % SeqMod
  /\ call' = [call EXCEPT ![s].at = "check"]
  /\ UNCHANGED <<portVars, calls, numbers, wire, accepted, overlapped>>

Return(s) == call' = [call EXCEPT ![s] = Idle]

\* Requests that are in write().
Writing == {call[s].id : s \in {s \in Senders : call[s].at = "write"}}

\* sendFrame(): port_ is there and open ...
EnterWrite(s) ==
  /\ call[s].at = "check" /\ owner # "none" /\ isOpen
  /\ call' = [call EXCEPT ![s].at = "write", ![s].port = made]
  /\ overlapped' = IF Writing = {} THEN overlapped ELSE overlapped \cup Writing \cup {call[s].id}
  /\ UNCHANGED <<portVars, calls, afSeqNum, numbers, wire, accepted>>

\* ... or the request is refused.
RefuseWrite(s) ==
  /\ call[s].at = "check" /\ ~(owner # "none" /\ isOpen)
  /\ Return(s)
  /\ UNCHANGED <<portVars, calls, afSeqNum, numbers, wire, accepted, overlapped>>

\* The loop of asio::write(): the next part, and success after the last one.
WritePart(s) ==
  /\ call[s].at = "write" /\ Exists(call[s].port) /\ isOpen
  /\ wire' = Append(wire, [id |-> call[s].id, part |-> call[s].done + 1])
  /\ IF call[s].done + 1 = Parts
     THEN Return(s) /\ accepted' = accepted \cup {call[s].id}
     ELSE call' = [call EXCEPT ![s].done = @ + 1] /\ UNCHANGED accepted
  /\ UNCHANGED <<portVars, calls, afSeqNum, numbers, overlapped>>

\* The operating system may refuse any part, and does so on a closed port; what was
\* written stays on the line.
WriteFails(s) ==
  /\ call[s].at = "write" /\ Exists(call[s].port)
  /\ Return(s)
  /\ UNCHANGED <<portVars, calls, afSeqNum, numbers, wire, accepted, overlapped>>

\* disconnect() has destroyed the port meanwhile.
WriteAfterReset(s) ==
  /\ call[s].at = "write" /\ ~Exists(call[s].port)
  /\ misused' = TRUE
  /\ UNCHANGED <<ownVars, objVars, loopVars, ioVars, byteVars, errVars, late, sendVars>>

-----------------------------------------------------------------------------
SenderStep(s) ==
  \/ SendMessage(s) \/ SetPermitJoin(s) \/ LoadSeq(s) \/ StoreSeq(s)
  \/ EnterWrite(s) \/ RefuseWrite(s) \/ WritePart(s) \/ WriteFails(s) \/ WriteAfterReset(s)

MsgNext ==
  \/ PortNext /\ UNCHANGED sendVars
  \/ ~misused /\ \E s \in Senders : SenderStep(s)

MsgSpec == MsgInit /\ [][MsgNext]_msgVars

-----------------------------------------------------------------------------
(***************************************************************************)
(* Properties                                                              *)
(***************************************************************************)
Part(id, k) == [id |-> id, part |-> k]

\* The parts of a request are in order, and none is there twice.
InOrder(id) ==
  \A i, j \in DOMAIN wire :
    i < j /\ wire[i].id = id /\ wire[j].id = id => wire[i].part < wire[j].part
IsWhole(id) ==
  InOrder(id) /\ \A k \in 1 .. Parts : \E i \in DOMAIN wire : wire[i] = Part(id, k)
IsUnbroken(id) ==
  \E i \in 0 .. Len(wire) - Parts : \A k \in 1 .. Parts : wire[i + k] = Part(id, k)

\* A request that was reported as sent is on the line completely, each part once and
\* in order, whatever sessions, failures and other requests lie around it; and in
\* one piece unless another thread was in write() at the same time, against which no
\* lock protects it (SerialPort.cpp:93-99, ZigbeeDongle.cpp:411-416).
RequestsWhole ==
  \A id \in accepted : IsWhole(id) /\ (id \notin overlapped => IsUnbroken(id))

\* Two messages carry the same sequence number only if the counter has gone round
\* between them or a send from one to the other raced with another send, refused
\* and failed sends included (ZigbeeDongle.cpp:236).
NumbersRepeatOnlyByRace ==
  \A i, j \in DOMAIN numbers :
    i < j /\ j - i < SeqMod /\ numbers[i].seq = numbers[j].seq
      => \E k \in i .. j : numbers[k].raced

=============================================================================
