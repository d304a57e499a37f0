--------------------------- MODULE SerialPortProofs ---------------------------
(***************************************************************************)
(* Theorems about SerialPort, for any buffer, any number of ports and of   *)
(* bytes, and any failures.                                                *)
(***************************************************************************)
EXTENDS SerialPort, SequenceTheorems, TLAPS

Results == {"none", "data", "error", "aborted", "rearm"}
Entries == [port : Nat, result : Results, n : Nat]

Typed ==
  /\ made \in Nat /\ pending \in Nat /\ reported \in Nat
  /\ ready \in Seq(Entries) /\ handler \in Entries
  /\ failed \in BOOLEAN /\ late \in BOOLEAN /\ running \in BOOLEAN

\* Handlers are of ports made so far.
PortsMade ==
  /\ \A i \in DOMAIN ready : ready[i].port \in 1 .. made
  /\ handler.port \in 0 .. made

\* The I/O thread and the reads of a port end before the port does.
ThreadInv ==
  /\ running => owner \in {"running", "up", "stopping"}
  /\ ~running => handler = NoHandler
  /\ pending > 0 => InUse
  /\ InUse => made # 0

\* Where the one read of a port in use is, and what it has come to.
UnderWay == pending = 1 /\ Queued = {} /\ ~Mine(handler) /\ ~failed /\ reported = 0

IsQueued ==
  /\ pending = 0 /\ ~Mine(handler) /\ reported = 0
  /\ \E i \in DOMAIN ready :
       /\ Queued = {i}
       /\ ready[i].result \in {"data", "error"}
       /\ failed <=> ready[i].result = "error"

IsHandled ==
  /\ pending = 0 /\ Queued = {} /\ Mine(handler) /\ reported = 0
  /\ handler.result \in {"data", "error", "rearm"}
  /\ failed <=> handler.result = "error"

IsOver == pending = 0 /\ Queued = {} /\ ~Mine(handler) /\ failed /\ reported = 1

ReadLoop == InUse => UnderWay \/ IsQueued \/ IsHandled \/ IsOver

AtMostOnce == reported <= IF failed THEN 1 ELSE 0

\* A handler that would use a port which is no longer in use was left over.
LeftOver(h) == h.result \in {"data", "error", "rearm"} /\ ~(Mine(h) /\ InUse)
LateInv ==
  /\ \A i \in DOMAIN ready : LeftOver(ready[i]) => late
  /\ LeftOver(handler) => late
  /\ misused => late

PortInv == Typed /\ PortsMade /\ ThreadInv /\ ReadLoop /\ AtMostOnce /\ LateInv

-----------------------------------------------------------------------------
(***************************************************************************)
(* The queue of handlers                                                   *)
(***************************************************************************)
LEMMA QueuedAppend ==
  ASSUME ready \in Seq(Entries), NEW h \in Entries, ready' = Append(ready, h), made' = made
  PROVE  /\ ready' \in Seq(Entries)
         /\ DOMAIN ready' = DOMAIN ready \cup {Len(ready) + 1}
         /\ Len(ready) + 1 \notin DOMAIN ready
         /\ \A i \in DOMAIN ready : ready'[i] = ready[i]
         /\ ready'[Len(ready) + 1] = h
         /\ Queued' = Queued \cup (IF Mine(h) THEN {Len(ready) + 1} ELSE {})
<1>1. /\ ready' \in Seq(Entries)
      /\ DOMAIN ready' = DOMAIN ready \cup {Len(ready) + 1}
      /\ Len(ready) + 1 \notin DOMAIN ready
      /\ \A i \in DOMAIN ready : ready'[i] = ready[i]
      /\ ready'[Len(ready) + 1] = h
  OBVIOUS
<1>2. Queued' = Queued \cup (IF Mine(h) THEN {Len(ready) + 1} ELSE {})
  BY <1>1 DEF Queued, Mine
<1> QED BY <1>1, <1>2

LEMMA QueuedTail ==
  ASSUME ready \in Seq(Entries), ready # <<>>, ready' = Tail(ready), made' = made
  PROVE  /\ ready' \in Seq(Entries)
         /\ 1 \in DOMAIN ready /\ Head(ready) = ready[1] /\ Head(ready) \in Entries
         /\ \A i \in DOMAIN ready' : i + 1 \in DOMAIN ready /\ ready'[i] = ready[i + 1]
         /\ \A i \in DOMAIN ready \ {1} : i - 1 \in DOMAIN ready' /\ ready'[i - 1] = ready[i]
         /\ \A i \in DOMAIN ready : i \in Nat
         /\ \A i \in DOMAIN ready' : i \in Nat
OBVIOUS

\* What leaves the queue untouched leaves Queued untouched.
LEMMA QueuedSame ==
  ASSUME UNCHANGED <<ready, made>>
  PROVE  Queued' = Queued
BY DEF Queued, Mine

-----------------------------------------------------------------------------
(***************************************************************************)
(* The thread in connect() or disconnect()                                 *)
(***************************************************************************)
USE DEF ownVars, objVars, loopVars, ioVars, byteVars, errVars, endVars

LEMMA OpenKeeps ==
  ASSUME PortInv, OpenPort
  PROVE  PortInv'
<1>1. made' = made + 1 /\ made \in Nat
  BY DEF OpenPort, PortInv, Typed
<1>2. ~InUse /\ pending = 0 /\ handler = NoHandler /\ ~running
  BY DEF OpenPort, PortInv, Typed, ThreadInv, InUse
<1>3. PICK found, others, last \in BOOLEAN :
        LET good == found /\ OptionsAccepted(others, last)
        IN  /\ owner' = IF good THEN "opened" ELSE "failed"
            /\ pending' = IF good THEN 1 ELSE 0
  BY DEF OpenPort
<1>4. /\ \/ owner' = "opened" /\ pending' = 1
         \/ owner' = "failed" /\ pending' = 0
      /\ failed' = FALSE /\ reported' = 0
      /\ UNCHANGED <<ready, handler, running, late, misused>>
  BY <1>3 DEF OpenPort
<1>5. \A i \in DOMAIN ready : ready[i].port # made'
  BY <1>1 DEF PortInv, PortsMade
<1>6. Queued' = {}
  BY <1>4, <1>5 DEF Queued, Mine
<1>7. Typed' /\ ThreadInv' /\ AtMostOnce'
  <2>1. Typed'
    <3>1. made' \in Nat /\ pending' \in Nat /\ reported' \in Nat
      BY <1>1, <1>4
    <3>2. failed' \in BOOLEAN
      BY <1>4
    <3> QED BY <1>4, <3>1, <3>2 DEF PortInv, Typed
  <2>2. ThreadInv'
    BY <1>1, <1>2, <1>4 DEF ThreadInv, InUse
  <2>3. AtMostOnce'
    BY <1>4 DEF AtMostOnce
  <2> QED BY <2>1, <2>2, <2>3
<1>8. PortsMade'
  BY <1>1, <1>4 DEF PortInv, PortsMade
<1>9. ReadLoop'
  BY <1>1, <1>2, <1>4, <1>6 DEF ReadLoop, UnderWay, InUse, Mine, NoHandler
<1>10. LateInv'
  BY <1>2, <1>4 DEF PortInv, LateInv, LeftOver, InUse
<1> QED BY <1>7, <1>8, <1>9, <1>10 DEF PortInv

\* Steps that leave the port, its reads and its handlers alone.
LEMMA UseKeeps ==
  ASSUME PortInv,
         UNCHANGED <<made, pending, ready, handler, failed, reported, late, misused>>,
         InUse' = InUse, ThreadInv', running' \in BOOLEAN
  PROVE  PortInv'
<1>1. Queued' = Queued
  BY QueuedSame
<1>2. Typed' /\ PortsMade' /\ AtMostOnce'
  BY DEF PortInv, Typed, PortsMade, AtMostOnce
<1>3. UNCHANGED <<UnderWay, IsQueued, IsHandled, IsOver>>
  BY <1>1 DEF UnderWay, IsQueued, IsHandled, IsOver, Mine
<1>4. ReadLoop'
  BY <1>3 DEF PortInv, ReadLoop
<1>5. LateInv'
  BY DEF PortInv, LateInv, LeftOver, Mine
<1> QED BY <1>2, <1>4, <1>5 DEF PortInv

LEMMA OwnerKeeps ==
  ASSUME PortInv, StartThread \/ MarkConnected \/ StopIo \/ DestroyPort
  PROVE  PortInv'
<1>1. UNCHANGED <<made, pending, ready, handler, failed, reported, late, misused>>
  BY DEF StartThread, MarkConnected, StopIo, DestroyPort
<1>2. InUse' = InUse
  BY DEF StartThread, MarkConnected, StopIo, DestroyPort, InUse
<1>3. running' \in BOOLEAN
  BY DEF StartThread, MarkConnected, StopIo, DestroyPort, PortInv, Typed
<1>4. ThreadInv'
  <2>1. CASE StartThread
    BY <2>1, <1>1, <1>2 DEF StartThread, PortInv, ThreadInv
  <2>2. CASE MarkConnected
    BY <2>2, <1>1, <1>2 DEF MarkConnected, PortInv, ThreadInv
  <2>3. CASE StopIo
    BY <2>3, <1>1, <1>2 DEF StopIo, PortInv, ThreadInv
  <2>4. CASE DestroyPort
    BY <2>4, <1>1, <1>2 DEF DestroyPort, PortInv, ThreadInv
  <2> QED BY <2>1, <2>2, <2>3, <2>4
<1> QED BY <1>1, <1>2, <1>3, <1>4, UseKeeps

LEMMA CloseKeeps ==
  ASSUME PortInv, ClosePort
  PROVE  PortInv'
<1> DEFINE aborted == [i \in 1 .. pending |-> Completed(made, "aborted", 0)]
<1>1. /\ owner = "stopping" /\ owner' = "closed" /\ ~running
      /\ ready' = ready \o aborted /\ pending' = 0
      /\ late' = (late \/ \E i \in DOMAIN ready : ready[i].result \in {"data", "error"})
      /\ UNCHANGED <<made, handler, running, failed, reported, misused>>
  BY DEF ClosePort
<1>2. aborted \in Seq(Entries) /\ Len(aborted) = pending
  BY DEF PortInv, Typed, Completed, Entries, Results
<1>3. \A i \in 1 .. Len(aborted) :
        aborted[i].port = made /\ aborted[i].result = "aborted"
  BY <1>2 DEF PortInv, Typed, Completed
<1>4. /\ ready' \in Seq(Entries)
      /\ Len(ready') = Len(ready) + Len(aborted)
      /\ \A i \in 1 .. Len(ready) : ready'[i] = ready[i]
      /\ \A i \in 1 .. Len(aborted) : ready'[Len(ready) + i] = aborted[i]
  <2> HIDE DEF aborted
  <2>1. ready \in Seq(Entries)
    BY DEF PortInv, Typed
  <2>2. Len(ready) \in Nat /\ Len(aborted) \in Nat
    BY <1>2, <2>1, LenProperties
  <2>3. /\ ready' \in Seq(Entries)
        /\ Len(ready') = Len(ready) + Len(aborted)
        /\ \A i \in 1 .. Len(ready) + Len(aborted) :
             ready'[i] = IF i <= Len(ready) THEN ready[i] ELSE aborted[i - Len(ready)]
    BY <1>1, <1>2, <2>1, ConcatProperties
  <2>4. \A i \in 1 .. Len(ready) : ready'[i] = ready[i]
    BY <2>2, <2>3
  <2>5. \A i \in 1 .. Len(aborted) : ready'[Len(ready) + i] = aborted[i]
    BY <2>2, <2>3
  <2> QED BY <2>3, <2>4, <2>5
<1>5. \A i \in DOMAIN ready' :
        \/ i \in DOMAIN ready /\ ready'[i] = ready[i]
        \/ ready'[i].port = made /\ ready'[i].result = "aborted"
  <2> SUFFICES ASSUME NEW i \in DOMAIN ready', i \notin DOMAIN ready
               PROVE  ready'[i].port = made /\ ready'[i].result = "aborted"
    BY <1>4 DEF PortInv, Typed
  <2>1. ready \in Seq(Entries) /\ i \in Nat /\ i > Len(ready) /\ i <= Len(ready')
    BY <1>4 DEF PortInv, Typed
  <2>2. i - Len(ready) \in 1 .. Len(aborted) /\ i = Len(ready) + (i - Len(ready))
    <3> HIDE DEF aborted
    <3>1. Len(ready) \in Nat /\ Len(aborted) \in Nat
      BY <2>1, <1>2, LenProperties
    <3> QED BY <2>1, <3>1, <1>4
  <2> HIDE DEF aborted
  <2>3. ready'[i] = aborted[i - Len(ready)]
    BY <2>2, <1>4
  <2> QED BY <2>2, <2>3, <1>3
<1>6. Typed' /\ ThreadInv' /\ AtMostOnce' /\ ReadLoop'
  BY <1>1, <1>4 DEF PortInv, Typed, ThreadInv, AtMostOnce, ReadLoop, InUse
<1>7. PortsMade'
  <2>1. made \in 1 .. made
    BY <1>1 DEF PortInv, Typed, ThreadInv, InUse
  <2> QED BY <1>1, <1>5, <2>1 DEF PortInv, PortsMade
<1>8. LateInv'
  <2>1. handler'.result = "none"
    BY <1>1 DEF PortInv, ThreadInv, NoHandler
  <2>2. \A i \in DOMAIN ready' : LeftOver(ready[i])' => late'
    <3>1. \A i \in DOMAIN ready : Mine(ready[i]) => ready[i].result \in {"data", "error"}
      BY <1>1 DEF PortInv, ReadLoop, UnderWay, IsQueued, IsHandled, IsOver, InUse, Queued
    <3> QED BY <1>1, <1>5, <3>1 DEF PortInv, LateInv, LeftOver
  <2> QED BY <1>1, <2>1, <2>2 DEF PortInv, LateInv, LeftOver
<1> QED BY <1>6, <1>7, <1>8 DEF PortInv

-----------------------------------------------------------------------------
(***************************************************************************)
(* The line and the operating system                                       *)
(***************************************************************************)
LEMMA CompletionKeeps ==
  ASSUME PortInv, NEW h \in Entries, h.port = made, h.result \in {"data", "error"},
         pending > 0, pending' = pending - 1, ready' = Append(ready, h),
         failed' = (failed \/ h.result = "error"),
         UNCHANGED <<owner, made, handler, running, reported, late, misused>>
  PROVE  PortInv'
<1>1. InUse /\ UnderWay
  BY DEF PortInv, ThreadInv, ReadLoop, IsQueued, IsHandled, IsOver
<1>2. /\ ready' \in Seq(Entries)
      /\ DOMAIN ready' = DOMAIN ready \cup {Len(ready) + 1}
      /\ \A i \in DOMAIN ready : ready'[i] = ready[i]
      /\ ready'[Len(ready) + 1] = h
      /\ Queued' = {Len(ready) + 1}
  BY <1>1, QueuedAppend DEF PortInv, Typed, UnderWay, Mine
<1>3. made \in 1 .. made
  BY <1>1, <1>2 DEF PortInv, Typed, PortsMade, UnderWay, Mine
<1>4. Typed' /\ ThreadInv' /\ AtMostOnce' /\ PortsMade'
  BY <1>1, <1>2, <1>3
  DEF PortInv, Typed, ThreadInv, AtMostOnce, PortsMade, UnderWay, InUse
<1>5. IsQueued'
  <2>1. failed' <=> h.result = "error"
    BY <1>1 DEF UnderWay
  <2>2. pending' = 0 /\ ~Mine(handler)' /\ reported' = 0
    BY <1>1 DEF UnderWay, Mine
  <2> QED BY <1>2, <2>1, <2>2 DEF IsQueued
<1>6. LateInv'
  BY <1>1, <1>2 DEF PortInv, LateInv, LeftOver, InUse, Mine
<1> QED BY <1>4, <1>5, <1>6 DEF PortInv, ReadLoop

LEMMA LineKeeps ==
  ASSUME PortInv, ByteArrives \/ CompleteRead \/ FailRead
  PROVE  PortInv'
<1>1. CASE ByteArrives
  <2>1. UNCHANGED <<owner, made, pending, ready, handler, running, failed, reported, late,
                    misused>>
    BY <1>1 DEF ByteArrives
  <2>2. InUse' = InUse /\ ThreadInv' /\ running' \in BOOLEAN
    BY <2>1 DEF PortInv, Typed, ThreadInv, InUse
  <2> QED BY <2>1, <2>2, UseKeeps
<1>2. CASE CompleteRead
  <2>1. PICK n \in 1 .. BufSize : ready' = Append(ready, Completed(made, "data", n))
    BY <1>2 DEF CompleteRead
  <2>2. Completed(made, "data", n) \in Entries
    BY <2>1, SerialPortConstants DEF Completed, Entries, Results, PortInv, Typed
  <2>3. failed' = (failed \/ Completed(made, "data", n).result = "error")
    BY <1>2 DEF CompleteRead, Completed, PortInv, Typed
  <2> QED BY <1>2, <2>1, <2>2, <2>3, CompletionKeeps DEF CompleteRead, Completed
<1>3. CASE FailRead
  <2>1. Completed(made, "error", 0) \in Entries
    BY DEF Completed, Entries, Results, PortInv, Typed
  <2> QED BY <1>3, <2>1, CompletionKeeps DEF FailRead, Completed
<1> QED BY <1>1, <1>2, <1>3

-----------------------------------------------------------------------------
(***************************************************************************)
(* The I/O thread                                                          *)
(***************************************************************************)
LEMMA BeginKeeps ==
  ASSUME PortInv, BeginHandler
  PROVE  PortInv'
<1>1. /\ running /\ handler = NoHandler /\ handler' = Head(ready) /\ ready' = Tail(ready)
      /\ ready \in Seq(Entries) /\ ready # <<>>
      /\ UNCHANGED <<owner, made, pending, running, failed, reported, late, misused>>
  BY DEF BeginHandler, PortInv, Typed
<1>2. /\ ready' \in Seq(Entries)
      /\ 1 \in DOMAIN ready /\ handler' = ready[1] /\ handler' \in Entries
      /\ \A i \in DOMAIN ready' : i + 1 \in DOMAIN ready /\ ready'[i] = ready[i + 1]
      /\ \A i \in DOMAIN ready \ {1} : i - 1 \in DOMAIN ready' /\ ready'[i - 1] = ready[i]
      /\ DOMAIN ready \subseteq Nat /\ DOMAIN ready' \subseteq Nat
  BY <1>1, QueuedTail
<1>3. InUse' = InUse /\ InUse
  BY <1>1 DEF PortInv, ThreadInv, InUse
<1>4. Typed' /\ ThreadInv' /\ AtMostOnce'
  BY <1>1, <1>2, <1>3 DEF PortInv, Typed, ThreadInv, AtMostOnce
<1>5. PortsMade'
  BY <1>1, <1>2 DEF PortInv, Typed, PortsMade
<1>6. LateInv'
  BY <1>1, <1>2, <1>3 DEF PortInv, LateInv, LeftOver, Mine
<1>7. \A i \in DOMAIN ready' : i \in Queued' <=> i + 1 \in Queued
  BY <1>1, <1>2 DEF Queued, Mine
<1>8. Queued' = {} \/ \E i \in DOMAIN ready' : i \in Queued'
  BY DEF Queued
<1>9. ReadLoop'
  <2>1. CASE Queued = {}
    <3>1. Queued' = {} /\ ~Mine(handler)'
      BY <2>1, <1>1, <1>2, <1>7, <1>8 DEF Queued, Mine
    <3>2. UnderWay \/ IsOver
      BY <2>1, <1>1, <1>3 DEF PortInv, ReadLoop, IsQueued, IsHandled, NoHandler
    <3> QED BY <1>1, <2>1, <3>1, <3>2 DEF ReadLoop, UnderWay, IsOver
  <2>2. CASE Queued # {}
    <3>1. IsQueued
      BY <2>2, <1>3 DEF PortInv, ReadLoop, UnderWay, IsHandled, IsOver
    <3>2. PICK k \in DOMAIN ready :
            /\ Queued = {k}
            /\ ready[k].result \in {"data", "error"}
            /\ failed <=> ready[k].result = "error"
      BY <3>1 DEF IsQueued
    <3>3. CASE k = 1
      <4>1. Queued' = {}
        BY <3>2, <3>3, <1>2, <1>7, <1>8
      <4>2. Mine(handler)'
        BY <3>2, <3>3, <1>1, <1>2 DEF Queued, Mine
      <4>3. IsHandled'
        BY <4>1, <4>2, <3>1, <3>2, <3>3, <1>1, <1>2 DEF IsQueued, IsHandled
      <4> QED BY <4>3 DEF ReadLoop
    <3>4. CASE k # 1
      <4>1. k - 1 \in DOMAIN ready' /\ ready'[k - 1] = ready[k] /\ k \in Nat
        BY <3>2, <3>4, <1>2
      <4>2. Queued' = {k - 1}
        <5>1. Queued' \subseteq DOMAIN ready' /\ DOMAIN ready' \subseteq Nat
          BY <1>2 DEF Queued
        <5>2. k - 1 \in Queued'
          BY <4>1, <3>2, <1>7
        <5>3. \A i \in Queued' : i = k - 1
          BY <5>1, <4>1, <3>2, <1>7
        <5> QED BY <5>2, <5>3
      <4>3. ~Mine(handler)'
        BY <3>2, <3>4, <1>1, <1>2 DEF Queued, Mine
      <4>4. IsQueued'
        BY <4>1, <4>2, <4>3, <3>1, <3>2, <1>1 DEF IsQueued
      <4> QED BY <4>4 DEF ReadLoop
    <3> QED BY <3>3, <3>4
  <2> QED BY <2>1, <2>2
<1> QED BY <1>4, <1>5, <1>6, <1>9 DEF PortInv

\* A port that exists and has a handler running is in use.
LEMMA HandlerMeansUse ==
  ASSUME PortInv, handler.result \in {"data", "error", "aborted", "rearm"}
  PROVE  InUse /\ running
BY DEF PortInv, ThreadInv, NoHandler, InUse

LEMMA HandlerKeeps ==
  ASSUME PortInv, HandleRead
  PROVE  PortInv'
<1>1. CASE TouchDestroyedPort
  <2>1. /\ late /\ UNCHANGED <<owner, made, pending, ready, handler, running, failed,
                               reported, late>>
    BY <1>1 DEF TouchDestroyedPort, PortInv, LateInv, LeftOver, Exists, InUse, Mine
  <2>2. Queued' = Queued
    BY <2>1, QueuedSame
  <2>3. Typed' /\ PortsMade' /\ ThreadInv' /\ AtMostOnce' /\ LateInv'
    BY <2>1 DEF PortInv, Typed, PortsMade, ThreadInv, AtMostOnce, LateInv, LeftOver, InUse,
                Mine
  <2>4. ReadLoop'
    BY <2>1, <2>2 DEF PortInv, ReadLoop, UnderWay, IsQueued, IsHandled, IsOver, InUse, Mine
  <2> QED BY <2>3, <2>4 DEF PortInv
<1>2. CASE ReadAborted
  <2>1. /\ handler' = NoHandler /\ InUse /\ running
        /\ UNCHANGED <<owner, made, pending, ready, running, failed, reported, late,
                       misused>>
    BY <1>2, HandlerMeansUse DEF ReadAborted
  <2>2. Queued' = Queued /\ ~IsHandled
    BY <1>2, <2>1, QueuedSame DEF ReadAborted, IsHandled
  <2>3. ~Mine(handler)'
    BY <2>1, <2>2 DEF PortInv, Typed, PortsMade, ReadLoop, UnderWay, IsQueued, IsOver,
                      Mine, NoHandler
  <2>4. Typed' /\ PortsMade' /\ ThreadInv' /\ AtMostOnce' /\ LateInv'
    BY <2>1 DEF PortInv, Typed, PortsMade, ThreadInv, AtMostOnce, LateInv, LeftOver, InUse,
                Mine, NoHandler, Entries, Results
  <2>5. ReadLoop'
    BY <2>1, <2>2, <2>3 DEF PortInv, ReadLoop, UnderWay, IsQueued, IsOver
  <2> QED BY <2>4, <2>5 DEF PortInv
<1>3. CASE ReportError
  <2>1. /\ handler' = NoHandler /\ InUse /\ running /\ Mine(handler) /\ made # 0
        /\ handler.result = "error" /\ reported' = reported + 1
        /\ UNCHANGED <<owner, made, pending, ready, running, failed, late, misused>>
    BY <1>3, HandlerMeansUse DEF ReportError, Exists, Mine, PortInv, ThreadInv
  <2>2. Queued' = Queued /\ IsHandled
    BY <2>1, QueuedSame DEF PortInv, ReadLoop, UnderWay, IsQueued, IsOver
  <2>3. Typed' /\ PortsMade' /\ ThreadInv' /\ AtMostOnce' /\ LateInv'
    BY <2>1, <2>2 DEF PortInv, Typed, PortsMade, ThreadInv, AtMostOnce, LateInv, LeftOver,
                      InUse, Mine, NoHandler, IsHandled, Entries, Results
  <2>4. IsOver'
    BY <2>1, <2>2 DEF IsHandled, IsOver, Mine, NoHandler
  <2> QED BY <2>3, <2>4 DEF PortInv, ReadLoop
<1>4. CASE DeliverData
  <2>1. /\ handler' = [handler EXCEPT !.result = "rearm", !.n = 0] /\ InUse /\ running
        /\ handler.result = "data" /\ Mine(handler)
        /\ UNCHANGED <<owner, made, pending, ready, running, failed, reported, late,
                       misused>>
    BY <1>4, HandlerMeansUse DEF DeliverData, Exists, Mine
  <2>2. handler' \in Entries /\ handler'.port = handler.port /\ handler'.result = "rearm"
    BY <2>1 DEF PortInv, Typed, Entries, Results
  <2>3. Queued' = Queued /\ IsHandled
    BY <2>1, QueuedSame DEF PortInv, ReadLoop, UnderWay, IsQueued, IsOver
  <2>4. Typed' /\ PortsMade' /\ ThreadInv' /\ AtMostOnce' /\ LateInv'
    BY <2>1, <2>2 DEF PortInv, Typed, PortsMade, ThreadInv, AtMostOnce, LateInv, LeftOver,
                      InUse, Mine
  <2>5. IsHandled'
    BY <2>1, <2>2, <2>3 DEF IsHandled, Mine
  <2> QED BY <2>4, <2>5 DEF PortInv, ReadLoop
<1>5. CASE StartNextRead
  <2>1. /\ handler' = NoHandler /\ InUse /\ running /\ Mine(handler) /\ made # 0
        /\ handler.result = "rearm" /\ pending' = pending + 1
        /\ UNCHANGED <<owner, made, ready, running, failed, reported, late, misused>>
    BY <1>5, HandlerMeansUse DEF StartNextRead, Exists, Mine, PortInv, ThreadInv
  <2>2. Queued' = Queued /\ IsHandled
    BY <2>1, QueuedSame DEF PortInv, ReadLoop, UnderWay, IsQueued, IsOver
  <2>3. Typed' /\ PortsMade' /\ ThreadInv' /\ AtMostOnce' /\ LateInv'
    BY <2>1, <2>2 DEF PortInv, Typed, PortsMade, ThreadInv, AtMostOnce, LateInv, LeftOver,
                      InUse, Mine, NoHandler, Entries, Results
  <2>4. UnderWay'
    BY <2>1, <2>2 DEF IsHandled, UnderWay, Mine, NoHandler
  <2> QED BY <2>3, <2>4 DEF PortInv, ReadLoop
<1> QED BY <1>1, <1>2, <1>3, <1>4, <1>5 DEF HandleRead

LEMMA ReturnKeeps ==
  ASSUME PortInv, RunReturns
  PROVE  PortInv'
<1>1. UNCHANGED <<owner, made, pending, ready, handler, failed, reported, late, misused>>
  BY DEF RunReturns
<1>2. InUse' = InUse /\ ThreadInv' /\ running' \in BOOLEAN
  BY <1>1 DEF RunReturns, PortInv, ThreadInv, InUse
<1> QED BY <1>1, <1>2, UseKeeps

-----------------------------------------------------------------------------
(***************************************************************************)
(* Theorems                                                                *)
(***************************************************************************)

LEMMA PortInvInit ==
  ASSUME PortInit
  PROVE  PortInv
<1>1. Typed /\ AtMostOnce
  <2>1. failed \in BOOLEAN /\ late \in BOOLEAN /\ running \in BOOLEAN
    BY DEF PortInit
  <2>2. ready \in Seq(Entries) /\ handler \in Entries
    BY DEF PortInit, NoHandler, Entries, Results
  <2> QED BY <2>1, <2>2 DEF PortInit, Typed, AtMostOnce
<1>2. ThreadInv /\ ReadLoop
  BY DEF PortInit, ThreadInv, ReadLoop, InUse
<1>3. PortsMade /\ LateInv
  BY DEF PortInit, PortsMade, LateInv, LeftOver, NoHandler
<1> QED BY <1>1, <1>2, <1>3 DEF PortInv

LEMMA PortInvStep ==
  ASSUME PortInv, [PortNext]_portVars
  PROVE  PortInv'
<1>1. CASE UNCHANGED portVars
  <2>1. UNCHANGED <<owner, made, pending, ready, handler, running, failed, reported, late,
                    misused>>
    BY <1>1 DEF portVars
  <2>2. InUse' = InUse /\ ThreadInv' /\ running' \in BOOLEAN
    BY <2>1 DEF PortInv, Typed, ThreadInv, InUse
  <2> QED BY <2>1, <2>2, UseKeeps
<1>2. CASE OwnerStep
  BY <1>2, OpenKeeps, OwnerKeeps, CloseKeeps DEF OwnerStep
<1>3. CASE ByteArrives \/ CompleteRead \/ FailRead
  BY <1>3, LineKeeps
<1>4. CASE IoStep
  BY <1>4, BeginKeeps, HandlerKeeps, ReturnKeeps DEF IoStep
<1> QED BY <1>1, <1>2, <1>3, <1>4 DEF PortNext

\* PortInv holds of every reachable state.
THEOREM PortInvariant == PortSpec => []PortInv
BY PortInvInit, PortInvStep, PTL DEF PortSpec

\* A port in use has one read, under way, completed or in its handler, until one fails.
THEOREM OneReadIsOutstanding == PortSpec => []OneReadOutstanding
<1>1. PortInv => OneReadOutstanding
  BY DEF PortInv, ReadLoop, UnderWay, IsQueued, IsHandled, IsOver, OneReadOutstanding
<1> QED BY <1>1, PortInvariant, PTL

\* A failure is reported once, and close() is none.
THEOREM ErrorsAreReportedOnce == PortSpec => []ErrorsReportedOnce
<1>1. PortInv => ErrorsReportedOnce
  BY DEF PortInv, ReadLoop, UnderWay, IsQueued, IsHandled, IsOver, AtMostOnce,
         ErrorsReportedOnce
<1> QED BY <1>1, PortInvariant, PTL

\* Only a read that had completed when its session ended brings a handler to a port that
\* no longer exists.
THEOREM LateReadsAreTheOnlyMisuse == PortSpec => []OnlyLateReadsMisuse
<1>1. PortInv => OnlyLateReadsMisuse
  BY DEF PortInv, LateInv, OnlyLateReadsMisuse
<1> QED BY <1>1, PortInvariant, PTL

-----------------------------------------------------------------------------
(***************************************************************************)
(* The bytes                                                               *)
(***************************************************************************)
BytesTyped ==
  /\ rx \in Seq(Nat) /\ readBuf \in Seq(Nat) /\ delivered \in Seq(Nat) /\ arrived \in Nat

\* The handlers of the present port that bring bytes, and how many.
Carries(h) == Mine(h) /\ h.result = "data"
Carriers   == {h \in {handler} \cup {ready[i] : i \in Queued} : Carries(h)}
CarriesAll == \A h \in Carriers : h.n = Len(readBuf)

Sent(n) == [k \in 1 .. n |-> k]
BytesInv == BytesTyped /\ (InUse => CarriesAll) /\ BytesInOrder

LEMMA InFlightCases ==
  /\ Carriers = {} => InFlight = <<>>
  /\ Carriers # {} => InFlight = readBuf
  /\ Carriers' = {} => InFlight' = <<>>
  /\ Carriers' # {} => InFlight' = readBuf'
BY DEF InFlight, Carriers, Carries

LEMMA CarriersByPlace ==
  /\ UnderWay \/ IsOver => Carriers = {}
  /\ IsHandled => Carriers = IF handler.result = "data" THEN {handler} ELSE {}
BY DEF UnderWay, IsOver, IsHandled, Carriers, Carries

\* A step that leaves the handlers and the bytes alone, and does not open a port.
LEMMA BytesKept ==
  ASSUME BytesInv, InUse' => InUse, Carriers' = Carriers,
         UNCHANGED <<configured, rx, readBuf, arrived, delivered>>
  PROVE  BytesInv'
<1>1. InFlight' = InFlight
  BY InFlightCases
<1> QED BY <1>1 DEF BytesInv, BytesTyped, CarriesAll, BytesInOrder

LEMMA ArrivalKeepsOrder ==
  ASSUME BytesInv, ByteArrives
  PROVE  BytesInv'
<1>1. UNCHANGED <<owner, made, configured, handler, ready, readBuf, delivered>>
  BY DEF ByteArrives
<1>2. InUse' = InUse /\ Queued' = Queued /\ Carriers' = Carriers /\ InFlight' = InFlight
  BY <1>1 DEF InUse, Queued, Mine, Carriers, Carries, InFlight
<1>3. /\ arrived' = arrived + 1
      /\ rx' = Append(rx, IF configured THEN arrived + 1 ELSE 0)
  BY DEF ByteArrives
<1>4. BytesTyped'
  BY <1>1, <1>3, AppendProperties DEF BytesInv, BytesTyped
<1>5. ASSUME InUse, configured
      PROVE  (delivered \o InFlight) \o rx' = Sent(arrived + 1)
  <2> DEFINE before == delivered \o InFlight
  <2>1. InFlight \in Seq(Nat)
    BY InFlightCases, EmptySeq DEF BytesInv, BytesTyped
  <2>2. before \in Seq(Nat) /\ rx \in Seq(Nat) /\ arrived + 1 \in Nat /\ arrived \in Nat
    BY <2>1, ConcatProperties DEF BytesInv, BytesTyped
  <2>3. before \o rx = Sent(arrived)
    BY <1>5 DEF BytesInv, BytesInOrder, Sent
  <2> HIDE DEF before
  <2>4. rx' = rx \o <<arrived + 1>>
    BY <1>3, <1>5, <2>2, AppendIsConcat
  <2>5. <<arrived + 1>> \in Seq(Nat)
    BY <2>2
  <2>6. before \o rx' = (before \o rx) \o <<arrived + 1>>
    BY <2>2, <2>4, <2>5, ConcatAssociative
  <2>7. Sent(arrived) \in Seq(Nat)
    BY <2>2 DEF Sent
  <2>8. before \o rx' = Append(Sent(arrived), arrived + 1)
    BY <2>2, <2>3, <2>6, <2>7, AppendIsConcat
  <2>9. Append(Sent(arrived), arrived + 1) = Sent(arrived + 1)
    BY <2>2 DEF Sent
  <2> QED BY <2>8, <2>9 DEF before
<1>6. BytesInOrder'
  BY <1>1, <1>2, <1>3, <1>5 DEF BytesInOrder, Sent
<1> QED BY <1>1, <1>2, <1>4, <1>6 DEF BytesInv, CarriesAll

\* A read completes: the bytes move from the line to readBuf_, which is free.
LEMMA CompletionKeepsOrder ==
  ASSUME PortInv, BytesInv, CompleteRead
  PROVE  BytesInv'
<1>1. PICK n \in 1 .. BufSize :
        /\ n <= Len(rx)
        /\ readBuf' = SubSeq(rx, 1, n)
        /\ rx' = SubSeq(rx, n + 1, Len(rx))
        /\ ready' = Append(ready, Completed(made, "data", n))
  BY DEF CompleteRead
<1>2. /\ pending > 0
      /\ UNCHANGED <<owner, made, configured, handler, arrived, delivered>>
  BY DEF CompleteRead
<1>3. InUse /\ UnderWay /\ InUse'
  BY <1>2 DEF PortInv, ThreadInv, ReadLoop, IsQueued, IsHandled, IsOver, InUse
<1>4. n \in Nat /\ n >= 1 /\ rx \in Seq(Nat) /\ delivered \in Seq(Nat) /\ Len(rx) \in Nat
  BY <1>1, SerialPortConstants, LenProperties DEF BytesInv, BytesTyped
<1>5. /\ readBuf' \in Seq(Nat) /\ Len(readBuf') = n
      /\ rx' \in Seq(Nat)
  BY <1>1, <1>4
<1>6. readBuf' \o rx' = rx
  <2>1. SubSeq(rx, 1, n) \o SubSeq(rx, n + 1, Len(rx)) = SubSeq(rx, 1, Len(rx))
    BY <1>1, <1>4, ConcatAdjacentSubSeq
  <2> QED BY <1>1, <1>4, <2>1, SubSeqFull
<1>7. Completed(made, "data", n) \in Entries
  BY <1>4 DEF Completed, Entries, Results, PortInv, Typed
<1>8. Carriers' = {Completed(made, "data", n)}
  <2>1. /\ Queued' = {Len(ready) + 1}
        /\ ready'[Len(ready) + 1] = Completed(made, "data", n)
    BY <1>1, <1>2, <1>3, <1>7, QueuedAppend DEF PortInv, Typed, UnderWay, Mine, Completed
  <2> QED BY <2>1, <1>2, <1>3 DEF Carriers, Carries, UnderWay, Mine, Completed
<1>9. InFlight = <<>> /\ InFlight' = readBuf'
  BY <1>3, <1>8, InFlightCases, CarriersByPlace
<1>10. BytesInOrder'
  <2>1. delivered \o InFlight = delivered
    BY <1>4, <1>9, ConcatEmptySeq
  <2>2. (delivered \o readBuf') \o rx' = delivered \o rx
    <3> DEFINE b == readBuf'
               r == rx'
    <3>1. b \in Seq(Nat) /\ r \in Seq(Nat) /\ b \o r = rx
      BY <1>5, <1>6
    <3> HIDE DEF b, r
    <3>2. \A s, t, u \in Seq(Nat) : (s \o t) \o u = s \o (t \o u)
      BY ConcatAssociative
    <3>3. (delivered \o b) \o r = delivered \o (b \o r)
      BY <1>4, <3>1, <3>2
    <3> QED BY <3>1, <3>3 DEF b, r
  <2> QED BY <1>2, <1>3, <1>9, <2>1, <2>2 DEF BytesInv, BytesInOrder
<1>11. BytesTyped' /\ CarriesAll'
  BY <1>2, <1>5, <1>8 DEF BytesInv, BytesTyped, CarriesAll, Completed
<1> QED BY <1>10, <1>11 DEF BytesInv

\* The callback takes what is in readBuf_.
LEMMA DeliveryKeepsOrder ==
  ASSUME PortInv, BytesInv, DeliverData
  PROVE  BytesInv'
<1>1. /\ handler.result = "data" /\ Mine(handler) /\ InUse
      /\ delivered' = delivered \o SubSeq(readBuf, 1, handler.n)
      /\ handler' = [handler EXCEPT !.result = "rearm", !.n = 0]
      /\ UNCHANGED <<owner, made, configured, ready, rx, readBuf, arrived>>
  BY HandlerMeansUse DEF DeliverData, Exists, Mine
<1>2. IsHandled
  BY <1>1 DEF PortInv, ReadLoop, UnderWay, IsQueued, IsOver
<1>3. Carriers = {handler} /\ handler.n = Len(readBuf) /\ readBuf \in Seq(Nat)
  BY <1>1, <1>2, CarriersByPlace DEF BytesInv, BytesTyped, CarriesAll
<1>4. delivered' = delivered \o readBuf
  BY <1>1, <1>3, SubSeqFull
<1>5. Carriers' = {}
  <2>1. Queued' = {}
    BY <1>1, <1>2, QueuedSame DEF IsHandled
  <2>2. handler'.result = "rearm"
    BY <1>1 DEF PortInv, Typed, Entries
  <2> QED BY <2>1, <2>2 DEF Carriers, Carries
<1>6. InFlight = readBuf /\ InFlight' = <<>>
  BY <1>3, <1>5, InFlightCases
<1>7. delivered' \in Seq(Nat)
  BY <1>3, <1>4, ConcatProperties DEF BytesInv, BytesTyped
<1>8. delivered' \o InFlight' = delivered \o InFlight
  BY <1>4, <1>6, <1>7, ConcatEmptySeq
<1> QED
  BY <1>1, <1>5, <1>7, <1>8 DEF BytesInv, BytesTyped, CarriesAll, BytesInOrder, InUse

\* The other handlers, and the choice of the next one, bring no bytes and drop none.
LEMMA HandlersKeepOrder ==
  ASSUME PortInv, BytesInv,
         BeginHandler \/ TouchDestroyedPort \/ ReadAborted \/ ReportError \/ StartNextRead
  PROVE  BytesInv'
<1>1. UNCHANGED <<owner, made, configured, rx, readBuf, arrived, delivered>>
  BY DEF BeginHandler, TouchDestroyedPort, ReadAborted, ReportError, StartNextRead
<1>2. CASE BeginHandler
  <2>1. /\ ready \in Seq(Entries) /\ ready # <<>> /\ ready' = Tail(ready)
        /\ handler = NoHandler /\ handler' = Head(ready)
    BY <1>2 DEF BeginHandler, PortInv, Typed
  <2>2. /\ 1 \in DOMAIN ready /\ handler' = ready[1]
        /\ \A i \in DOMAIN ready' : i + 1 \in DOMAIN ready /\ ready'[i] = ready[i + 1]
        /\ \A i \in DOMAIN ready \ {1} : i - 1 \in DOMAIN ready' /\ ready'[i - 1] = ready[i]
    BY <1>1, <2>1, QueuedTail
  <2>3. \A h : h \in Carriers <=>
                 Carries(h) /\ \E i \in DOMAIN ready : h = ready[i]
    BY <2>1 DEF Carriers, Carries, Queued, NoHandler, Mine
  <2>4. \A h : h \in Carriers' <=>
                 Carries(h) /\ (h = handler' \/ \E i \in DOMAIN ready' : h = ready'[i])
    BY <1>1 DEF Carriers, Carries, Queued, Mine
  <2>5. \A h : (\E i \in DOMAIN ready : h = ready[i])
                 <=> (h = handler' \/ \E i \in DOMAIN ready' : h = ready'[i])
    BY <2>2
  <2>6. Carriers' = Carriers
    BY <2>3, <2>4, <2>5
  <2> QED BY <1>1, <2>6, BytesKept DEF InUse
<1>3. CASE TouchDestroyedPort
  BY <1>1, <1>3, BytesKept
  DEF TouchDestroyedPort, InUse, Carriers, Carries, Queued, Mine
<1>4. CASE ReadAborted \/ ReportError \/ StartNextRead
  <2>1. handler' = NoHandler /\ handler.result # "data" /\ UNCHANGED ready
    BY <1>4 DEF ReadAborted, ReportError, StartNextRead
  <2>2. Carriers' = Carriers
    BY <1>1, <2>1 DEF Carriers, Carries, Queued, Mine, NoHandler
  <2> QED BY <1>1, <2>2, BytesKept DEF InUse
<1> QED BY <1>2, <1>3, <1>4

\* open() starts from nothing, and close() ends the use.
LEMMA OwnerKeepsOrder ==
  ASSUME PortInv, PortInv', BytesInv, OwnerStep \/ FailRead \/ RunReturns
  PROVE  BytesInv'
<1>1. CASE OpenPort
  <2>1. /\ rx' = <<>> /\ readBuf' = <<>> /\ arrived' = 0 /\ delivered' = <<>>
        /\ handler' = handler /\ ready' = ready /\ made' = made + 1
    BY <1>1 DEF OpenPort
  <2>2. Carriers' = {}
    BY <2>1 DEF PortInv, Typed, PortsMade, Carriers, Carries, Queued, Mine
  <2>3. InFlight' = <<>>
    BY <2>2, InFlightCases
  <2>4. BytesTyped' /\ CarriesAll'
    BY <2>1, <2>2 DEF BytesTyped, CarriesAll
  <2>5. BytesInOrder'
    <3>1. (<<>> \o <<>>) \o <<>> = <<>>
      BY EmptySeq, ConcatEmptySeq
    <3>2. [k \in 1 .. 0 |-> k] = <<>>
      OBVIOUS
    <3> QED BY <2>1, <2>3, <3>1, <3>2 DEF BytesInOrder
  <2> QED BY <2>4, <2>5 DEF BytesInv
<1>2. CASE ClosePort
  <2>1. ~InUse' /\ UNCHANGED <<rx, readBuf, arrived, delivered>>
    BY <1>2 DEF ClosePort, InUse
  <2> QED BY <2>1 DEF BytesInv, BytesTyped, BytesInOrder
<1>3. CASE FailRead
  <2>1. /\ pending > 0 /\ ready' = Append(ready, Completed(made, "error", 0))
        /\ UNCHANGED <<owner, made, configured, handler, rx, readBuf, arrived, delivered>>
    BY <1>3 DEF FailRead
  <2>2. UnderWay
    BY <2>1 DEF PortInv, ThreadInv, ReadLoop, IsQueued, IsHandled, IsOver
  <2>3. Completed(made, "error", 0) \in Entries
    BY DEF Completed, Entries, Results, PortInv, Typed
  <2>4. /\ Queued' = {Len(ready) + 1}
        /\ ready'[Len(ready) + 1] = Completed(made, "error", 0)
    BY <2>1, <2>2, <2>3, QueuedAppend DEF PortInv, Typed, UnderWay, Mine, Completed
  <2>5. Carriers' = {} /\ Carriers = {}
    BY <2>1, <2>2, <2>4 DEF Carriers, Carries, UnderWay, Mine, Completed
  <2> QED BY <2>1, <2>5, BytesKept DEF InUse
<1>4. CASE StartThread \/ MarkConnected \/ StopIo \/ DestroyPort \/ RunReturns
  <2>1. /\ UNCHANGED <<made, configured, handler, ready, rx, readBuf, arrived, delivered>>
        /\ InUse' => InUse
    BY <1>4 DEF StartThread, MarkConnected, StopIo, DestroyPort, RunReturns, InUse
  <2>2. Carriers' = Carriers
    BY <2>1 DEF Carriers, Carries, Queued, Mine
  <2> QED BY <2>1, <2>2, BytesKept
<1> QED BY <1>1, <1>2, <1>3, <1>4 DEF OwnerStep

LEMMA BytesInvInit ==
  ASSUME PortInit
  PROVE  BytesInv
<1>1. ~InUse /\ BytesTyped
  BY DEF PortInit, InUse, BytesTyped
<1> QED BY <1>1 DEF BytesInv, BytesInOrder

LEMMA BytesInvStep ==
  ASSUME PortInv, PortInv', BytesInv, [PortNext]_portVars
  PROVE  BytesInv'
<1>1. CASE UNCHANGED portVars
  <2>1. UNCHANGED <<owner, made, configured, handler, ready, rx, readBuf, arrived,
                    delivered>>
    BY <1>1 DEF portVars
  <2> QED BY <2>1, BytesKept DEF InUse, Carriers, Carries, Queued, Mine
<1>2. CASE PortNext
  BY <1>2, ArrivalKeepsOrder, CompletionKeepsOrder, DeliveryKeepsOrder,
     HandlersKeepOrder, OwnerKeepsOrder DEF PortNext, IoStep, HandleRead
<1> QED BY <1>1, <1>2

\* What a session reads is what was sent to it, in order and once, for any buffer, any
\* interleaving of the line, the operating system and the I/O thread, and any sessions
\* before it.
THEOREM BytesArriveInOrder == PortSpec => []BytesInOrder
<1>1. BytesInv => BytesInOrder
  BY DEF BytesInv
<1> QED BY <1>1, BytesInvInit, BytesInvStep, PortInvariant, PTL DEF PortSpec

-----------------------------------------------------------------------------
(***************************************************************************)
(* Types                                                                   *)
(***************************************************************************)

\* No more bytes wait than have arrived, so that no read brings more than MaxBytes.
PortTypeInv == PortTypeOK /\ Len(rx) <= arrived

\* The parts of the type invariant.
OwnerTyped ==
  /\ owner \in Owners /\ connected \in BOOLEAN
  /\ made \in 0 .. MaxPorts /\ isOpen \in BOOLEAN /\ configured \in BOOLEAN
  /\ running \in BOOLEAN /\ stopped \in BOOLEAN
LoopTyped ==
  pending \in Nat /\ ready \in Seq(Handlers) /\ handler \in Handlers \cup {NoHandler}
LineTyped ==
  /\ rx \in Seq(Bytes) /\ readBuf \in Seq(Bytes) /\ delivered \in Seq(Bytes)
  /\ arrived \in 0 .. MaxBytes /\ Len(rx) <= arrived
ErrorsTyped ==
  failed \in BOOLEAN /\ reported \in Nat /\ late \in BOOLEAN /\ misused \in BOOLEAN

LEMMA PortTypeParts ==
  /\ PortTypeInv <=> OwnerTyped /\ LoopTyped /\ LineTyped /\ ErrorsTyped
  /\ PortTypeInv' <=> OwnerTyped' /\ LoopTyped' /\ LineTyped' /\ ErrorsTyped'
BY DEF PortTypeInv, PortTypeOK, OwnerTyped, LoopTyped, LineTyped, ErrorsTyped

\* What leaves the owner, the line or the errors alone keeps their types.
LEMMA TypesKept ==
  ASSUME PortTypeInv
  PROVE  /\ UNCHANGED <<ownVars, objVars, ioVars>> => OwnerTyped'
         /\ UNCHANGED <<made, loopVars>> => LoopTyped'
         /\ UNCHANGED byteVars => LineTyped'
         /\ UNCHANGED <<errVars, endVars>> => ErrorsTyped'
BY PortTypeParts DEF OwnerTyped, LoopTyped, LineTyped, ErrorsTyped, Handlers

LEMMA OpenKeepsTypes ==
  ASSUME PortTypeInv, OpenPort
  PROVE  PortTypeInv'
<1>1. PICK found, others, last \in BOOLEAN :
        LET good == found /\ OptionsAccepted(others, last)
        IN  /\ owner' = IF good THEN "opened" ELSE "failed"
            /\ isOpen' = good
            /\ pending' = IF good THEN 1 ELSE 0
            /\ ApplyOptions(others, last)
  BY DEF OpenPort
<1>2. /\ made < MaxPorts /\ made' = made + 1
      /\ rx' = <<>> /\ readBuf' = <<>> /\ arrived' = 0 /\ delivered' = <<>>
      /\ failed' = FALSE /\ reported' = 0
      /\ UNCHANGED <<connected, ready, handler, ioVars, endVars>>
  BY DEF OpenPort
<1>3. OwnerTyped'
  <2>1. isOpen' \in BOOLEAN /\ configured' \in BOOLEAN /\ owner' \in Owners
    BY <1>1 DEF OptionsAccepted, ApplyOptions, Owners
  <2>2. made' \in 0 .. MaxPorts
    BY <1>2, PortTypeParts, SerialPortConstants DEF OwnerTyped
  <2> QED BY <1>2, <2>1, <2>2, PortTypeParts DEF OwnerTyped
<1>4. LoopTyped'
  <2>1. Handlers \subseteq Handlers'
    BY <1>2, PortTypeParts DEF OwnerTyped, Handlers
  <2>2. ready \in Seq(Handlers)
    BY PortTypeParts DEF LoopTyped
  <2>3. ready' \in Seq(Handlers')
    BY <1>2, <2>1, <2>2
  <2>4. handler' \in Handlers' \cup {NoHandler} /\ pending' \in Nat
    BY <1>1, <1>2, <2>1, PortTypeParts DEF LoopTyped
  <2> QED BY <2>3, <2>4 DEF LoopTyped
<1>5. LineTyped'
  BY <1>2, SerialPortConstants DEF LineTyped
<1>6. ErrorsTyped'
  BY <1>2, PortTypeParts DEF ErrorsTyped
<1> QED BY <1>3, <1>4, <1>5, <1>6, PortTypeParts

LEMMA OwnerKeepsTypes ==
  ASSUME PortInv, PortTypeInv, StartThread \/ MarkConnected \/ StopIo \/ ClosePort \/ DestroyPort
  PROVE  PortTypeInv'
<1>1. OwnerTyped'
  BY PortTypeParts
  DEF StartThread, MarkConnected, StopIo, ClosePort, DestroyPort, OwnerTyped, Owners
<1>2. LineTyped' /\ ErrorsTyped'
  BY TypesKept, PortTypeParts
  DEF StartThread, MarkConnected, StopIo, ClosePort, DestroyPort, ErrorsTyped
<1>3. LoopTyped'
  <2>1. CASE ~ClosePort
    BY <2>1, TypesKept DEF StartThread, MarkConnected, StopIo, DestroyPort
  <2>2. CASE ClosePort
    <3> DEFINE aborted == [i \in 1 .. pending |-> Completed(made, "aborted", 0)]
    <3>1. /\ ready' = ready \o aborted /\ pending' = 0 /\ made' = made
          /\ handler' = handler /\ InUse
      BY <2>2 DEF ClosePort, InUse
    <3>2. Completed(made, "aborted", 0) \in Handlers
      BY <3>1, PortTypeParts, SerialPortConstants
      DEF PortInv, ThreadInv, OwnerTyped, Completed, Handlers
    <3>3. aborted \in Seq(Handlers)
      BY <3>2, PortTypeParts DEF LoopTyped
    <3> HIDE DEF aborted
    <3>4. ready' \in Seq(Handlers)
      BY <3>1, <3>3, PortTypeParts, ConcatProperties DEF LoopTyped
    <3> QED BY <3>1, <3>4, PortTypeParts DEF LoopTyped, Handlers
  <2> QED BY <2>1, <2>2
<1> QED BY <1>1, <1>2, <1>3, PortTypeParts

LEMMA LineKeepsTypes ==
  ASSUME PortInv, PortTypeInv, ByteArrives \/ CompleteRead \/ FailRead
  PROVE  PortTypeInv'
<1>1. OwnerTyped'
  BY TypesKept DEF ByteArrives, CompleteRead, FailRead
<1>2. ErrorsTyped'
  BY PortTypeParts DEF ByteArrives, CompleteRead, FailRead, ErrorsTyped
<1>3. /\ rx \in Seq(Bytes) /\ Len(rx) \in Nat /\ arrived \in Nat /\ Len(rx) <= arrived
      /\ arrived <= MaxBytes /\ MaxBytes \in Nat
  BY PortTypeParts, LenProperties, SerialPortConstants DEF LineTyped
<1>4. pending > 0 => made \in 1 .. made
  BY PortTypeParts DEF PortInv, ThreadInv, OwnerTyped
<1>5. CASE ByteArrives
  <2> DEFINE b == IF configured THEN arrived' ELSE 0
  <2>1. arrived' = arrived + 1 /\ arrived' \in 0 .. MaxBytes /\ rx' = Append(rx, b)
    BY <1>3, <1>5 DEF ByteArrives
  <2>2. b \in Bytes
    BY <1>3, <2>1 DEF Bytes
  <2> HIDE DEF b
  <2>3. rx' \in Seq(Bytes) /\ Len(rx') = Len(rx) + 1
    BY <1>3, <2>1, <2>2, AppendProperties
  <2>4. LineTyped'
    BY <1>3, <1>5, <2>1, <2>3, PortTypeParts DEF ByteArrives, LineTyped
  <2> QED BY <1>1, <1>2, <1>5, <2>4, TypesKept, PortTypeParts DEF ByteArrives
<1>6. CASE CompleteRead
  <2>1. PICK n \in 1 .. BufSize :
          /\ n <= Len(rx)
          /\ readBuf' = SubSeq(rx, 1, n)
          /\ rx' = SubSeq(rx, n + 1, Len(rx))
          /\ ready' = Append(ready, Completed(made, "data", n))
    BY <1>6 DEF CompleteRead
  <2>2. n \in Nat /\ n >= 1 /\ n \in 0 .. MaxBytes
    BY <1>3, <2>1, SerialPortConstants
  <2>3. readBuf' \in Seq(Bytes) /\ rx' \in Seq(Bytes) /\ Len(rx') = Len(rx) - n
    BY <1>3, <2>1, <2>2
  <2>4. LineTyped'
    BY <1>3, <1>6, <2>2, <2>3, PortTypeParts DEF CompleteRead, LineTyped
  <2>5. Completed(made, "data", n) \in Handlers
    BY <1>4, <1>6, <2>2 DEF CompleteRead, Completed, Handlers
  <2>6. LoopTyped'
    BY <1>6, <2>1, <2>5, PortTypeParts DEF CompleteRead, LoopTyped, Handlers
  <2> QED BY <1>1, <1>2, <2>4, <2>6, PortTypeParts
<1>7. CASE FailRead
  <2>1. Completed(made, "error", 0) \in Handlers
    BY <1>3, <1>4, <1>7 DEF FailRead, Completed, Handlers
  <2>2. LoopTyped'
    BY <1>7, <2>1, PortTypeParts DEF FailRead, LoopTyped, Handlers
  <2> QED BY <1>1, <1>2, <1>7, <2>2, TypesKept, PortTypeParts DEF FailRead
<1> QED BY <1>5, <1>6, <1>7

LEMMA IoKeepsTypes ==
  ASSUME PortInv, BytesInv, PortTypeInv, IoStep
  PROVE  PortTypeInv'
<1>1. OwnerTyped'
  <2>1. /\ UNCHANGED <<owner, objVars, stopped>>
        /\ connected' \in {connected, FALSE} /\ running' \in {running, FALSE}
    BY DEF IoStep, HandleRead, BeginHandler, TouchDestroyedPort, ReadAborted, ReportError,
           DeliverData, StartNextRead, RunReturns
  <2> QED BY <2>1, PortTypeParts DEF OwnerTyped
<1>2. ErrorsTyped'
  <2>1. /\ UNCHANGED <<failed, late>>
        /\ reported' \in {reported, reported + 1} /\ misused' \in {misused, TRUE}
    BY DEF IoStep, HandleRead, BeginHandler, TouchDestroyedPort, ReadAborted, ReportError,
           DeliverData, StartNextRead, RunReturns
  <2>2. /\ failed \in BOOLEAN /\ late \in BOOLEAN /\ misused \in BOOLEAN
        /\ reported \in Nat
    BY PortTypeParts DEF ErrorsTyped
  <2>3. reported' \in Nat
    BY <2>1, <2>2
  <2>4. failed' \in BOOLEAN /\ late' \in BOOLEAN /\ misused' \in BOOLEAN
    BY <2>1, <2>2, Zenon
  <2> QED BY <2>3, <2>4 DEF ErrorsTyped
<1>3. made' = made /\ Handlers' = Handlers
  BY DEF IoStep, HandleRead, BeginHandler, TouchDestroyedPort, ReadAborted, ReportError,
         DeliverData, StartNextRead, RunReturns, Handlers
<1>4. CASE BeginHandler
  <2>1. ready \in Seq(Handlers) /\ ready # <<>>
    BY <1>4, PortTypeParts DEF BeginHandler, LoopTyped
  <2>2. ready' \in Seq(Handlers) /\ handler' \in Handlers
    BY <1>4, <2>1, HeadTailProperties DEF BeginHandler
  <2>3. LoopTyped'
    BY <1>3, <1>4, <2>2, PortTypeParts DEF BeginHandler, LoopTyped
  <2> QED BY <1>1, <1>2, <1>4, <2>3, TypesKept, PortTypeParts DEF BeginHandler
<1>5. CASE DeliverData
  <2>1. /\ handler.result = "data" /\ handler \in Handlers /\ readBuf \in Seq(Bytes)
        /\ handler' = [handler EXCEPT !.result = "rearm", !.n = 0]
        /\ delivered' = delivered \o SubSeq(readBuf, 1, handler.n)
    BY <1>5, PortTypeParts DEF DeliverData, LoopTyped, LineTyped, NoHandler
  <2>2. handler' \in Handlers
    <3>1. handler' = [port |-> handler.port, result |-> "rearm", n |-> 0]
      BY <2>1 DEF Handlers
    <3>2. handler.port \in 1 .. made /\ 0 \in 0 .. MaxBytes
      BY <2>1, SerialPortConstants DEF Handlers
    <3> QED BY <1>3, <3>1, <3>2 DEF Handlers
  <2>3. LoopTyped'
    BY <1>3, <1>5, <2>2, PortTypeParts DEF DeliverData, LoopTyped
  <2>4. SubSeq(readBuf, 1, handler.n) = readBuf
    <3>1. handler \in Carriers /\ InUse
      BY <1>5, HandlerMeansUse DEF DeliverData, Exists, Carriers, Carries, Mine
    <3>2. handler.n = Len(readBuf)
      BY <3>1 DEF BytesInv, CarriesAll
    <3> QED BY <2>1, <3>2, SubSeqFull
  <2>5. delivered' \in Seq(Bytes)
    BY <2>1, <2>4, ConcatProperties, PortTypeParts DEF LineTyped
  <2>6. LineTyped'
    BY <1>5, <2>5, PortTypeParts DEF DeliverData, LineTyped
  <2> QED BY <1>1, <1>2, <2>3, <2>6, PortTypeParts
<1>6. CASE TouchDestroyedPort \/ ReadAborted \/ ReportError \/ StartNextRead \/ RunReturns
  <2>1. LineTyped'
    BY <1>6, TypesKept
    DEF TouchDestroyedPort, ReadAborted, ReportError, StartNextRead, RunReturns
  <2>2. LoopTyped'
    BY <1>3, <1>6, PortTypeParts
    DEF TouchDestroyedPort, ReadAborted, ReportError, StartNextRead, RunReturns, LoopTyped
  <2> QED BY <1>1, <1>2, <2>1, <2>2, PortTypeParts
<1> QED BY <1>4, <1>5, <1>6 DEF IoStep, HandleRead

LEMMA PortTypeInvInit ==
  ASSUME PortInit
  PROVE  PortTypeInv
<1>1. OwnerTyped
  <2>1. owner \in Owners /\ made \in 0 .. MaxPorts
    BY SerialPortConstants DEF PortInit, Owners
  <2>2. /\ connected \in BOOLEAN /\ isOpen \in BOOLEAN /\ configured \in BOOLEAN
        /\ running \in BOOLEAN /\ stopped \in BOOLEAN
    BY Zenon DEF PortInit
  <2> QED BY <2>1, <2>2 DEF OwnerTyped
<1>2. LoopTyped
  <2>1. <<>> \in Seq(Handlers)
    OBVIOUS
  <2> QED BY <2>1 DEF PortInit, LoopTyped
<1>3. LineTyped
  <2>1. <<>> \in Seq(Bytes) /\ Len(<<>>) = 0
    OBVIOUS
  <2> QED BY <2>1, SerialPortConstants DEF PortInit, LineTyped
<1>4. ErrorsTyped
  BY DEF PortInit, ErrorsTyped
<1> QED BY <1>1, <1>2, <1>3, <1>4, PortTypeParts

LEMMA PortTypeInvStep ==
  ASSUME PortInv, BytesInv, PortTypeInv, [PortNext]_portVars
  PROVE  PortTypeInv'
<1>1. CASE UNCHANGED portVars
  BY <1>1, TypesKept, PortTypeParts DEF portVars
<1>2. CASE PortNext
  BY <1>2, OpenKeepsTypes, OwnerKeepsTypes, LineKeepsTypes, IoKeepsTypes
  DEF PortNext, OwnerStep
<1> QED BY <1>1, <1>2

\* The variables keep their types: no completion handler names a port not yet made or more
\* bytes than arrive (SerialPort.cpp:105-127).
THEOREM PortTypeCorrect == PortSpec => []PortTypeOK
<1>1. PortTypeInv => PortTypeOK
  BY DEF PortTypeInv
<1>2. PortSpec => []BytesInv
  BY BytesInvInit, BytesInvStep, PortInvariant, PTL DEF PortSpec
<1> QED
  BY <1>1, <1>2, PortTypeInvInit, PortTypeInvStep, PortInvariant, PTL DEF PortSpec
=============================================================================
