------------------------ MODULE DongleLifecycleProofs ------------------------
(***************************************************************************)
(* Theorems about DongleLifecycle that hold for any number of application  *)
(* threads, any number of connect() calls and read errors, whether or not  *)
(* the event callback calls disconnect(), and whatever state the           *)
(* coordinator is found in.                                                *)
(***************************************************************************)
EXTENDS DongleLifecycle, SequenceTheorems, FiniteSetTheorems, TLAPS

\* The frame a handler is working on stays at the head of the chunk.
ChunkHeld == pc[Io] \in {"handle", "complete"} => batch # <<>>

\* std::thread's side of the story: a handle exactly while a thread exists.
IoThreadHandle == joinable <=> pc[Io] # "none"

\* The properties hold each other up: a waiter's promise is typed by TypeOK,
\* the I/O thread's step by IoThreadHandle, which says that a new thread is started
\* only where there is none.
InductiveInv ==
  /\ TypeOK
  /\ IoThreadHandle
  /\ ChunkHeld
  /\ WaiterDiscipline
  /\ MutexDiscipline

LEMMA InitEstablishesInv == Init => InductiveInv
<1> SUFFICES ASSUME Init PROVE InductiveInv
  OBVIOUS
<1> USE ConstantsOK DEF Init
<1>1. TypeOK
  <2>1. pc \in [Procs -> ConnectSteps \cup DisconnectSteps \cup IoSteps \cup {"idle"}]
    BY DEF IoSteps
  <2>2. wasConnected \in [Procs -> BOOLEAN] /\ promise \in [Threads -> BOOLEAN]
    OBVIOUS
  <2>3. line \in Seq(Frames) /\ batch \in Seq(Frames)
    OBVIOUS
  <2>4. /\ startupMutex \in Threads \cup {NoThread}
        /\ port \in {"null", "closed", "open"}
        /\ reader \in {"none", "armed", "busy", "dead"}
        /\ coordinator \in Coordinator
    BY DEF ConstantsOK
  <2>5. /\ attempts \in 0 .. MaxConnects /\ errors \in 0 .. MaxReadErrors
        /\ reboots \in 0 .. MaxReboots
    BY DEF ConstantsOK
  <2> QED
    BY <2>1, <2>2, <2>3, <2>4, <2>5 DEF TypeOK
<1>2. pc[Io] = "none" /\ \A t \in Threads : pc[t] = "idle"
  BY DEF Procs
<1>3. IoThreadHandle /\ ChunkHeld /\ WaiterDiscipline /\ MutexDiscipline
  BY <1>2 DEF IoThreadHandle, ChunkHeld, WaiterDiscipline, MutexDiscipline, Procs
<1> QED
  BY <1>1, <1>3 DEF InductiveInv

-----------------------------------------------------------------------------
(***************************************************************************)
(* Every step keeps the invariant                                          *)
(***************************************************************************)

\* connect() and the application's calls.
LEMMA ConnectKeepsInv ==
  ASSUME InductiveInv, NEW t \in Threads, ApplicationCalls(t) \/ ConnectStep(t)
  PROVE  InductiveInv'
<1> USE ConstantsOK DEF InductiveInv, TypeOK, IoThreadHandle, ChunkHeld,
           WaiterDiscipline, MutexDiscipline, Procs, ConnectSteps, DisconnectSteps,
           IoSteps, Coordinator, Frames,
           Move, threadVars, startupVars, waiterVars, portVars, ioVars, countVars,
           eventVars, worldVars, restVars, driverVars, dataVars
<1>1. CASE ConnectRefused(t)
  BY <1>1 DEF ConnectRefused
<1>2. CASE ConnectCall(t)
  BY <1>2 DEF ConnectCall
<1>3. CASE DisconnectCall(t)
  BY <1>3 DEF DisconnectCall
<1>4. CASE OpenPort(t)
  <2>1. PICK next \in {"spawn", "idle"} : Move(t, "open", next)
    BY <1>4 DEF OpenPort
  <2>2. t # Io /\ pc'[t] = next /\ \A q \in Procs \ {t} : pc'[q] = pc[q]
    BY <2>1 DEF Move
  <2>3. TypeOK'
    <3>1. pc' \in [Procs -> ConnectSteps \cup DisconnectSteps \cup IoSteps \cup {"idle"}]
      BY <2>1 DEF Move
    <3>2. line' = <<>> /\ port' \in {"open", "closed"} /\ reader' \in {"armed", "none"}
      BY <1>4 DEF OpenPort
    <3>3. line' \in Seq(Frames)
      BY <3>2
    <3> QED
      BY <1>4, <3>1, <3>2, <3>3 DEF OpenPort, AbandonRead, countVars, eventVars
  <2>4. IoThreadHandle' /\ ChunkHeld'
    BY <1>4, <2>2 DEF OpenPort
  <2>5. WaiterDiscipline' /\ MutexDiscipline'
    BY <1>4, <2>1, <2>2 DEF OpenPort, Move
  <2> QED
    BY <2>3, <2>4, <2>5
<1>5. CASE StartIoThread(t)
  <2>1. CASE joinable
    BY <1>5, <2>1 DEF StartIoThread, Terminate, threadVars, portVars, countVars, eventVars
  <2>2. CASE ~joinable
    <3>1. pc[t] = "spawn" /\ t # Io
      BY <1>5 DEF StartIoThread
    <3>2. pc' = [pc EXCEPT ![t] = "reset", ![Io] = "run"] /\ joinable' = TRUE
      BY <1>5, <2>2 DEF StartIoThread
    <3>3. pc'[Io] = "run" /\ pc'[t] = "reset" /\ \A q \in Threads \ {t} : pc'[q] = pc[q]
      BY <3>1, <3>2
    <3>4. TypeOK' /\ IoThreadHandle' /\ ChunkHeld'
      BY <1>5, <2>2, <3>2, <3>3
      DEF StartIoThread, threadVars, portVars, countVars, eventVars
    <3>5. WaiterDiscipline' /\ MutexDiscipline'
      BY <1>5, <3>1, <3>3 DEF StartIoThread, threadVars
    <3> QED
      BY <3>4, <3>5
  <2> QED
    BY <2>1, <2>2
<1>6. CASE SysReset(t)
  BY <1>6 DEF SysReset, CanSend
<1>7. CASE RegisterWaiter(t)
  BY <1>7 DEF RegisterWaiter
<1>8. CASE FrameReceived(t)
  BY <1>8 DEF FrameReceived
<1>9. CASE ResetWaitExpires(t)
  BY <1>9 DEF ResetWaitExpires
<1>10. CASE DropWaiter(t)
  BY <1>10 DEF DropWaiter, Cancelled
<1>16. CASE CancelOwnWaiter(t)
  BY <1>16 DEF CancelOwnWaiter
<1>11. CASE StartupFromApp(t)
  BY <1>11 DEF StartupFromApp, CanSend
<1>12. CASE CoordinatorIsUp(t)
  BY <1>12 DEF CoordinatorIsUp, StartupMutexFree
<1>13. CASE StartupWaitExpires(t)
  BY <1>13 DEF StartupWaitExpires, StartupMutexFree
<1>14. CASE MarkConnected(t)
  BY <1>14 DEF MarkConnected
<1>15. CASE AnnounceConnected(t)
  BY <1>15 DEF AnnounceConnected, AfterCallback
<1> QED
  BY <1>1, <1>2, <1>3, <1>4, <1>5, <1>6, <1>7, <1>8, <1>9, <1>10, <1>11, <1>12,
         <1>13, <1>14, <1>15, <1>16
  DEF ApplicationCalls, ConnectStep

\* disconnect(), on whichever thread it runs.
LEMMA DisconnectKeepsInv ==
  ASSUME InductiveInv, NEW p \in Procs, DisconnectStep(p)
  PROVE  InductiveInv'
<1> USE ConstantsOK DEF InductiveInv, TypeOK, IoThreadHandle, ChunkHeld,
           WaiterDiscipline, MutexDiscipline, Procs, ConnectSteps, DisconnectSteps,
           IoSteps, Coordinator, Frames,
           Move, threadVars, startupVars, waiterVars, portVars, ioVars, countVars,
           eventVars, worldVars, restVars, driverVars, dataVars
<1>1. CASE BeginDisconnect(p)
  BY <1>1 DEF BeginDisconnect
<1>2. CASE ExchangeConnected(p)
  <2>1. TypeOK'
    <3>1. wasConnected' \in [Procs -> BOOLEAN] /\ connected' \in BOOLEAN
      BY <1>2 DEF ExchangeConnected
    <3>2. Move(p, "exchange", "cancel")
          /\ UNCHANGED <<startupVars, waiterVars, portVars, ioVars, worldVars>>
      BY <1>2 DEF ExchangeConnected
    <3> QED
      BY <3>1, <3>2
  <2>2. IoThreadHandle' /\ ChunkHeld'
    BY <1>2 DEF ExchangeConnected, Move, portVars, ioVars, countVars, eventVars
  <2>3. WaiterDiscipline'
    BY <1>2 DEF ExchangeConnected, Move, portVars, ioVars, countVars, eventVars
  <2>4. MutexDiscipline'
    BY <1>2 DEF ExchangeConnected, Move, portVars, ioVars, countVars, eventVars
  <2> QED
    BY <2>1, <2>2, <2>3, <2>4
<1>3. CASE CancelWaiters(p)
  BY <1>3 DEF CancelWaiters
<1>4. CASE UnblockStartup(p)
  BY <1>4 DEF UnblockStartup, StartupMutexFree
<1>5. CASE StopIo(p)
  BY <1>5 DEF StopIo
<1>6. CASE TestJoinable(p)
  BY <1>6 DEF TestJoinable
<1>7. CASE JoinThrows(p)
  BY <1>7 DEF JoinThrows, Terminate
<1> QED
  BY <1>1, <1>2, <1>3, <1>4, <1>5, <1>6, <1>7
  DEF DisconnectStep

\* The rest of disconnect(), on a thread of the application.
LEMMA DisconnectTailKeepsInv ==
  ASSUME InductiveInv, NEW t \in Threads, DisconnectTail(t)
  PROVE  InductiveInv'
<1> USE ConstantsOK DEF InductiveInv, TypeOK, IoThreadHandle, ChunkHeld,
           WaiterDiscipline, MutexDiscipline, Procs, ConnectSteps, DisconnectSteps,
           IoSteps, Coordinator, Frames,
           Move, threadVars, startupVars, waiterVars, portVars, ioVars, countVars,
           eventVars, worldVars, restVars, driverVars, dataVars
<1>1. CASE NothingToDisconnect(t)
  BY <1>1 DEF NothingToDisconnect
<1>2. CASE JoinIoThread(t)
  <2>1. pc[t] = "join" /\ t # Io /\ joinable' = FALSE
    BY <1>2 DEF JoinIoThread
  <2>2. pc' = [pc EXCEPT ![t] = "close", ![Io] = "none"]
    BY <1>2 DEF JoinIoThread
  <2>3. pc'[Io] = "none" /\ pc'[t] = "close" /\ \A q \in Threads \ {t} : pc'[q] = pc[q]
    BY <2>1, <2>2
  <2>4. TypeOK'
    <3>1. pc' \in [Procs -> ConnectSteps \cup DisconnectSteps \cup IoSteps \cup {"idle"}]
      BY <2>2
    <3>2. UNCHANGED <<threadVars, wasConnected, portVars, stopped, lateRead, batch, worldVars>>
      BY <1>2 DEF JoinIoThread
    <3> HIDE DEF WaiterDiscipline, MutexDiscipline, IoThreadHandle, ChunkHeld, Procs,
                 ConnectSteps, DisconnectSteps, IoSteps, Coordinator, Frames
    <3> QED
      BY <2>1, <3>1, <3>2
  <2>5. IoThreadHandle' /\ ChunkHeld'
    BY <2>1, <2>3
  <2>6. WaiterDiscipline' /\ MutexDiscipline'
    BY <1>2, <2>1, <2>3 DEF JoinIoThread, threadVars
  <2> QED
    BY <2>4, <2>5, <2>6
<1>3. CASE ClosePort(t)
  <2>1. lateRead' \in BOOLEAN /\ line' = <<>> /\ reader' = "none" /\ port' = "null"
    BY <1>3 DEF ClosePort, AbandonRead
  <2>2. Move(t, "close", "restart")
    BY <1>3 DEF ClosePort
  <2>3. UNCHANGED <<threadVars, wasConnected, joinable, stopped, batch, worldVars>>
    BY <1>3 DEF ClosePort
  <2>4. TypeOK'
    BY <2>1, <2>2, <2>3
  <2>5. IoThreadHandle' /\ ChunkHeld'
    BY <2>2, <2>3
  <2>6. WaiterDiscipline' /\ MutexDiscipline'
    BY <2>2, <2>3
  <2> QED
    BY <2>4, <2>5, <2>6
<1>4. CASE RestartIo(t)
  <2>1. TypeOK'
    BY <1>4 DEF RestartIo, Move, portVars, countVars, eventVars
  <2>2. IoThreadHandle' /\ ChunkHeld'
    BY <1>4 DEF RestartIo, Move, portVars, countVars, eventVars
  <2>3. WaiterDiscipline'
    BY <1>4 DEF RestartIo, Move, portVars, countVars, eventVars
  <2>4. MutexDiscipline'
    BY <1>4 DEF RestartIo, Move, portVars, countVars, eventVars
  <2> QED
    BY <2>1, <2>2, <2>3, <2>4
<1>5. CASE FarewellSilently(t)
  BY <1>5 DEF FarewellSilently
<1>6. CASE AnnounceDisconnected(t)
  <2>1. PICK next \in {"idle", "check"} : Move(t, "farewell", next)
    BY <1>6 DEF AnnounceDisconnected, AfterCallback
  <2> QED
    BY <1>6, <2>1 DEF AnnounceDisconnected
<1> QED
  BY <1>1, <1>2, <1>3, <1>4, <1>5, <1>6
  DEF DisconnectTail

\* The I/O thread, outside the callback.
LEMMA IoKeepsInv ==
  ASSUME InductiveInv,
         \/ ReadChunk \/ DispatchFrame \/ EmitFrameEvent \/ CompleteStartup
         \/ RearmRead \/ ReadFails \/ ErrorClearsConnected \/ AnnounceSerialError \/ RunReturns
         \/ TouchDestroyedPort
  PROVE  InductiveInv'
<1> USE ConstantsOK DEF InductiveInv, TypeOK, IoThreadHandle, ChunkHeld,
           WaiterDiscipline, MutexDiscipline, Procs, ConnectSteps, DisconnectSteps,
           IoSteps, Coordinator, Frames,
           Move, threadVars, startupVars, waiterVars, portVars, ioVars, countVars,
           eventVars, worldVars, restVars, driverVars, dataVars
<1>1. CASE ReadChunk
  BY <1>1 DEF ReadChunk
<1>2. CASE DispatchFrame
  <2>1. Head(batch) \in Frames /\ Tail(batch) \in Seq(Frames)
    BY <1>2 DEF DispatchFrame
  <2>2. /\ waiters' \subseteq waiters
        /\ promise' \in [Threads -> BOOLEAN]
        /\ \A t \in waiters' : promise'[t] = promise[t]
    BY <1>2 DEF DispatchFrame, ServeWaiter
  <2>3. /\ pc' = pc \/ pc' = [pc EXCEPT ![Io] = "handle"]
        /\ pc'[Io] = "handle" => batch' = batch
        /\ batch' \in Seq(Frames)
    BY <1>2, <2>1 DEF DispatchFrame, Move
  <2>4. pc'[Io] # "none" /\ \A t \in Threads : pc'[t] = pc[t]
    BY <1>2, <2>3 DEF DispatchFrame
  <2>5. TypeOK'
    BY <1>2, <2>2, <2>3 DEF DispatchFrame, portVars, countVars, eventVars
  <2>6. IoThreadHandle' /\ ChunkHeld'
    BY <1>2, <2>3, <2>4 DEF DispatchFrame
  <2>7. WaiterDiscipline' /\ MutexDiscipline'
    BY <1>2, <2>2, <2>4 DEF DispatchFrame
  <2> QED
    BY <2>5, <2>6, <2>7
<1>3. CASE EmitFrameEvent
  <2>1. PICK next \in {"dispatch", "complete", "check"} : Move(Io, "handle", next)
    BY <1>3 DEF EmitFrameEvent, AfterCallback
  <2>2. batch # <<>> /\ batch' \in {batch, Tail(batch)}
    BY <1>3, <2>1 DEF EmitFrameEvent
  <2>3. batch' \in Seq(Frames)
    <3>1. batch \in Seq(Frames)
      OBVIOUS
    <3> HIDE DEF Frames, TypeOK, InductiveInv
    <3>2. Tail(batch) \in Seq(Frames)
      BY <2>2, <3>1
    <3> QED
      BY <2>2, <3>1, <3>2
  <2>4. UNCHANGED <<threadVars, wasConnected, portVars, joinable, stopped, lateRead, worldVars>>
    BY <1>3 DEF EmitFrameEvent
  <2>5. TypeOK'
    BY <2>1, <2>3, <2>4
  <2>6. IoThreadHandle' /\ WaiterDiscipline' /\ MutexDiscipline'
    BY <2>1, <2>4
  <2>7. ChunkHeld'
    BY <1>3, <2>1 DEF EmitFrameEvent, AfterCallback
  <2> QED
    BY <2>5, <2>6, <2>7
<1>4. CASE CompleteStartup
  BY <1>4 DEF CompleteStartup, StartupMutexFree
<1>5. CASE RearmRead
  BY <1>5 DEF RearmRead
<1>6. CASE ReadFails
  BY <1>6 DEF ReadFails
<1>7. CASE ErrorClearsConnected
  <2>1. Move(Io, "errorStore", "errorEmit")
    BY <1>7 DEF ErrorClearsConnected
  <2>2. connected' = FALSE /\ UNCHANGED <<startupVars, waiterVars, restVars>>
    BY <1>7 DEF ErrorClearsConnected
  <2>3. TypeOK'
    BY <2>1, <2>2
  <2>4. IoThreadHandle' /\ ChunkHeld'
    BY <2>1, <2>2
  <2>5. WaiterDiscipline' /\ MutexDiscipline'
    BY <2>1, <2>2
  <2> QED
    BY <2>3, <2>4, <2>5
<1>8. CASE AnnounceSerialError
  BY <1>8 DEF AnnounceSerialError, AfterCallback
<1>9. CASE RunReturns
  BY <1>9 DEF RunReturns
<1>10. CASE TouchDestroyedPort
  BY <1>10 DEF TouchDestroyedPort
<1> QED
  BY <1>1, <1>2, <1>3, <1>4, <1>5, <1>6, <1>7, <1>8, <1>9, <1>10

\* The coordinator.
LEMMA FirmwareKeepsInv ==
  ASSUME InductiveInv, Firmware \/ CoordinatorReboots \/ CoordinatorTraffic
  PROVE  InductiveInv'
<1> USE ConstantsOK DEF InductiveInv, TypeOK, IoThreadHandle, ChunkHeld,
           WaiterDiscipline, MutexDiscipline, Procs, ConnectSteps, DisconnectSteps,
           IoSteps, Coordinator, Frames,
           Move, threadVars, startupVars, waiterVars, portVars, ioVars, countVars,
           eventVars, worldVars, restVars, driverVars, dataVars
<1>1. CASE CoordinatorBoots
  BY <1>1 DEF CoordinatorBoots, Received
<1>2. CASE CoordinatorStarts
  BY <1>2 DEF CoordinatorStarts, Received
<1>3. CASE CoordinatorTraffic
  BY <1>3 DEF CoordinatorTraffic
<1>4. CASE CoordinatorReboots
  BY <1>4 DEF CoordinatorReboots
<1> QED
  BY <1>1, <1>2, <1>3, <1>4 DEF Firmware

LEMMA NextKeepsInv == InductiveInv /\ [Next]_vars => InductiveInv'
<1> SUFFICES ASSUME InductiveInv, [Next]_vars
             PROVE  InductiveInv'
  OBVIOUS
<1>1. CASE \E t \in Threads : ApplicationCalls(t) \/ ThreadStep(t)
  <2>1. PICK t \in Threads : ApplicationCalls(t) \/ ThreadStep(t)
    BY <1>1
  <2>2. t \in Procs
    BY DEF Procs
  <2> QED
    BY <2>1, <2>2, ConnectKeepsInv, DisconnectKeepsInv, DisconnectTailKeepsInv
    DEF ThreadStep
<1>2. CASE IoStep
  <2>1. Io \in Procs
    BY DEF Procs
  <2> QED
    BY <1>2, <2>1, IoKeepsInv, DisconnectKeepsInv DEF IoStep
<1>3. CASE Firmware \/ CoordinatorReboots \/ CoordinatorTraffic
  BY <1>3, FirmwareKeepsInv
<1>4. CASE UNCHANGED vars
  BY <1>4
  DEF vars, threadVars, startupVars, waiterVars, portVars, ioVars, countVars, eventVars,
      worldVars, driverVars, dataVars,
      InductiveInv, TypeOK, IoThreadHandle, ChunkHeld, WaiterDiscipline, MutexDiscipline
<1> QED
  BY <1>1, <1>2, <1>3, <1>4 DEF Next

LEMMA InductiveInvariant == Spec => []InductiveInv
BY InitEstablishesInv, NextKeepsInv, PTL DEF Spec

-----------------------------------------------------------------------------
(***************************************************************************)
(* The theorems                                                            *)
(***************************************************************************)

\* Type correctness.
THEOREM TypeCorrect == Spec => []TypeOK
<1>1. InductiveInv => TypeOK
  BY DEF InductiveInv
<1> QED
  BY <1>1, InductiveInvariant, PTL

\* However many threads call connect() at once, a waiter belongs to a call that
\* is waiting, and no promise is ever set a second time.
THEOREM WaitersAreDisciplined == Spec => []WaiterDiscipline
<1>1. InductiveInv => WaiterDiscipline
  BY DEF InductiveInv
<1> QED
  BY <1>1, InductiveInvariant, PTL

\* startupMutex_ is held between two steps only inside the disconnect() that an
\* expired start-up wait calls.
THEOREM MutexIsDisciplined == Spec => []MutexDiscipline
<1>1. InductiveInv => MutexDiscipline
  BY DEF InductiveInv
<1> QED
  BY <1>1, InductiveInvariant, PTL

\* A frame is handed only to a connect() whose wait has not been given up and flagged.
THEOREM FramesReachTheirCalls == Spec => FramesReachLiveCalls
<1> DEFINE Handed == \A t \in Threads :
             promise'[t] /\ ~promise[t] => pc[t] \in {"await", "expired"}
<1>1. InductiveInv /\ [Next]_vars => Handed
  <2> SUFFICES ASSUME InductiveInv, [Next]_vars, NEW u \in Threads,
                      promise'[u], ~promise[u]
               PROVE  pc[u] \in {"await", "expired"}
    OBVIOUS
  <2> USE DEF threadVars, startupVars, waiterVars, portVars, ioVars, countVars,
              eventVars, worldVars, restVars, driverVars, dataVars
  <2>1. CASE DispatchFrame
    <3>1. u \in waiters \ Cancelled
      BY <2>1 DEF DispatchFrame, ServeWaiter, InductiveInv, TypeOK
    <3> QED
      BY <3>1 DEF Cancelled, InductiveInv, WaiterDiscipline
  <2>2. ASSUME NEW t \in Threads, RegisterWaiter(t)
        PROVE  FALSE
    BY <2>2 DEF RegisterWaiter, InductiveInv, TypeOK
  <2>3. ASSUME promise' = promise
        PROVE  FALSE
    BY <2>3
  <2>4. CASE \E t \in Threads : ApplicationCalls(t) \/ ConnectStep(t)
    BY <2>2, <2>3, <2>4
    DEF ApplicationCalls, ConnectRefused, ConnectCall, DisconnectCall, ConnectStep,
        OpenPort, StartIoThread, SysReset, FrameReceived, ResetWaitExpires,
        CancelOwnWaiter, DropWaiter, StartupFromApp, CoordinatorIsUp,
        StartupWaitExpires, MarkConnected, AnnounceConnected
  <2>5. CASE \E p \in Procs : DisconnectStep(p)
    BY <2>3, <2>5
    DEF DisconnectStep, BeginDisconnect, ExchangeConnected, CancelWaiters,
        UnblockStartup, StopIo, TestJoinable, JoinThrows
  <2>6. CASE \E t \in Threads : DisconnectTail(t)
    BY <2>3, <2>6
    DEF DisconnectTail, NothingToDisconnect, JoinIoThread, ClosePort, RestartIo,
        FarewellSilently, AnnounceDisconnected
  <2>7. CASE IoStep
    BY <2>1, <2>3, <2>5, <2>7
    DEF IoStep, Procs, ReadChunk, EmitFrameEvent, CompleteStartup, RearmRead, ReadFails,
        ErrorClearsConnected, AnnounceSerialError, RunReturns, TouchDestroyedPort
  <2>8. CASE Firmware \/ CoordinatorReboots \/ CoordinatorTraffic
    BY <2>3, <2>8
    DEF Firmware, CoordinatorBoots, CoordinatorStarts, CoordinatorReboots,
        CoordinatorTraffic
  <2>9. CASE UNCHANGED vars
    BY <2>3, <2>9 DEF vars
  <2> QED
    BY <2>4, <2>5, <2>6, <2>7, <2>8, <2>9 DEF Next, ThreadStep, Procs
<1>2. Handed => [Handed]_vars
  OBVIOUS
<1> QED
  BY <1>1, InductiveInvariant, PTL DEF Spec, FramesReachLiveCalls

-----------------------------------------------------------------------------
(***************************************************************************)
(* The end of a session is announced by one thread only                    *)
(***************************************************************************)
Announcing == {t \in Threads : pc[t] = "announce"}

\* Calls of disconnect() that have taken a session and owe its event.
Owing == {p \in Procs : wasConnected[p]}

ErrorOwes == pc[Io] \in {"errorStore", "errorEmit"}

One(b) == IF b THEN 1 ELSE 0

\* What entitles a thread to announce an end is handed on, not copied: from
\* connected_ to the local of the disconnect() whose exchange took it, or from the
\* failure of the line to onSerialError().
EndsInv ==
  disconnectedEvents + Cardinality(Owing) + One(connected) + One(ErrorOwes)
    <= connectedEvents + Cardinality(Announcing) + errors

LEMMA CountsAreNat ==
  ASSUME TypeOK
  PROVE  /\ IsFiniteSet(Owing) /\ Cardinality(Owing) \in Nat
         /\ IsFiniteSet(Announcing) /\ Cardinality(Announcing) \in Nat
         /\ disconnectedEvents \in Nat /\ connectedEvents \in Nat /\ errors \in Nat
<1>1. IsFiniteSet(Procs)
  BY ConstantsOK, FS_AddElement DEF Procs
<1>2. IsFiniteSet(Owing) /\ IsFiniteSet(Announcing)
  BY <1>1, ConstantsOK, FS_Subset DEF Owing, Announcing
<1> QED
  BY <1>2, FS_CardinalityType, ConstantsOK DEF TypeOK

\* A step that moves no thread into or out of the announcement or the error path, and
\* touches none of the counted variables.
Uncounted ==
  /\ UNCHANGED <<connected, wasConnected, connectedEvents, disconnectedEvents, errors>>
  /\ Announcing' = Announcing
  /\ ErrorOwes' = ErrorOwes

LEMMA UncountedKeepsEnds ==
  ASSUME EndsInv, Uncounted PROVE EndsInv'
BY DEF EndsInv, Uncounted, Owing

\* A move between two steps that are not counted.
LEMMA UncountedMove ==
  ASSUME InductiveInv, NEW p \in Procs, NEW from, NEW to, Move(p, from, to),
         from \notin {"announce", "errorStore", "errorEmit"},
         to \notin {"announce", "errorStore", "errorEmit"},
         UNCHANGED <<connected, wasConnected, connectedEvents, disconnectedEvents, errors>>
  PROVE  Uncounted
BY DEF InductiveInv, TypeOK, Move, Procs, Uncounted, Announcing, ErrorOwes

LEMMA ConnectKeepsEnds ==
  ASSUME InductiveInv, EndsInv, NEW t \in Threads, ApplicationCalls(t) \/ ConnectStep(t)
  PROVE  EndsInv'
<1> USE DEF threadVars, startupVars, waiterVars, portVars, ioVars, countVars,
            eventVars, worldVars, restVars, driverVars, dataVars
<1>1. t \in Procs /\ t # Io /\ TypeOK
  BY ConstantsOK DEF Procs, InductiveInv
<1>2. CASE MarkConnected(t)
  <2>1. Move(t, "mark", "announce")
        /\ connected' = TRUE
        /\ UNCHANGED <<wasConnected, connectedEvents, disconnectedEvents, errors>>
    BY <1>2 DEF MarkConnected
  <2>2. Announcing' = Announcing \cup {t} /\ t \notin Announcing /\ ErrorOwes' = ErrorOwes
    BY <1>1, <2>1 DEF Move, TypeOK, Procs, Announcing, ErrorOwes
  <2>3. Cardinality(Announcing') = Cardinality(Announcing) + 1
    BY <1>1, <2>2, CountsAreNat, FS_AddElement
  <2>4. Owing' = Owing
    BY <2>1 DEF Owing
  <2> QED
    BY <1>1, <2>1, <2>2, <2>3, <2>4, CountsAreNat DEF EndsInv, One, TypeOK
<1>3. CASE AnnounceConnected(t)
  <2>1. PICK next \in {"idle", "check"} : Move(t, "announce", next)
    BY <1>3 DEF AnnounceConnected, AfterCallback
  <2>2. connectedEvents' = connectedEvents + 1
        /\ UNCHANGED <<connected, wasConnected, disconnectedEvents, errors>>
    BY <1>3 DEF AnnounceConnected
  <2>3. Announcing' = Announcing \ {t} /\ t \in Announcing /\ ErrorOwes' = ErrorOwes
    BY <1>1, <2>1 DEF Move, TypeOK, Procs, Announcing, ErrorOwes
  <2>4. Cardinality(Announcing') = Cardinality(Announcing) - 1
    BY <1>1, <2>3, CountsAreNat, FS_RemoveElement
  <2>5. Owing' = Owing
    BY <2>2 DEF Owing
  <2> QED
    BY <1>1, <2>2, <2>3, <2>4, <2>5, CountsAreNat DEF EndsInv, One, TypeOK
<1>4. CASE StartIoThread(t)
  <2>1. UNCHANGED <<connected, wasConnected, connectedEvents, disconnectedEvents, errors>>
    BY <1>4 DEF StartIoThread
  <2>2. Announcing' = Announcing /\ Owing' = Owing
    <3>1. pc[t] = "spawn" /\ (pc' = pc \/ pc' = [pc EXCEPT ![t] = "reset", ![Io] = "run"])
      BY <1>4 DEF StartIoThread
    <3>2. \A u \in Threads : pc'[u] = "announce" <=> pc[u] = "announce"
      BY <1>1, <3>1, ConstantsOK DEF TypeOK, Procs
    <3> QED
      BY <2>1, <3>2 DEF Announcing, Owing
  <2>3. ErrorOwes' => ErrorOwes
    BY <1>1, <1>4 DEF StartIoThread, TypeOK, Procs, ErrorOwes
  <2> QED
    BY <1>1, <2>1, <2>2, <2>3, CountsAreNat DEF EndsInv, One
<1>5. CASE ConnectRefused(t)
  BY <1>5, UncountedKeepsEnds DEF ConnectRefused, Uncounted, Announcing, ErrorOwes
<1>6. CASE ConnectCall(t) \/ DisconnectCall(t)
  BY <1>1, <1>6, UncountedMove, UncountedKeepsEnds DEF ConnectCall, DisconnectCall
<1>7. CASE OpenPort(t) \/ SysReset(t) \/ RegisterWaiter(t) \/ FrameReceived(t)
  BY <1>1, <1>7, UncountedMove, UncountedKeepsEnds
  DEF OpenPort, SysReset, RegisterWaiter, FrameReceived
<1>8. CASE ResetWaitExpires(t) \/ CancelOwnWaiter(t) \/ DropWaiter(t)
  BY <1>1, <1>8, UncountedMove, UncountedKeepsEnds
  DEF ResetWaitExpires, CancelOwnWaiter, DropWaiter
<1>9. CASE StartupFromApp(t) \/ CoordinatorIsUp(t) \/ StartupWaitExpires(t)
  BY <1>1, <1>9, UncountedMove, UncountedKeepsEnds
  DEF StartupFromApp, CoordinatorIsUp, StartupWaitExpires
<1> QED
  BY <1>2, <1>3, <1>4, <1>5, <1>6, <1>7, <1>8, <1>9 DEF ApplicationCalls, ConnectStep

LEMMA DisconnectKeepsEnds ==
  ASSUME InductiveInv, EndsInv, NEW p \in Procs, DisconnectStep(p)
  PROVE  EndsInv'
<1> USE DEF threadVars, startupVars, waiterVars, portVars, ioVars, countVars,
            eventVars, worldVars, restVars, driverVars, dataVars
<1>1. TypeOK
  BY DEF InductiveInv
<1>2. CASE ExchangeConnected(p)
  <2>1. Move(p, "exchange", "cancel")
        /\ wasConnected' = [wasConnected EXCEPT ![p] = connected] /\ connected' = FALSE
        /\ UNCHANGED <<connectedEvents, disconnectedEvents, errors>>
    BY <1>2 DEF ExchangeConnected
  <2>2. Announcing' = Announcing /\ ErrorOwes' = ErrorOwes
    BY <1>1, <2>1 DEF Move, TypeOK, Procs, Announcing, ErrorOwes
  <2>3. Cardinality(Owing') <= Cardinality(Owing) + One(connected)
        /\ Cardinality(Owing') \in Nat
    <3>1. CASE connected
      <4>1. Owing' = Owing \cup {p}
        BY <1>1, <2>1, <3>1 DEF TypeOK, Owing
      <4> QED
        BY <1>1, <3>1, <4>1, CountsAreNat, FS_AddElement DEF One
    <3>2. CASE ~connected
      <4>1. Owing' = Owing \ {p}
        BY <1>1, <2>1, <3>2 DEF TypeOK, Owing
      <4>2. IsFiniteSet(Owing \ {p}) /\ Cardinality(Owing \ {p}) <= Cardinality(Owing)
        <5>1. IsFiniteSet(Owing) /\ Cardinality(Owing) \in Nat
          BY <1>1, CountsAreNat
        <5> QED
          BY <5>1, FS_Subset
      <4>3. Cardinality(Owing \ {p}) \in Nat
        BY <4>2, FS_CardinalityType
      <4> QED
        BY <1>1, <3>2, <4>1, <4>2, <4>3, CountsAreNat DEF One
    <3> QED
      BY <3>1, <3>2
  <2> QED
    BY <1>1, <2>1, <2>2, <2>3, CountsAreNat DEF EndsInv, One, TypeOK
<1>3. CASE JoinThrows(p)
  BY <1>3, UncountedKeepsEnds DEF JoinThrows, Uncounted, Announcing, ErrorOwes
<1>4. CASE BeginDisconnect(p) \/ CancelWaiters(p) \/ UnblockStartup(p) \/ StopIo(p)
  BY <1>4, UncountedMove, UncountedKeepsEnds
  DEF BeginDisconnect, CancelWaiters, UnblockStartup, StopIo
<1>5. CASE TestJoinable(p)
  <2>1. PICK next \in {"join", "close"} : Move(p, "joinable", next)
    BY <1>5 DEF TestJoinable
  <2> QED
    BY <1>5, <2>1, UncountedMove, UncountedKeepsEnds DEF TestJoinable
<1> QED
  BY <1>2, <1>3, <1>4, <1>5 DEF DisconnectStep

LEMMA DisconnectTailKeepsEnds ==
  ASSUME InductiveInv, EndsInv, NEW t \in Threads, DisconnectTail(t)
  PROVE  EndsInv'
<1> USE DEF threadVars, startupVars, waiterVars, portVars, ioVars, countVars,
            eventVars, worldVars, restVars, driverVars, dataVars
<1>1. t \in Procs /\ t # Io /\ TypeOK
  BY ConstantsOK DEF Procs, InductiveInv
<1>2. CASE AnnounceDisconnected(t)
  <2>1. PICK next \in {"idle", "check"} : Move(t, "farewell", next)
    BY <1>2 DEF AnnounceDisconnected, AfterCallback
  <2>2. /\ wasConnected[t] /\ wasConnected' = [wasConnected EXCEPT ![t] = FALSE]
        /\ disconnectedEvents' = disconnectedEvents + 1
        /\ UNCHANGED <<connected, connectedEvents, errors>>
    BY <1>2 DEF AnnounceDisconnected
  <2>3. Announcing' = Announcing /\ ErrorOwes' = ErrorOwes
    BY <1>1, <2>1 DEF Move, TypeOK, Procs, Announcing, ErrorOwes
  <2>4. Owing' = Owing \ {t} /\ t \in Owing
    BY <1>1, <2>2 DEF TypeOK, Owing
  <2>5. Cardinality(Owing') = Cardinality(Owing) - 1
    BY <1>1, <2>4, CountsAreNat, FS_RemoveElement
  <2> QED
    BY <1>1, <2>2, <2>3, <2>5, CountsAreNat DEF EndsInv, One, TypeOK
<1>3. CASE JoinIoThread(t)
  <2>1. UNCHANGED <<connected, wasConnected, connectedEvents, disconnectedEvents, errors>>
    BY <1>3 DEF JoinIoThread
  <2>2. Announcing' = Announcing /\ ErrorOwes' = ErrorOwes
    BY <1>1, <1>3 DEF JoinIoThread, TypeOK, Procs, Announcing, ErrorOwes
  <2> QED
    BY <2>1, <2>2, UncountedKeepsEnds DEF Uncounted
<1>4. CASE NothingToDisconnect(t) \/ ClosePort(t) \/ RestartIo(t) \/ FarewellSilently(t)
  BY <1>1, <1>4, UncountedMove, UncountedKeepsEnds
  DEF NothingToDisconnect, ClosePort, RestartIo, FarewellSilently
<1> QED
  BY <1>2, <1>3, <1>4 DEF DisconnectTail

LEMMA IoKeepsEnds ==
  ASSUME InductiveInv, EndsInv, IoStep, ~DisconnectStep(Io)
  PROVE  EndsInv'
<1> USE DEF threadVars, startupVars, waiterVars, portVars, ioVars, countVars,
            eventVars, worldVars, restVars, driverVars, dataVars
<1>1. Io \in Procs /\ TypeOK
  BY DEF Procs, InductiveInv
<1>3. CASE ReadFails
  <2>1. Move(Io, "run", IF connected THEN "errorStore" ELSE "run")
        /\ errors' = errors + 1
        /\ UNCHANGED <<connected, wasConnected, connectedEvents, disconnectedEvents>>
    BY <1>3 DEF ReadFails
  <2>2. Announcing' = Announcing /\ Owing' = Owing
    BY <1>1, <2>1, ConstantsOK DEF Move, TypeOK, Announcing, Owing
  <2> QED
    BY <1>1, <2>1, <2>2, CountsAreNat DEF EndsInv, One
<1>4. CASE ErrorClearsConnected
  <2>1. Move(Io, "errorStore", "errorEmit") /\ connected' = FALSE
        /\ UNCHANGED <<wasConnected, connectedEvents, disconnectedEvents, errors>>
    BY <1>4 DEF ErrorClearsConnected
  <2>2. Announcing' = Announcing /\ Owing' = Owing /\ ErrorOwes
    BY <1>1, <2>1, ConstantsOK DEF Move, TypeOK, Announcing, Owing, ErrorOwes
  <2> QED
    BY <1>1, <2>1, <2>2, CountsAreNat DEF EndsInv, One
<1>5. CASE AnnounceSerialError
  <2>1. PICK next \in {"run", "check"} : Move(Io, "errorEmit", next)
    BY <1>5 DEF AnnounceSerialError, AfterCallback
  <2>2. disconnectedEvents' = disconnectedEvents + 1
        /\ UNCHANGED <<connected, wasConnected, connectedEvents, errors>>
    BY <1>5 DEF AnnounceSerialError
  <2>3. Announcing' = Announcing /\ Owing' = Owing /\ ErrorOwes /\ ~ErrorOwes'
    BY <1>1, <2>1, <2>2, ConstantsOK DEF Move, TypeOK, Announcing, Owing, ErrorOwes
  <2> QED
    BY <1>1, <2>2, <2>3, CountsAreNat DEF EndsInv, One
<1>6. CASE DispatchFrame
  <2>1. UNCHANGED <<connected, wasConnected, connectedEvents, disconnectedEvents, errors>>
    BY <1>6 DEF DispatchFrame
  <2>2. CASE UNCHANGED pc
    BY <2>1, <2>2, UncountedKeepsEnds DEF Uncounted, Announcing, ErrorOwes
  <2>3. CASE Move(Io, "dispatch", "handle")
    BY <1>1, <2>1, <2>3, UncountedMove, UncountedKeepsEnds
  <2> QED
    BY <1>6, <2>2, <2>3 DEF DispatchFrame
<1>7. CASE EmitFrameEvent
  <2>1. PICK next \in {"complete", "dispatch", "check"} : Move(Io, "handle", next)
    BY <1>7 DEF EmitFrameEvent, AfterCallback
  <2> QED
    BY <1>1, <1>7, <2>1, UncountedMove, UncountedKeepsEnds DEF EmitFrameEvent
<1>8. CASE ReadChunk \/ CompleteStartup \/ RearmRead \/ RunReturns \/ TouchDestroyedPort
  BY <1>1, <1>8, UncountedMove, UncountedKeepsEnds
  DEF ReadChunk, CompleteStartup, RearmRead, RunReturns, TouchDestroyedPort
<1> QED
  BY <1>3, <1>4, <1>5, <1>6, <1>7, <1>8 DEF IoStep

\* Whatever calls and callbacks race, no end is announced that no session, and no
\* failure of the line, accounts for.
THEOREM EndsAreAccounted == Spec => []EndsAccounted
<1>1. Init => EndsInv
  <2> SUFFICES ASSUME Init PROVE EndsInv
    OBVIOUS
  <2>1. Owing = {} /\ Announcing = {} /\ ~ErrorOwes
    BY ConstantsOK DEF Init, Owing, Announcing, ErrorOwes, Procs
  <2> QED
    BY <2>1, FS_EmptySet DEF Init, EndsInv, One
<1>2. InductiveInv /\ EndsInv /\ [Next]_vars => EndsInv'
  <2> SUFFICES ASSUME InductiveInv, EndsInv, [Next]_vars PROVE EndsInv'
    OBVIOUS
  <2>1. CASE \E t \in Threads : ApplicationCalls(t) \/ ThreadStep(t)
    BY <2>1, ConnectKeepsEnds, DisconnectKeepsEnds, DisconnectTailKeepsEnds
    DEF ThreadStep, Procs
  <2>2. CASE IoStep
    BY <2>2, IoKeepsEnds, DisconnectKeepsEnds DEF Procs
  <2>3. CASE Firmware \/ CoordinatorReboots \/ CoordinatorTraffic
    <3>1. UNCHANGED <<pc, connected, wasConnected, connectedEvents, disconnectedEvents, errors>>
      BY <2>3
      DEF Firmware, CoordinatorBoots, CoordinatorStarts, CoordinatorReboots,
          CoordinatorTraffic, threadVars, countVars, eventVars, worldVars, driverVars
    <3> QED
      BY <3>1, UncountedKeepsEnds DEF Uncounted, Announcing, ErrorOwes
  <2>4. CASE UNCHANGED vars
    BY <2>4, UncountedKeepsEnds
    DEF Uncounted, Announcing, ErrorOwes, vars, threadVars, countVars, eventVars,
        worldVars, driverVars, dataVars
  <2> QED
    BY <2>1, <2>2, <2>3, <2>4 DEF Next
<1>3. InductiveInv /\ EndsInv => EndsAccounted
  <2> SUFFICES ASSUME InductiveInv, EndsInv PROVE EndsAccounted
    OBVIOUS
  <2> QED
    BY CountsAreNat DEF InductiveInv, EndsInv, EndsAccounted, One, Announcing
<1> QED
  BY <1>1, <1>2, <1>3, InductiveInvariant, PTL DEF Spec
=============================================================================
