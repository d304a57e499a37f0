------------------------- MODULE DongleSessionProofs -------------------------
(***************************************************************************)
(* Theorems about DongleLifecycle when one thread of the application makes *)
(* all the calls and the event callback makes none, which is the use the   *)
(* header shows.  They hold for any number of connect() calls, any state   *)
(* the coordinator is found in and any timed wait expiring or not, unless  *)
(* a theorem says otherwise.                                               *)
(***************************************************************************)
EXTENDS DongleLifecycleProofs

OneCaller(t) == Threads = {t} /\ ~CallbackDisconnects

(***************************************************************************)
(* What is true of the session at every step of the caller                 *)
(***************************************************************************)
Operating   == {"reset", "listen", "await", "expired", "cancelled", "startup",
                "awaitCoord", "mark", "announce"}
Stopping    == {"joinable", "join", "close", "restart"}
MayConnect  == {"idle", "announce", "check", "exchange"}

SessionInv(t) ==
  /\ pc[Io] \in IoSteps
  /\ ConnectedUsable
  /\ connected => pc[t] \in MayConnect
  /\ pc[t] \in Operating => port = "open" /\ joinable
  /\ pc[t] = "spawn" => port = "open"
  /\ stopped <=> pc[t] \in Stopping
  /\ pc[t] = "join" => joinable
  /\ terminated => pc[t] = "spawn"

\* Besides, while the line has not failed (errors = 0): the I/O thread runs exactly while a
\* session is up or being set up or taken down, and the events count the sessions.
QuietInv(t) ==
  /\ pc[Io] \notin {"errorStore", "errorEmit"}
  /\ pc[t] \in {"idle", "announce"} /\ joinable => connected
  /\ pc[t] \in {"open", "spawn", "close", "restart", "farewell"} => ~joinable
  /\ ~terminated
  /\ wasConnected[t] => pc[t] \in {"cancel", "unblock", "stop", "farewell"} \cup Stopping
  /\ connectedEvents - disconnectedEvents =
       IF (connected /\ pc[t] # "announce") \/ wasConnected[t] THEN 1 ELSE 0

\* Every step keeps the session consistent.
LEMMA StepKeepsSession ==
  ASSUME NEW t, OneCaller(t), InductiveInv, SessionInv(t), [Next]_vars
  PROVE  SessionInv(t)'
<1>1. /\ t \in Procs /\ Io \in Procs /\ t # Io /\ Procs = {t, Io} /\ Threads = {t}
      /\ ~CallbackDisconnects
  BY ConstantsOK DEF OneCaller, Procs
<1>2. /\ DOMAIN pc = Procs /\ pc = [p \in Procs |-> pc[p]]
      /\ wasConnected \in [Procs -> BOOLEAN]
      /\ connectedEvents \in Nat /\ disconnectedEvents \in Nat
      /\ joinable <=> pc[Io] # "none"
      /\ errors \in 0 .. MaxReadErrors
      /\ connected \in BOOLEAN /\ joinable \in BOOLEAN /\ stopped \in BOOLEAN
  BY DEF InductiveInv, TypeOK, IoThreadHandle
<1> USE <1>1, <1>2 DEF SessionInv, ConnectedUsable, Operating, Stopping, MayConnect, IoSteps,
           Move, threadVars, startupVars, waiterVars, portVars, ioVars, countVars,
           eventVars, worldVars, restVars, driverVars, dataVars
<1>3. CASE ConnectRefused(t)
  BY <1>3 DEF ConnectRefused
<1>4. CASE ConnectCall(t)
  BY <1>4 DEF ConnectCall
<1>5. CASE DisconnectCall(t)
  BY <1>5 DEF DisconnectCall
<1>6. CASE OpenPort(t)
  BY <1>6 DEF OpenPort
<1>7. CASE StartIoThread(t)
  <2>1. CASE joinable
    BY <1>7, <2>1 DEF StartIoThread, Terminate
  <2>2. CASE ~joinable
    <3>1. pc'[t] = "reset" /\ pc'[Io] = "run" /\ pc[t] = "spawn"
      BY <1>7, <2>2 DEF StartIoThread
    <3>2. ~terminated
      BY <3>1 DEF Next, Running, vars
    <3> QED
      BY <1>7, <2>2, <3>1, <3>2 DEF StartIoThread
  <2> QED
    BY <2>1, <2>2
<1>8. CASE SysReset(t)
  BY <1>8 DEF SysReset, CanSend
<1>9. CASE RegisterWaiter(t)
  BY <1>9 DEF RegisterWaiter
<1>10. CASE FrameReceived(t)
  BY <1>10 DEF FrameReceived
<1>11. CASE ResetWaitExpires(t)
  BY <1>11 DEF ResetWaitExpires
<1>12. CASE DropWaiter(t)
  BY <1>12 DEF DropWaiter
<1>45. CASE CancelOwnWaiter(t)
  BY <1>45 DEF CancelOwnWaiter
<1>13. CASE StartupFromApp(t)
  BY <1>13 DEF StartupFromApp, CanSend
<1>14. CASE CoordinatorIsUp(t)
  BY <1>14 DEF CoordinatorIsUp, StartupMutexFree
<1>15. CASE StartupWaitExpires(t)
  BY <1>15 DEF StartupWaitExpires, StartupMutexFree
<1>16. CASE MarkConnected(t)
  BY <1>16 DEF MarkConnected
<1>17. CASE AnnounceConnected(t)
  BY <1>17 DEF AnnounceConnected, AfterCallback
<1>18. CASE NothingToDisconnect(t)
  BY <1>18 DEF NothingToDisconnect
<1>19. CASE JoinIoThread(t)
  BY <1>19 DEF JoinIoThread
<1>20. CASE ClosePort(t)
  BY <1>20 DEF ClosePort
<1>21. CASE RestartIo(t)
  BY <1>21 DEF RestartIo
<1>22. CASE FarewellSilently(t)
  BY <1>22 DEF FarewellSilently
<1>23. CASE AnnounceDisconnected(t)
  BY <1>23 DEF AnnounceDisconnected, AfterCallback
<1>24. ASSUME NEW p \in Procs, BeginDisconnect(p)
      PROVE  SessionInv(t)'
  BY <1>24 DEF BeginDisconnect
<1>25. ASSUME NEW p \in Procs, ExchangeConnected(p)
      PROVE  SessionInv(t)'
  BY <1>25 DEF ExchangeConnected
<1>26. ASSUME NEW p \in Procs, CancelWaiters(p)
      PROVE  SessionInv(t)'
  BY <1>26 DEF CancelWaiters
<1>27. ASSUME NEW p \in Procs, UnblockStartup(p)
      PROVE  SessionInv(t)'
  BY <1>27 DEF UnblockStartup, StartupMutexFree
<1>28. ASSUME NEW p \in Procs, StopIo(p)
      PROVE  SessionInv(t)'
  BY <1>28 DEF StopIo
<1>29. ASSUME NEW p \in Procs, TestJoinable(p)
      PROVE  SessionInv(t)'
  BY <1>29 DEF TestJoinable
<1>30. ASSUME NEW p \in Procs, JoinThrows(p)
      PROVE  SessionInv(t)'
  BY <1>30 DEF JoinThrows, Terminate
<1>31. CASE ReadChunk
  BY <1>31 DEF ReadChunk
<1>32. CASE DispatchFrame
  BY <1>32 DEF DispatchFrame, ServeWaiter
<1>33. CASE EmitFrameEvent
  BY <1>33 DEF EmitFrameEvent, AfterCallback
<1>34. CASE CompleteStartup
  BY <1>34 DEF CompleteStartup, StartupMutexFree
<1>35. CASE RearmRead
  BY <1>35 DEF RearmRead
<1>36. CASE ReadFails
  BY <1>36 DEF ReadFails
<1>37. CASE ErrorClearsConnected
  BY <1>37 DEF ErrorClearsConnected
<1>38. CASE AnnounceSerialError
  BY <1>38 DEF AnnounceSerialError, AfterCallback
<1>39. CASE RunReturns
  BY <1>39 DEF RunReturns
<1>46. CASE TouchDestroyedPort
  BY <1>46 DEF TouchDestroyedPort
<1>40. CASE CoordinatorBoots
  BY <1>40 DEF CoordinatorBoots, Received
<1>41. CASE CoordinatorStarts
  BY <1>41 DEF CoordinatorStarts, Received
<1>42. CASE CoordinatorTraffic
  BY <1>42 DEF CoordinatorTraffic
<1>44. CASE CoordinatorReboots
  BY <1>44 DEF CoordinatorReboots
<1>43. CASE UNCHANGED vars
  BY <1>43 DEF vars, threadVars, portVars, ioVars, countVars, eventVars
<1> QED
  BY <1>3, <1>4, <1>5, <1>6, <1>7, <1>8, <1>9, <1>10, <1>11, <1>12, <1>13,
      <1>14, <1>15, <1>16, <1>17, <1>18, <1>19, <1>20, <1>21, <1>22, <1>23,
      <1>24, <1>25, <1>26, <1>27, <1>28, <1>29, <1>30, <1>31, <1>32, <1>33,
      <1>34, <1>35, <1>36, <1>37, <1>38, <1>39, <1>40, <1>41, <1>42, <1>43, <1>44, <1>45,
      <1>46
  DEF Next, ApplicationCalls, ThreadStep, ConnectStep, DisconnectStep, DisconnectTail,
      IoStep, Firmware

\* Every step keeps the rest while the line does not fail.
LEMMA StepStaysQuiet ==
  ASSUME NEW t, OneCaller(t), InductiveInv, SessionInv(t), QuietInv(t),
         errors = 0, errors' = 0, [Next]_vars
  PROVE  QuietInv(t)'
<1>1. /\ t \in Procs /\ Io \in Procs /\ t # Io /\ Procs = {t, Io} /\ Threads = {t}
      /\ ~CallbackDisconnects
  BY ConstantsOK DEF OneCaller, Procs
<1>2. /\ DOMAIN pc = Procs /\ pc = [p \in Procs |-> pc[p]]
      /\ wasConnected \in [Procs -> BOOLEAN]
      /\ connectedEvents \in Nat /\ disconnectedEvents \in Nat
      /\ joinable <=> pc[Io] # "none"
      /\ errors \in 0 .. MaxReadErrors
      /\ connected \in BOOLEAN /\ joinable \in BOOLEAN /\ stopped \in BOOLEAN
  BY DEF InductiveInv, TypeOK, IoThreadHandle
<1> USE <1>1, <1>2 DEF SessionInv, ConnectedUsable, QuietInv, Operating, Stopping, MayConnect, IoSteps,
           Move, threadVars, startupVars, waiterVars, portVars, ioVars, countVars,
           eventVars, worldVars, restVars, driverVars, dataVars
<1>3. CASE ConnectRefused(t)
  BY <1>3 DEF ConnectRefused
<1>4. CASE ConnectCall(t)
  BY <1>4 DEF ConnectCall
<1>5. CASE DisconnectCall(t)
  BY <1>5 DEF DisconnectCall
<1>6. CASE OpenPort(t)
  BY <1>6 DEF OpenPort
<1>7. CASE StartIoThread(t)
  BY <1>7 DEF StartIoThread, Terminate
<1>8. CASE SysReset(t)
  BY <1>8 DEF SysReset, CanSend
<1>9. CASE RegisterWaiter(t)
  BY <1>9 DEF RegisterWaiter
<1>10. CASE FrameReceived(t)
  BY <1>10 DEF FrameReceived
<1>11. CASE ResetWaitExpires(t)
  BY <1>11 DEF ResetWaitExpires
<1>12. CASE DropWaiter(t)
  BY <1>12 DEF DropWaiter
<1>45. CASE CancelOwnWaiter(t)
  BY <1>45 DEF CancelOwnWaiter
<1>13. CASE StartupFromApp(t)
  BY <1>13 DEF StartupFromApp, CanSend
<1>14. CASE CoordinatorIsUp(t)
  BY <1>14 DEF CoordinatorIsUp, StartupMutexFree
<1>15. CASE StartupWaitExpires(t)
  BY <1>15 DEF StartupWaitExpires, StartupMutexFree
<1>16. CASE MarkConnected(t)
  BY <1>16 DEF MarkConnected
<1>17. CASE AnnounceConnected(t)
  <2>1. pc[t] = "announce" /\ pc'[t] = "idle" /\ pc'[Io] = pc[Io]
    BY <1>17 DEF AnnounceConnected, AfterCallback
  <2>2. connectedEvents' = connectedEvents + 1
    BY <1>17 DEF AnnounceConnected
  <2> QED
    BY <1>17, <2>1, <2>2 DEF AnnounceConnected
<1>18. CASE NothingToDisconnect(t)
  BY <1>18 DEF NothingToDisconnect
<1>19. CASE JoinIoThread(t)
  BY <1>19 DEF JoinIoThread
<1>20. CASE ClosePort(t)
  BY <1>20 DEF ClosePort
<1>21. CASE RestartIo(t)
  BY <1>21 DEF RestartIo
<1>22. CASE FarewellSilently(t)
  BY <1>22 DEF FarewellSilently
<1>23. CASE AnnounceDisconnected(t)
  <2>1. pc[t] = "farewell" /\ pc'[t] = "idle" /\ pc'[Io] = pc[Io]
    BY <1>23 DEF AnnounceDisconnected, AfterCallback, Move
  <2>2. wasConnected[t] /\ ~wasConnected'[t] /\ disconnectedEvents' = disconnectedEvents + 1
    BY <1>23 DEF AnnounceDisconnected
  <2>3. UNCHANGED <<connected, joinable, connectedEvents, terminated>>
    BY <1>23 DEF AnnounceDisconnected, threadVars, ioVars
  <2>4. ~connected /\ ~joinable
    BY <2>1
  <2>5. connectedEvents - disconnectedEvents = 1
    BY <2>2
  <2> QED
    BY <2>1, <2>2, <2>3, <2>4, <2>5
<1>24. ASSUME NEW p \in Procs, BeginDisconnect(p)
      PROVE  QuietInv(t)'
  BY <1>24 DEF BeginDisconnect
<1>25. ASSUME NEW p \in Procs, ExchangeConnected(p)
      PROVE  QuietInv(t)'
  BY <1>25 DEF ExchangeConnected
<1>26. ASSUME NEW p \in Procs, CancelWaiters(p)
      PROVE  QuietInv(t)'
  BY <1>26 DEF CancelWaiters
<1>27. ASSUME NEW p \in Procs, UnblockStartup(p)
      PROVE  QuietInv(t)'
  BY <1>27 DEF UnblockStartup, StartupMutexFree
<1>28. ASSUME NEW p \in Procs, StopIo(p)
      PROVE  QuietInv(t)'
  BY <1>28 DEF StopIo
<1>29. ASSUME NEW p \in Procs, TestJoinable(p)
      PROVE  QuietInv(t)'
  BY <1>29 DEF TestJoinable
<1>30. ASSUME NEW p \in Procs, JoinThrows(p)
      PROVE  QuietInv(t)'
  BY <1>30 DEF JoinThrows, Terminate
<1>31. CASE ReadChunk
  BY <1>31 DEF ReadChunk
<1>32. CASE DispatchFrame
  BY <1>32 DEF DispatchFrame, ServeWaiter
<1>33. CASE EmitFrameEvent
  BY <1>33 DEF EmitFrameEvent, AfterCallback
<1>34. CASE CompleteStartup
  BY <1>34 DEF CompleteStartup, StartupMutexFree
<1>35. CASE RearmRead
  BY <1>35 DEF RearmRead
<1>36. CASE ReadFails
  BY <1>36 DEF ReadFails
<1>37. CASE ErrorClearsConnected
  BY <1>37 DEF ErrorClearsConnected
<1>38. CASE AnnounceSerialError
  BY <1>38 DEF AnnounceSerialError, AfterCallback
<1>39. CASE RunReturns
  BY <1>39 DEF RunReturns
<1>46. CASE TouchDestroyedPort
  BY <1>46 DEF TouchDestroyedPort
<1>40. CASE CoordinatorBoots
  BY <1>40 DEF CoordinatorBoots, Received
<1>41. CASE CoordinatorStarts
  BY <1>41 DEF CoordinatorStarts, Received
<1>42. CASE CoordinatorTraffic
  BY <1>42 DEF CoordinatorTraffic
<1>44. CASE CoordinatorReboots
  BY <1>44 DEF CoordinatorReboots
<1>43. CASE UNCHANGED vars
  BY <1>43 DEF vars, threadVars, portVars, ioVars, countVars, eventVars
<1> QED
  BY <1>3, <1>4, <1>5, <1>6, <1>7, <1>8, <1>9, <1>10, <1>11, <1>12, <1>13,
      <1>14, <1>15, <1>16, <1>17, <1>18, <1>19, <1>20, <1>21, <1>22, <1>23,
      <1>24, <1>25, <1>26, <1>27, <1>28, <1>29, <1>30, <1>31, <1>32, <1>33,
      <1>34, <1>35, <1>36, <1>37, <1>38, <1>39, <1>40, <1>41, <1>42, <1>43, <1>44, <1>45,
      <1>46
  DEF Next, ApplicationCalls, ThreadStep, ConnectStep, DisconnectStep, DisconnectTail,
      IoStep, Firmware

LEMMA SessionInvariant ==
  ASSUME NEW t, OneCaller(t)
  PROVE  Spec => []SessionInv(t)
<1>1. Init => SessionInv(t)
  BY ConstantsOK
  DEF Init, SessionInv, ConnectedUsable, OneCaller, Procs, IoSteps, Operating, Stopping
<1>2. InductiveInv /\ SessionInv(t) /\ [Next]_vars => SessionInv(t)'
  BY StepKeepsSession
<1> QED
  BY <1>1, <1>2, InductiveInvariant, PTL DEF Spec

\* A failure of the line is never forgotten.
LEMMA ErrorsOnlyGrow ==
  ASSUME NEW t, OneCaller(t), InductiveInv, [Next]_vars, errors' = 0
  PROVE  errors = 0
<1>1. errors \in Nat
  BY ConstantsOK DEF InductiveInv, TypeOK
<1>2. errors' = errors \/ errors' = errors + 1
  BY DEF vars, threadVars, startupVars, waiterVars, portVars, ioVars, countVars,
      eventVars, worldVars, restVars, driverVars, dataVars, OneCaller,
      Next, ApplicationCalls, ThreadStep, ConnectStep, DisconnectStep, DisconnectTail,
      IoStep, Firmware,
      ConnectRefused, ConnectCall, DisconnectCall, OpenPort, StartIoThread, SysReset,
      RegisterWaiter, FrameReceived, ResetWaitExpires, CancelOwnWaiter, DropWaiter,
      StartupFromApp, CoordinatorIsUp, StartupWaitExpires, MarkConnected, AnnounceConnected,
      BeginDisconnect, ExchangeConnected, CancelWaiters, UnblockStartup, StopIo,
      TestJoinable, JoinThrows, NothingToDisconnect, JoinIoThread, ClosePort,
      RestartIo, FarewellSilently, AnnounceDisconnected, ReadChunk, DispatchFrame,
      EmitFrameEvent, CompleteStartup, RearmRead, ReadFails, ErrorClearsConnected,
      AnnounceSerialError, RunReturns, TouchDestroyedPort, CoordinatorBoots, CoordinatorStarts,
      CoordinatorReboots, CoordinatorTraffic
<1> QED
  BY <1>1, <1>2

LEMMA QuietInvariant ==
  ASSUME NEW t, OneCaller(t)
  PROVE  Spec => [](errors = 0 => QuietInv(t))
<1>1. Init => QuietInv(t)
  BY ConstantsOK DEF Init, QuietInv, OneCaller, Procs
<1>2. InductiveInv /\ SessionInv(t) /\ (errors = 0 => QuietInv(t)) /\ [Next]_vars
        => (errors = 0 => QuietInv(t))'
  BY StepStaysQuiet, ErrorsOnlyGrow
<1> QED
  BY <1>1, <1>2, InductiveInvariant, SessionInvariant, PTL DEF Spec

-----------------------------------------------------------------------------
(***************************************************************************)
(* The theorems about a session                                            *)
(***************************************************************************)

\* isConnected() tells the truth, whether or not the serial line fails.
THEOREM ConnectedIsUsable ==
  ASSUME NEW t, OneCaller(t)
  PROVE  Spec => []ConnectedUsable
<1>1. SessionInv(t) => ConnectedUsable
  BY DEF SessionInv
<1> QED
  BY <1>1, SessionInvariant, PTL

\* The only thing that can kill the process is connect() after a serial error: no
\* time-out, no failed request and no disconnect() does (MCreconnectAfterError shows
\* that such a connect() does).
THEOREM SequentialUseIsSafe ==
  ASSUME NEW t, OneCaller(t)
  PROVE  Spec => []OnlyReconnectTerminates
<1>1. InductiveInv /\ SessionInv(t) /\ (errors = 0 => QuietInv(t)) => OnlyReconnectTerminates
  BY ConstantsOK
  DEF InductiveInv, TypeOK, SessionInv, QuietInv, OnlyReconnectTerminates, OneCaller
<1> QED
  BY <1>1, InductiveInvariant, SessionInvariant, QuietInvariant, PTL

\* While the line has not failed, life-cycle events alternate.
THEOREM LifecycleEventsAlternate ==
  ASSUME NEW t, OneCaller(t)
  PROVE  Spec => []EventsAlternate
<1>1. (errors = 0 => QuietInv(t)) => EventsAlternate
  BY DEF QuietInv, EventsAlternate
<1> QED
  BY <1>1, QuietInvariant, PTL

-----------------------------------------------------------------------------
(***************************************************************************)
(* How sessions end: the line may fail and any timed wait may expire,      *)
(* unless a theorem says otherwise                                         *)
(***************************************************************************)
\* What disconnect() has undone at each of its last steps, and who still owes the
\* application a DongleDisconnectedEvent: the session that is up, the disconnect()
\* that took it down, or the error handler that did.
RestInv(t) ==
  /\ pc[Io] \in {"none", "run", "exited", "errorStore", "errorEmit"} => batch = <<>>
  /\ port = "null" => reader = "none" /\ line = <<>>
  /\ port = "null" \/ pc[t] \in {"close", "restart", "farewell"} => ~joinable
  /\ pc[t] \in {"restart", "farewell"} => port = "null"
  /\ port = "open" => joinable \/ pc[t] \in {"spawn", "close"}
  /\ startupComplete => joinable \/ pc[t] \in {"stop"} \cup Stopping
  /\ wasConnected[t] => pc[t] \in {"cancel", "unblock", "stop", "farewell"} \cup Stopping
  /\ connectedEvents - disconnectedEvents
       <= One(connected) + One(wasConnected[t]) + One(pc[Io] = "errorEmit")
            - One(pc[t] = "announce")

LEMMA StepKeepsRest ==
  ASSUME NEW t, OneCaller(t), InductiveInv, SessionInv(t), RestInv(t), [Next]_vars
  PROVE  RestInv(t)'
<1>1. /\ t \in Procs /\ Io \in Procs /\ t # Io /\ Procs = {t, Io} /\ Threads = {t}
      /\ ~CallbackDisconnects
  BY ConstantsOK DEF OneCaller, Procs
<1>2. /\ DOMAIN pc = Procs /\ pc = [p \in Procs |-> pc[p]]
      /\ wasConnected \in [Procs -> BOOLEAN]
      /\ connectedEvents \in Nat /\ disconnectedEvents \in Nat
      /\ joinable <=> pc[Io] # "none"
      /\ errors \in 0 .. MaxReadErrors
      /\ startupComplete \in BOOLEAN /\ batch \in Seq(Frames) /\ line \in Seq(Frames)
      /\ connected \in BOOLEAN /\ joinable \in BOOLEAN /\ stopped \in BOOLEAN
  BY DEF InductiveInv, TypeOK, IoThreadHandle
<1> USE <1>1, <1>2 DEF SessionInv, ConnectedUsable, RestInv, Stopping, MayConnect, IoSteps, One,
           Move, threadVars, startupVars, waiterVars, portVars, ioVars, countVars,
           eventVars, worldVars, restVars, driverVars, dataVars
<1>3. CASE ConnectRefused(t)
  BY <1>3 DEF ConnectRefused
<1>4. CASE ConnectCall(t)
  BY <1>4 DEF ConnectCall
<1>5. CASE DisconnectCall(t)
  BY <1>5 DEF DisconnectCall
<1>6. CASE OpenPort(t)
  BY <1>6 DEF OpenPort
<1>7. CASE StartIoThread(t)
  BY <1>7 DEF StartIoThread, Terminate
<1>8. CASE SysReset(t)
  BY <1>8 DEF SysReset, CanSend
<1>9. CASE RegisterWaiter(t)
  BY <1>9 DEF RegisterWaiter
<1>10. CASE FrameReceived(t)
  BY <1>10 DEF FrameReceived
<1>11. CASE ResetWaitExpires(t)
  BY <1>11 DEF ResetWaitExpires
<1>12. CASE DropWaiter(t)
  BY <1>12 DEF DropWaiter
<1>45. CASE CancelOwnWaiter(t)
  BY <1>45 DEF CancelOwnWaiter
<1>13. CASE StartupFromApp(t)
  BY <1>13 DEF StartupFromApp, CanSend
<1>14. CASE CoordinatorIsUp(t)
  BY <1>14 DEF CoordinatorIsUp, StartupMutexFree
<1>15. CASE StartupWaitExpires(t)
  BY <1>15 DEF StartupWaitExpires, StartupMutexFree
<1>16. CASE MarkConnected(t)
  BY <1>16 DEF MarkConnected
<1>17. CASE AnnounceConnected(t)
  <2>1. pc[t] = "announce" /\ pc'[t] = "idle" /\ pc'[Io] = pc[Io]
    BY <1>17 DEF AnnounceConnected, AfterCallback, Move
  <2>2. connectedEvents' = connectedEvents + 1
    BY <1>17 DEF AnnounceConnected
  <2>3. UNCHANGED <<threadVars, wasConnected, portVars, joinable, batch, disconnectedEvents>>
    BY <1>17 DEF AnnounceConnected, portVars, ioVars
  <2>4. connectedEvents' - disconnectedEvents'
          <= One(connected) + One(wasConnected[t]) + One(pc[Io] = "errorEmit")
    BY <2>1, <2>2, <2>3
  <2> QED
    BY <2>1, <2>3, <2>4 DEF threadVars
<1>18. CASE NothingToDisconnect(t)
  BY <1>18 DEF NothingToDisconnect
<1>19. CASE JoinIoThread(t)
  BY <1>19 DEF JoinIoThread
<1>20. CASE ClosePort(t)
  BY <1>20 DEF ClosePort
<1>21. CASE RestartIo(t)
  BY <1>21 DEF RestartIo
<1>22. CASE FarewellSilently(t)
  BY <1>22 DEF FarewellSilently
<1>23. CASE AnnounceDisconnected(t)
  BY <1>23 DEF AnnounceDisconnected, AfterCallback
<1>24. ASSUME NEW p \in Procs, BeginDisconnect(p)
      PROVE  RestInv(t)'
  BY <1>24 DEF BeginDisconnect
<1>25. ASSUME NEW p \in Procs, ExchangeConnected(p)
      PROVE  RestInv(t)'
  BY <1>25 DEF ExchangeConnected
<1>26. ASSUME NEW p \in Procs, CancelWaiters(p)
      PROVE  RestInv(t)'
  BY <1>26 DEF CancelWaiters
<1>27. ASSUME NEW p \in Procs, UnblockStartup(p)
      PROVE  RestInv(t)'
  BY <1>27 DEF UnblockStartup, StartupMutexFree
<1>28. ASSUME NEW p \in Procs, StopIo(p)
      PROVE  RestInv(t)'
  BY <1>28 DEF StopIo
<1>29. ASSUME NEW p \in Procs, TestJoinable(p)
      PROVE  RestInv(t)'
  BY <1>29 DEF TestJoinable
<1>30. ASSUME NEW p \in Procs, JoinThrows(p)
      PROVE  RestInv(t)'
  BY <1>30 DEF JoinThrows, Terminate
<1>31. CASE ReadChunk
  BY <1>31 DEF ReadChunk
<1>32. CASE DispatchFrame
  BY <1>32 DEF DispatchFrame, ServeWaiter
<1>33. CASE EmitFrameEvent
  BY <1>33 DEF EmitFrameEvent, AfterCallback
<1>34. CASE CompleteStartup
  BY <1>34 DEF CompleteStartup, StartupMutexFree
<1>35. CASE RearmRead
  BY <1>35 DEF RearmRead
<1>36. CASE ReadFails
  BY <1>36 DEF ReadFails
<1>37. CASE ErrorClearsConnected
  BY <1>37 DEF ErrorClearsConnected
<1>38. CASE AnnounceSerialError
  <2>1. pc[Io] = "errorEmit" /\ pc'[Io] = "run" /\ pc'[t] = pc[t]
    BY <1>38 DEF AnnounceSerialError, AfterCallback, Move
  <2>2. disconnectedEvents' = disconnectedEvents + 1
    BY <1>38 DEF AnnounceSerialError
  <2>3. UNCHANGED <<threadVars, wasConnected, port, joinable, batch, connectedEvents>>
    BY <1>38 DEF AnnounceSerialError, portVars, ioVars
  <2>4. connectedEvents' - disconnectedEvents'
          <= One(connected) + One(wasConnected[t]) - One(pc[t] = "announce")
    BY <2>1, <2>2, <2>3
  <2> QED
    BY <2>1, <2>3, <2>4 DEF threadVars
<1>39. CASE RunReturns
  BY <1>39 DEF RunReturns
<1>46. CASE TouchDestroyedPort
  BY <1>46 DEF TouchDestroyedPort
<1>40. CASE CoordinatorBoots
  BY <1>40 DEF CoordinatorBoots, Received
<1>41. CASE CoordinatorStarts
  BY <1>41 DEF CoordinatorStarts, Received
<1>42. CASE CoordinatorTraffic
  BY <1>42 DEF CoordinatorTraffic
<1>44. CASE CoordinatorReboots
  BY <1>44 DEF CoordinatorReboots
<1>43. CASE UNCHANGED vars
  BY <1>43 DEF vars, threadVars, portVars, ioVars, countVars, eventVars
<1> QED
  BY <1>3, <1>4, <1>5, <1>6, <1>7, <1>8, <1>9, <1>10, <1>11, <1>12, <1>13,
      <1>14, <1>15, <1>16, <1>17, <1>18, <1>19, <1>20, <1>21, <1>22, <1>23,
      <1>24, <1>25, <1>26, <1>27, <1>28, <1>29, <1>30, <1>31, <1>32, <1>33,
      <1>34, <1>35, <1>36, <1>37, <1>38, <1>39, <1>40, <1>41, <1>42, <1>43, <1>44, <1>45,
      <1>46
  DEF Next, ApplicationCalls, ThreadStep, ConnectStep, DisconnectStep, DisconnectTail,
      IoStep, Firmware

LEMMA RestInvariant ==
  ASSUME NEW t, OneCaller(t)
  PROVE  Spec => []RestInv(t)
<1>1. Init => RestInv(t)
  BY ConstantsOK DEF Init, RestInv, OneCaller, Procs, One
<1>2. InductiveInv /\ SessionInv(t) /\ RestInv(t) /\ [Next]_vars => RestInv(t)'
  BY StepKeepsRest
<1> QED
  BY <1>1, <1>2, InductiveInvariant, SessionInvariant, PTL DEF Spec

-----------------------------------------------------------------------------
(***************************************************************************)
(* The theorems about its end                                              *)
(***************************************************************************)

\* Between two calls, with the port gone, the driver's own state is that of the
\* beginning; only a read that completed too late can be left, in the io_context.
THEOREM DisconnectLeavesLateReadsOnly ==
  ASSUME NEW t, OneCaller(t)
  PROVE  Spec => []OnlyLateReadsSurvive
<1>1. InductiveInv /\ SessionInv(t) /\ RestInv(t) => OnlyLateReadsSurvive
  <2> SUFFICES ASSUME InductiveInv, SessionInv(t), RestInv(t), pc[t] = "idle", port = "null"
               PROVE  /\ ~connected /\ ~joinable /\ ~stopped /\ ~startupComplete
                      /\ pc[Io] = "none" /\ reader = "none" /\ line = <<>> /\ batch = <<>>
                      /\ waiters = {} /\ startupMutex = NoThread
    BY DEF OnlyLateReadsSurvive, AllIdle, HoldsNoCall, OneCaller
  <2>1. ~connected /\ ~stopped
    BY DEF SessionInv, ConnectedUsable, Stopping
  <2>2. ~joinable /\ ~startupComplete /\ reader = "none" /\ line = <<>>
    BY DEF RestInv, Stopping
  <2>3. pc[Io] = "none" /\ batch = <<>>
    BY <2>2 DEF InductiveInv, IoThreadHandle, RestInv
  <2>4. waiters = {}
    BY DEF InductiveInv, WaiterDiscipline, TypeOK, OneCaller
  <2>5. startupMutex = NoThread
    BY DEF InductiveInv, MutexDiscipline, TypeOK, OneCaller
  <2> QED
    BY <2>1, <2>2, <2>3, <2>4, <2>5
<1> QED
  BY <1>1, InductiveInvariant, SessionInvariant, RestInvariant, PTL

\* A session that was announced is announced as ended when it has ended, by
\* disconnect() or by the error handler, whatever the order of their steps.
THEOREM LossIsReported ==
  ASSUME NEW t, OneCaller(t)
  PROVE  Spec => []LossReported
<1>1. InductiveInv /\ RestInv(t) => LossReported
  <2> SUFFICES ASSUME InductiveInv, RestInv(t), pc[t] = "idle", pc[Io] # "errorEmit", ~connected
               PROVE  disconnectedEvents >= connectedEvents
    BY DEF LossReported, AllIdle, HoldsNoCall, OneCaller
  <2>1. ~wasConnected[t]
    BY DEF RestInv, Stopping
  <2>2. connectedEvents \in Nat /\ disconnectedEvents \in Nat
    BY DEF InductiveInv, TypeOK
  <2>3. connectedEvents - disconnectedEvents <= 0
    BY <2>1, <2>2 DEF RestInv, One
  <2> QED
    BY <2>2, <2>3
<1> QED
  BY <1>1, InductiveInvariant, RestInvariant, PTL

\* While the line has not failed, the port is closed when the end of a session is
\* announced.
THEOREM EndMeansPortClosed ==
  ASSUME NEW t, OneCaller(t)
  PROVE  Spec => DisconnectedMeansPortClosed
<1>1. /\ InductiveInv /\ RestInv(t) /\ (errors = 0 => QuietInv(t))
      /\ [Next]_vars
      => [disconnectedEvents' > disconnectedEvents /\ errors = 0 => port # "open"]_vars
  <2> SUFFICES ASSUME InductiveInv, RestInv(t), errors = 0, QuietInv(t), Next,
                      disconnectedEvents' > disconnectedEvents
               PROVE  port # "open"
    OBVIOUS
  <2>1. disconnectedEvents' # disconnectedEvents
    BY DEF InductiveInv, TypeOK
  <2>2. AnnounceDisconnected(t) \/ AnnounceSerialError
    BY <2>1
    DEF Next, ApplicationCalls, ThreadStep, ConnectStep, DisconnectStep, DisconnectTail,
        IoStep, Firmware, OneCaller,
        eventVars, worldVars, restVars, driverVars, dataVars,
        ConnectRefused, ConnectCall, DisconnectCall, OpenPort, StartIoThread, SysReset,
        RegisterWaiter, FrameReceived, ResetWaitExpires, CancelOwnWaiter, DropWaiter,
        StartupFromApp, CoordinatorIsUp, StartupWaitExpires, MarkConnected, AnnounceConnected,
        BeginDisconnect, ExchangeConnected, CancelWaiters, UnblockStartup, StopIo,
        TestJoinable, JoinThrows, NothingToDisconnect, JoinIoThread, ClosePort,
        RestartIo, FarewellSilently, ReadChunk, DispatchFrame, EmitFrameEvent,
        CompleteStartup, RearmRead, ReadFails, ErrorClearsConnected, RunReturns, TouchDestroyedPort,
        CoordinatorBoots, CoordinatorStarts, CoordinatorReboots, CoordinatorTraffic
  <2>3. CASE AnnounceDisconnected(t)
    BY <2>3 DEF AnnounceDisconnected, AfterCallback, Move, RestInv
  <2>4. CASE AnnounceSerialError
    BY <2>4 DEF AnnounceSerialError, AfterCallback, Move, QuietInv
  <2> QED
    BY <2>2, <2>3, <2>4
<1> QED
  BY <1>1, InductiveInvariant, RestInvariant, QuietInvariant, PTL
  DEF Spec, DisconnectedMeansPortClosed

-----------------------------------------------------------------------------
(***************************************************************************)
(* Where a ZB_COORD can be, if the coordinator does not reboot on its own  *)
(* and was not starting when the program began                             *)
(***************************************************************************)
Quiet(t) == OneCaller(t) /\ MaxReboots = 0 /\ "starting" \notin InitialCoordinator

Holds(frames) == \E i \in 1 .. Len(frames) : frames[i] = "ZB_COORD"

\* The coordinator has announced itself, and the driver may not have noticed yet.
CoordHeard == startupComplete \/ pc[Io] = "complete" \/ Holds(line) \/ Holds(batch)

\* A session starts with nothing of that kind, the coordinator starts only while connect()
\* waits for it - a connect() that has locked itself out never comes back to reset it - and
\* what is heard in that wait comes from a coordinator that runs.
UpInv(t) ==
  /\ coordinator = "starting" => pc[t] = "awaitCoord" \/ startupMutex = t
  /\ startupMutex = t => joinable
  /\ pc[t] = "spawn" /\ ~joinable => ~startupComplete /\ ~Holds(line)
  /\ pc[t] \in {"reset", "listen", "await", "expired", "cancelled", "startup"} => ~CoordHeard
  /\ pc[t] = "awaitCoord" /\ CoordHeard => coordinator = "up"
  /\ pc[t] \in {"mark", "announce"} => coordinator = "up"

\* Where a frame of a queue goes.
LEMMA Queues ==
  ASSUME NEW s \in Seq(Frames)
  PROVE  /\ \A f \in Frames : Holds(Append(s, f)) => Holds(s) \/ f = "ZB_COORD"
         /\ \A n \in 1 .. Len(s) :
              /\ Holds(SubSeq(s, 1, n)) => Holds(s)
              /\ Holds(SubSeq(s, n + 1, Len(s))) => Holds(s)
         /\ s # <<>> => (Holds(Tail(s)) => Holds(s)) /\ (Head(s) = "ZB_COORD" => Holds(s))
         /\ ~Holds(<<>>)
<1>0. Len(s) \in Nat
  BY LenProperties
<1>1. \A f \in Frames : Holds(Append(s, f)) => Holds(s) \/ f = "ZB_COORD"
  BY <1>0, AppendProperties DEF Holds
<1>2. ASSUME NEW n \in 1 .. Len(s), Holds(SubSeq(s, 1, n)) PROVE Holds(s)
  BY <1>0, <1>2 DEF Holds
<1>3. ASSUME NEW n \in 1 .. Len(s), Holds(SubSeq(s, n + 1, Len(s))) PROVE Holds(s)
  <2>1. PICK i \in 1 .. Len(SubSeq(s, n + 1, Len(s))) :
          SubSeq(s, n + 1, Len(s))[i] = "ZB_COORD"
    BY <1>3 DEF Holds
  <2>2. i + n \in 1 .. Len(s) /\ s[i + n] = "ZB_COORD"
    BY <1>0, <2>1
  <2> QED
    BY <2>2 DEF Holds
<1>4. ASSUME s # <<>>
      PROVE  (Holds(Tail(s)) => Holds(s)) /\ (Head(s) = "ZB_COORD" => Holds(s))
  <2>1. Len(s) > 0
    BY <1>4, EmptySeq
  <2>2. Len(Tail(s)) = Len(s) - 1 /\ \A i \in 1 .. Len(Tail(s)) : Tail(s)[i] = s[i + 1]
    BY <1>4, HeadTailProperties
  <2>3. Holds(Tail(s)) => Holds(s)
    <3>1. SUFFICES ASSUME NEW i \in 1 .. Len(Tail(s)), Tail(s)[i] = "ZB_COORD" PROVE Holds(s)
      BY DEF Holds
    <3>2. i + 1 \in 1 .. Len(s) /\ s[i + 1] = "ZB_COORD"
      BY <1>0, <2>2, <3>1
    <3> QED
      BY <3>2 DEF Holds
  <2>4. Head(s) = "ZB_COORD" => Holds(s)
    BY <1>0, <2>1 DEF Holds
  <2> QED
    BY <2>3, <2>4
<1>5. ~Holds(<<>>)
  BY DEF Holds
<1> QED
  BY <1>1, <1>2, <1>3, <1>4, <1>5

LEMMA StepKeepsUp ==
  ASSUME NEW t, Quiet(t), InductiveInv, SessionInv(t), RestInv(t), UpInv(t), [Next]_vars
  PROVE  UpInv(t)'
<1>1. /\ t \in Procs /\ Io \in Procs /\ t # Io /\ Procs = {t, Io} /\ Threads = {t}
      /\ ~CallbackDisconnects /\ MaxReboots = 0
  BY ConstantsOK DEF Quiet, OneCaller, Procs
<1>2. /\ DOMAIN pc = Procs /\ pc = [p \in Procs |-> pc[p]]
      /\ joinable <=> pc[Io] # "none"
      /\ reboots \in 0 .. MaxReboots
      /\ startupComplete \in BOOLEAN /\ joinable \in BOOLEAN
      /\ batch \in Seq(Frames) /\ line \in Seq(Frames)
      /\ startupMutex \in Threads \cup {NoThread} /\ t # NoThread
      /\ startupMutex = t => pc[t] \in {"check", "exchange", "cancel", "unblock"}
      /\ pc[Io] \in IoSteps
  BY <1>1, ConstantsOK DEF InductiveInv, TypeOK, IoThreadHandle, MutexDiscipline, SessionInv
<1>3. /\ pc[Io] \in {"none", "run", "exited", "errorStore", "errorEmit"} => batch = <<>>
      /\ pc[Io] = "handle" => batch # <<>>
      /\ pc[t] \in Operating => port = "open" /\ joinable
  BY DEF RestInv, SessionInv, InductiveInv, ChunkHeld
<1>4. /\ ~Holds(<<>>)
      /\ \A f \in Frames : Holds(Append(line, f)) => Holds(line) \/ f = "ZB_COORD"
      /\ \A n \in 1 .. Len(line) :
           /\ Holds(SubSeq(line, 1, n)) => Holds(line)
           /\ Holds(SubSeq(line, n + 1, Len(line))) => Holds(line)
      /\ batch # <<>> => /\ Holds(Tail(batch)) => Holds(batch)
                         /\ Head(batch) = "ZB_COORD" => Holds(batch)
  BY <1>2, Queues
<1>5. "RESET_IND" \in Frames /\ "OTHER" \in Frames
  BY DEF Frames
<1> USE <1>1, <1>2, <1>3, <1>4, <1>5
    DEF UpInv, CoordHeard, IoSteps, Operating,
        Move, threadVars, startupVars, waiterVars, portVars, ioVars, countVars,
        eventVars, worldVars, restVars, driverVars, dataVars
<1>6. CASE ConnectRefused(t)
  BY <1>6 DEF ConnectRefused
<1>7. CASE ConnectCall(t)
  BY <1>7 DEF ConnectCall
<1>8. CASE DisconnectCall(t)
  BY <1>8 DEF DisconnectCall
<1>9. CASE OpenPort(t)
  BY <1>9 DEF OpenPort
<1>10. CASE StartIoThread(t)
  BY <1>10 DEF StartIoThread, Terminate
<1>11. CASE SysReset(t)
  BY <1>11 DEF SysReset, CanSend
<1>12. CASE RegisterWaiter(t)
  BY <1>12 DEF RegisterWaiter
<1>13. CASE FrameReceived(t)
  BY <1>13 DEF FrameReceived
<1>14. CASE ResetWaitExpires(t)
  BY <1>14 DEF ResetWaitExpires
<1>15. CASE DropWaiter(t)
  BY <1>15 DEF DropWaiter
<1>48. CASE CancelOwnWaiter(t)
  BY <1>48 DEF CancelOwnWaiter
<1>16. CASE StartupFromApp(t)
  BY <1>16 DEF StartupFromApp, CanSend
<1>17. CASE CoordinatorIsUp(t)
  BY <1>17 DEF CoordinatorIsUp, StartupMutexFree
<1>18. CASE StartupWaitExpires(t)
  BY <1>18 DEF StartupWaitExpires, StartupMutexFree
<1>19. CASE MarkConnected(t)
  BY <1>19 DEF MarkConnected
<1>20. CASE AnnounceConnected(t)
  BY <1>20 DEF AnnounceConnected, AfterCallback
<1>21. CASE NothingToDisconnect(t)
  BY <1>21 DEF NothingToDisconnect
<1>22. CASE JoinIoThread(t)
  BY <1>22 DEF JoinIoThread
<1>23. CASE ClosePort(t)
  BY <1>23 DEF ClosePort
<1>24. CASE RestartIo(t)
  BY <1>24 DEF RestartIo
<1>25. CASE FarewellSilently(t)
  BY <1>25 DEF FarewellSilently
<1>26. CASE AnnounceDisconnected(t)
  BY <1>26 DEF AnnounceDisconnected, AfterCallback
<1>27. ASSUME NEW p \in Procs, BeginDisconnect(p)
      PROVE  UpInv(t)'
  BY <1>27 DEF BeginDisconnect
<1>28. ASSUME NEW p \in Procs, ExchangeConnected(p)
      PROVE  UpInv(t)'
  BY <1>28 DEF ExchangeConnected
<1>29. ASSUME NEW p \in Procs, CancelWaiters(p)
      PROVE  UpInv(t)'
  BY <1>29 DEF CancelWaiters
<1>30. ASSUME NEW p \in Procs, UnblockStartup(p)
      PROVE  UpInv(t)'
  BY <1>30 DEF UnblockStartup, StartupMutexFree
<1>31. ASSUME NEW p \in Procs, StopIo(p)
      PROVE  UpInv(t)'
  BY <1>31 DEF StopIo
<1>32. ASSUME NEW p \in Procs, TestJoinable(p)
      PROVE  UpInv(t)'
  BY <1>32 DEF TestJoinable
<1>33. ASSUME NEW p \in Procs, JoinThrows(p)
      PROVE  UpInv(t)'
  BY <1>33 DEF JoinThrows, Terminate
<1>34. CASE ReadChunk
  BY <1>34 DEF ReadChunk
<1>35. CASE DispatchFrame
  BY <1>35 DEF DispatchFrame, ServeWaiter
<1>36. CASE EmitFrameEvent
  <2>1. pc[Io] = "handle" /\ pc'[t] = pc[t]
    BY <1>36 DEF EmitFrameEvent, AfterCallback
  <2>2. UNCHANGED <<startupComplete, startupMutex, joinable, line, coordinator>>
    BY <1>36 DEF EmitFrameEvent
  <2>3. CASE Head(batch) = "ZB_COORD"
    <3>1. pc'[Io] = "complete" /\ batch' = batch
      BY <1>36, <2>3 DEF EmitFrameEvent, AfterCallback
    <3> QED
      BY <2>1, <2>2, <2>3, <3>1
  <2>4. CASE Head(batch) # "ZB_COORD"
    <3>1. pc'[Io] = "dispatch" /\ batch' = Tail(batch)
      BY <1>36, <2>4 DEF EmitFrameEvent, AfterCallback
    <3> QED
      BY <2>1, <2>2, <3>1
  <2> QED
    BY <2>3, <2>4
<1>37. CASE CompleteStartup
  BY <1>37 DEF CompleteStartup, StartupMutexFree
<1>38. CASE RearmRead
  BY <1>38 DEF RearmRead
<1>39. CASE ReadFails
  BY <1>39 DEF ReadFails
<1>40. CASE ErrorClearsConnected
  BY <1>40 DEF ErrorClearsConnected
<1>41. CASE AnnounceSerialError
  BY <1>41 DEF AnnounceSerialError, AfterCallback
<1>42. CASE RunReturns
  BY <1>42 DEF RunReturns
<1>49. CASE TouchDestroyedPort
  BY <1>49 DEF TouchDestroyedPort
<1>43. CASE CoordinatorBoots
  BY <1>43 DEF CoordinatorBoots, Received
<1>44. CASE CoordinatorStarts
  BY <1>44 DEF CoordinatorStarts, Received
<1>45. CASE CoordinatorTraffic
  BY <1>45 DEF CoordinatorTraffic
<1>46. CASE CoordinatorReboots
  BY <1>46 DEF CoordinatorReboots
<1>47. CASE UNCHANGED vars
  BY <1>47 DEF vars
<1> QED
  BY <1>6, <1>7, <1>8, <1>9, <1>10, <1>11, <1>12, <1>13, <1>14, <1>15, <1>16, <1>17,
      <1>18, <1>19, <1>20, <1>21, <1>22, <1>23, <1>24, <1>25, <1>26, <1>27, <1>28, <1>29,
      <1>30, <1>31, <1>32, <1>33, <1>34, <1>35, <1>36, <1>37, <1>38, <1>39, <1>40, <1>41,
      <1>42, <1>43, <1>44, <1>45, <1>46, <1>47, <1>48, <1>49
  DEF Next, ApplicationCalls, ThreadStep, ConnectStep, DisconnectStep, DisconnectTail,
      IoStep, Firmware

LEMMA UpInvariant ==
  ASSUME NEW t, Quiet(t)
  PROVE  Spec => []UpInv(t)
<1>1. OneCaller(t)
  BY DEF Quiet
<1>2. Init => UpInv(t)
  BY ConstantsOK DEF Init, UpInv, Quiet, OneCaller, Procs
<1>3. InductiveInv /\ SessionInv(t) /\ RestInv(t) /\ UpInv(t) /\ [Next]_vars => UpInv(t)'
  BY StepKeepsUp
<1> QED
  BY <1>1, <1>2, <1>3, InductiveInvariant, SessionInvariant, RestInvariant, PTL DEF Spec

\* The connected event means that the coordinator's stack runs (ZigbeeEvent.hpp:16,
\* cpp:86-101), whatever waits expire and whenever the line fails.
THEOREM ConnectedMeansUp ==
  ASSUME NEW t, Quiet(t)
  PROVE  Spec => ConnectedMeansCoordinatorUp
<1>1. OneCaller(t)
  BY DEF Quiet
<1>2. InductiveInv /\ UpInv(t) /\ [Next]_vars
        => [connectedEvents' > connectedEvents => coordinator = "up"]_vars
  <2> SUFFICES ASSUME InductiveInv, UpInv(t), Next, connectedEvents' > connectedEvents
               PROVE  coordinator = "up"
    OBVIOUS
  <2>1. connectedEvents' # connectedEvents
    BY DEF InductiveInv, TypeOK
  <2>2. AnnounceConnected(t)
    BY <1>1, <2>1
    DEF Next, ApplicationCalls, ThreadStep, ConnectStep, DisconnectStep, DisconnectTail,
        IoStep, Firmware, OneCaller,
        eventVars, worldVars, restVars, driverVars, dataVars,
        ConnectRefused, ConnectCall, DisconnectCall, OpenPort, StartIoThread, SysReset,
        RegisterWaiter, FrameReceived, ResetWaitExpires, CancelOwnWaiter, DropWaiter,
        StartupFromApp, CoordinatorIsUp, StartupWaitExpires, MarkConnected,
        BeginDisconnect, ExchangeConnected, CancelWaiters, UnblockStartup, StopIo,
        TestJoinable, JoinThrows, NothingToDisconnect, JoinIoThread, ClosePort,
        RestartIo, FarewellSilently, AnnounceDisconnected, ReadChunk, DispatchFrame,
        EmitFrameEvent, CompleteStartup, RearmRead, ReadFails, ErrorClearsConnected,
        AnnounceSerialError, RunReturns, TouchDestroyedPort, CoordinatorBoots, CoordinatorStarts,
        CoordinatorReboots, CoordinatorTraffic
  <2> QED
    BY <2>2 DEF AnnounceConnected, AfterCallback, Move, UpInv
<1> QED
  BY <1>1, <1>2, InductiveInvariant, UpInvariant, PTL DEF Spec, ConnectedMeansCoordinatorUp
=============================================================================
