------------------------ MODULE DongleRefinementProofs -----------------------
(***************************************************************************)
(* DongleLifecycle implements DongleSession when one thread makes all the  *)
(* calls, the event callback makes none and the line does not fail: for    *)
(* any number of connect() calls, any time-outs, any state of the firmware *)
(* and any reboots of it.                                                  *)
(***************************************************************************)
EXTENDS DongleRefinement, DongleSessionProofs

\* The phase of the session, for one caller.
Phase(t) ==
  IF connected THEN IF pc[t] = "announce" THEN "established" ELSE "up"
  ELSE IF wasConnected[t] THEN "ending"
  ELSE IF pc[t] = "idle" THEN "down" ELSE "busy"

\* Every step of the driver is a step of the promised session, or none.
LEMMA StepImplements ==
  ASSUME NEW t, OneCaller(t), MaxReadErrors = 0,
         InductiveInv, SessionInv(t), RestInv(t), QuietInv(t), [Next]_vars
  PROVE  [Session!Next]_(Session!session)
<1>1. /\ t \in Procs /\ Io \in Procs /\ t # Io /\ Procs = {t, Io} /\ Threads = {t}
      /\ ~CallbackDisconnects
  BY ConstantsOK DEF OneCaller, Procs
<1>2. /\ DOMAIN pc = Procs /\ pc = [p \in Procs |-> pc[p]]
      /\ wasConnected \in [Procs -> BOOLEAN]
      /\ connectedEvents \in Nat /\ disconnectedEvents \in Nat
      /\ errors \in 0 .. MaxReadErrors
      /\ connected \in BOOLEAN /\ joinable \in BOOLEAN
  BY DEF InductiveInv, TypeOK
<1>3. SessionPhase = Phase(t)
  <2>1. connected \in BOOLEAN
    BY DEF InductiveInv, TypeOK
  <2>2. /\ (\E u \in Threads : pc[u] = "announce") <=> pc[t] = "announce"
        /\ (\E u \in Threads : wasConnected[u]) <=> wasConnected[t]
        /\ AllIdle <=> pc[t] = "idle"
    BY <1>1 DEF AllIdle, HoldsNoCall
  <2> QED
    BY <2>1, <2>2 DEF SessionPhase, Phase
<1>4. SessionPhase' = Phase(t)'
  <2>1. connected' \in BOOLEAN
    BY NextKeepsInv DEF InductiveInv, TypeOK
  <2>2. /\ (\E u \in Threads : pc'[u] = "announce") <=> pc'[t] = "announce"
        /\ (\E u \in Threads : wasConnected'[u]) <=> wasConnected'[t]
        /\ AllIdle' <=> pc'[t] = "idle"
    BY <1>1 DEF AllIdle, HoldsNoCall
  <2> QED
    BY <2>1, <2>2 DEF SessionPhase, Phase
<1> USE <1>1, <1>2, <1>3, <1>4
    DEF SessionInv, ConnectedUsable, RestInv, QuietInv, Operating, Stopping, MayConnect,
        IoSteps, Phase,
        Session!Next, Session!session, Session!Goto, Session!Begin, Session!Return,
        Session!Acquire, Session!Release, Session!Establish, Session!AnnounceUp,
        Session!End, Session!AnnounceDown,
        Move, threadVars, startupVars, waiterVars, portVars, ioVars, countVars,
        eventVars, worldVars, restVars, driverVars, dataVars
<1>5. CASE ConnectRefused(t)
  BY <1>5 DEF ConnectRefused
<1>6. CASE ConnectCall(t)
  BY <1>6 DEF ConnectCall
<1>7. CASE DisconnectCall(t)
  BY <1>7 DEF DisconnectCall
<1>8. CASE OpenPort(t)
  BY <1>8 DEF OpenPort
<1>9. CASE StartIoThread(t)
  BY <1>9 DEF StartIoThread, Terminate
<1>10. CASE SysReset(t)
  BY <1>10 DEF SysReset
<1>11. CASE RegisterWaiter(t)
  BY <1>11 DEF RegisterWaiter
<1>12. CASE FrameReceived(t)
  BY <1>12 DEF FrameReceived
<1>13. CASE ResetWaitExpires(t)
  BY <1>13 DEF ResetWaitExpires
<1>14. CASE DropWaiter(t)
  BY <1>14 DEF DropWaiter
<1>47. CASE CancelOwnWaiter(t)
  BY <1>47 DEF CancelOwnWaiter
<1>15. CASE StartupFromApp(t)
  BY <1>15 DEF StartupFromApp
<1>16. CASE CoordinatorIsUp(t)
  BY <1>16 DEF CoordinatorIsUp
<1>17. CASE StartupWaitExpires(t)
  BY <1>17 DEF StartupWaitExpires
<1>18. CASE MarkConnected(t)
  BY <1>18 DEF MarkConnected
<1>19. CASE AnnounceConnected(t)
  BY <1>19 DEF AnnounceConnected, AfterCallback
<1>20. CASE NothingToDisconnect(t)
  BY <1>20 DEF NothingToDisconnect
<1>21. CASE JoinIoThread(t)
  BY <1>21 DEF JoinIoThread
<1>22. CASE ClosePort(t)
  BY <1>22 DEF ClosePort
<1>23. CASE RestartIo(t)
  BY <1>23 DEF RestartIo
<1>24. CASE FarewellSilently(t)
  BY <1>24 DEF FarewellSilently
<1>25. CASE AnnounceDisconnected(t)
  BY <1>25 DEF AnnounceDisconnected, AfterCallback
<1>26. ASSUME NEW p \in Procs, BeginDisconnect(p)
      PROVE  [Session!Next]_(Session!session)
  BY <1>26 DEF BeginDisconnect
<1>27. ASSUME NEW p \in Procs, ExchangeConnected(p)
      PROVE  [Session!Next]_(Session!session)
  BY <1>27 DEF ExchangeConnected
<1>28. ASSUME NEW p \in Procs, CancelWaiters(p)
      PROVE  [Session!Next]_(Session!session)
  BY <1>28 DEF CancelWaiters
<1>29. ASSUME NEW p \in Procs, UnblockStartup(p)
      PROVE  [Session!Next]_(Session!session)
  BY <1>29 DEF UnblockStartup
<1>30. ASSUME NEW p \in Procs, StopIo(p)
      PROVE  [Session!Next]_(Session!session)
  BY <1>30 DEF StopIo
<1>31. ASSUME NEW p \in Procs, TestJoinable(p)
      PROVE  [Session!Next]_(Session!session)
  BY <1>31 DEF TestJoinable
<1>32. ASSUME NEW p \in Procs, JoinThrows(p)
      PROVE  [Session!Next]_(Session!session)
  BY <1>32 DEF JoinThrows, Terminate
<1>33. CASE ReadChunk
  BY <1>33 DEF ReadChunk
<1>34. CASE DispatchFrame
  BY <1>34 DEF DispatchFrame, ServeWaiter
<1>35. CASE EmitFrameEvent
  BY <1>35 DEF EmitFrameEvent, AfterCallback
<1>36. CASE CompleteStartup
  BY <1>36 DEF CompleteStartup
<1>37. CASE RearmRead
  BY <1>37 DEF RearmRead
<1>38. CASE ReadFails
  BY <1>38 DEF ReadFails
<1>39. CASE ErrorClearsConnected
  BY <1>39 DEF ErrorClearsConnected
<1>40. CASE AnnounceSerialError
  BY <1>40 DEF AnnounceSerialError, AfterCallback
<1>41. CASE RunReturns
  BY <1>41 DEF RunReturns
<1>48. CASE TouchDestroyedPort
  BY <1>48 DEF TouchDestroyedPort
<1>42. CASE CoordinatorBoots
  BY <1>42 DEF CoordinatorBoots, Received
<1>43. CASE CoordinatorStarts
  BY <1>43 DEF CoordinatorStarts, Received
<1>44. CASE CoordinatorReboots
  BY <1>44 DEF CoordinatorReboots
<1>45. CASE CoordinatorTraffic
  BY <1>45 DEF CoordinatorTraffic
<1>46. CASE UNCHANGED vars
  BY <1>46 DEF vars
<1> QED
  BY <1>5, <1>6, <1>7, <1>8, <1>9, <1>10, <1>11, <1>12, <1>13, <1>14, <1>15,
     <1>16, <1>17, <1>18, <1>19, <1>20, <1>21, <1>22, <1>23, <1>24, <1>25, <1>26,
     <1>27, <1>28, <1>29, <1>30, <1>31, <1>32, <1>33, <1>34, <1>35, <1>36, <1>37,
     <1>38, <1>39, <1>40, <1>41, <1>42, <1>43, <1>44, <1>45, <1>46, <1>47, <1>48
  DEF Next, ApplicationCalls, ThreadStep, ConnectStep, DisconnectStep, DisconnectTail,
      IoStep, Firmware

\* On a line that does not fail, a single caller sees what DongleSession promises:
\* sessions one after the other, each between its two events, with the serial port
\* open from before the first to before the last.
THEOREM DriverImplementsSession ==
  ASSUME NEW t, OneCaller(t), MaxReadErrors = 0
  PROVE  Spec => ImplementsSession
<1>1. Init => Session!Init
  BY ConstantsOK
  DEF Init, Session!Init, SessionPhase, OneCaller, Procs, AllIdle, HoldsNoCall
<1>2. InductiveInv => errors = 0
  BY DEF InductiveInv, TypeOK
<1>3. /\ InductiveInv /\ SessionInv(t) /\ RestInv(t) /\ (errors = 0 => QuietInv(t))
      /\ [Next]_vars
      => [Session!Next]_(Session!session)
  BY <1>2, StepImplements
<1> QED
  BY <1>1, <1>3, InductiveInvariant, SessionInvariant, RestInvariant, QuietInvariant, PTL
  DEF Spec, ImplementsSession, Session!Spec
=============================================================================
