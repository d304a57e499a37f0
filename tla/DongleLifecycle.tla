--------------------------- MODULE DongleLifecycle ---------------------------
(***************************************************************************)
(* The life cycle of ZigbeeDongle (src/src/ZigbeeDongle.cpp): connect(),   *)
(* disconnect(), the I/O thread that runs the asio io_context, the frame   *)
(* waiters, the start-up condition variable, the serial-error path and the *)
(* life-cycle events given to the application.                             *)
(*                                                                         *)
(* One action is one step of one thread between two points at which other  *)
(* threads can be seen to interfere: an atomic access, a critical section, *)
(* a blocking call, a system call or a call of the event callback.  pc[p]  *)
(* names the step thread p takes next.  A critical section that never      *)
(* blocks inside is one action, so waitersMutex_ needs no variable; the    *)
(* only lock held across steps is startupMutex_.                           *)
(*                                                                         *)
(* Left out: payloads, the byte level of the link (frames arrive whole and *)
(* in order; module SerialPort has the chunks), the registry (module       *)
(* DeviceRegistry), what happens to a thread that uses port_ after another *)
(* thread has destroyed it, and an event callback that calls connect().    *)
(***************************************************************************)
EXTENDS Integers, Sequences, FiniteSets

CONSTANTS
  Threads,              \* application threads that call connect()/disconnect()
  Io,                   \* ioThread_
  NoThread,             \* no owner of startupMutex_
  MaxConnects,          \* bound: calls of connect(), all threads together
  MaxReadErrors,        \* bound: failures of the serial line
  MaxReboots,           \* bound: reboots of the coordinator that nobody asked for
  MaxLine,              \* bound: frames received and not read, before more traffic
  Expirable,            \* environment: which timed waits of connect() may expire
  LateReads,            \* environment: may a read complete while ioc_ is stopped
  CallbackDisconnects,  \* application: may the event callback call disconnect()
  InitialCoordinator    \* environment: states of the dongle's firmware at start

Procs == Threads \cup {Io}

Coordinator == {"resetting", "booted", "starting", "up"}

ASSUME ConstantsOK ==
  /\ IsFiniteSet(Threads)
  /\ Io \notin Threads
  /\ NoThread \notin Procs
  /\ MaxConnects \in Nat /\ MaxReadErrors \in Nat
  /\ MaxReboots \in Nat /\ MaxLine \in Nat
  /\ Expirable \subseteq {"reset", "lost", "startup"}
  /\ LateReads \in BOOLEAN
  /\ CallbackDisconnects \in BOOLEAN
  /\ InitialCoordinator \subseteq Coordinator

\* What the coordinator sends: SYS_RESET_IND, ZDO_STATE_CHANGE_IND(ZB_COORD),
\* and any other AREQ that is turned into an application event.
Frames == {"RESET_IND", "ZB_COORD", "OTHER"}

ConnectSteps    == {"open", "spawn", "reset", "listen", "await", "expired",
                    "cancelled", "startup", "awaitCoord", "mark", "announce"}
DisconnectSteps == {"check", "exchange", "cancel", "unblock", "stop",
                    "joinable", "join", "close", "restart", "farewell"}
IoSteps         == {"none", "run", "dispatch", "handle", "complete",
                    "errorStore", "errorEmit", "exited", "astray"}

VARIABLES
  pc,               \* the next step of every thread
  connected,        \* connected_
  startupComplete,  \* startupComplete_
  startupMutex,     \* the thread that holds startupMutex_ between two steps
  waiters,          \* threads whose FrameWaiter is in waiters_
  promise,          \* promise[t]: the promise of t's last waiter is set
  wasConnected,     \* the local of disconnect(), per thread
  port,             \* port_: no object, an object that is not open, or open
  reader,           \* the async read loop of port_
  joinable,         \* ioThread_.joinable()
  stopped,          \* ioc_ is stopped
  lateRead,         \* ioc_ still holds the handler of a read of a destroyed port
  line,             \* frames the serial line holds, not yet read
  batch,            \* frames of the chunk the I/O thread is handling
  coordinator,      \* the firmware
  attempts,         \* calls of connect() so far
  errors,           \* failures of the line so far
  reboots,          \* such reboots so far
  connectedEvents,     \* DongleConnectedEvents emitted
  disconnectedEvents,  \* DongleDisconnectedEvents emitted
  terminated        \* std::terminate() was called

startupVars == <<startupComplete, startupMutex>>
waiterVars  == <<waiters, promise>>
threadVars == <<connected, startupVars, waiterVars>>
portVars   == <<port, reader, line>>
ioVars     == <<joinable, stopped, lateRead, batch>>
countVars  == <<attempts, errors, reboots>>
eventVars  == <<connectedEvents, disconnectedEvents>>
worldVars  == <<coordinator, countVars, eventVars, terminated>>
driverVars == <<threadVars, wasConnected, portVars, ioVars>>
restVars   == <<wasConnected, portVars, ioVars, worldVars>>
dataVars   == <<driverVars, worldVars>>
vars       == <<pc, dataVars>>

TypeOK ==
  /\ pc \in [Procs -> ConnectSteps \cup DisconnectSteps \cup IoSteps \cup {"idle"}]
  /\ connected \in BOOLEAN
  /\ startupComplete \in BOOLEAN
  /\ startupMutex \in Threads \cup {NoThread}
  /\ waiters \subseteq Threads
  /\ promise \in [Threads -> BOOLEAN]
  /\ wasConnected \in [Procs -> BOOLEAN]
  /\ port \in {"null", "closed", "open"}
  /\ reader \in {"none", "armed", "busy", "dead"}
  /\ joinable \in BOOLEAN
  /\ stopped \in BOOLEAN
  /\ lateRead \in BOOLEAN
  /\ line \in Seq(Frames)
  /\ batch \in Seq(Frames)
  /\ coordinator \in Coordinator
  /\ attempts \in 0 .. MaxConnects
  /\ errors \in 0 .. MaxReadErrors
  /\ reboots \in 0 .. MaxReboots
  /\ connectedEvents \in Nat
  /\ disconnectedEvents \in Nat
  /\ terminated \in BOOLEAN

Init ==
  /\ pc = [p \in Procs |-> IF p = Io THEN "none" ELSE "idle"]
  /\ connected = FALSE
  /\ startupComplete = FALSE
  /\ startupMutex = NoThread
  /\ waiters = {}
  /\ promise = [t \in Threads |-> FALSE]
  /\ wasConnected = [p \in Procs |-> FALSE]
  /\ port = "null"
  /\ reader = "none"
  /\ joinable = FALSE
  /\ stopped = FALSE
  /\ lateRead = FALSE
  /\ line = <<>>
  /\ batch = <<>>
  /\ coordinator \in InitialCoordinator
  /\ attempts = 0
  /\ errors = 0
  /\ reboots = 0
  /\ connectedEvents = 0
  /\ disconnectedEvents = 0
  /\ terminated = FALSE

(***************************************************************************)
(* Helpers                                                                 *)
(***************************************************************************)
Move(p, from, to) ==
  /\ pc[p] = from
  /\ pc' = [pc EXCEPT ![p] = to]

\* emitEvent() runs the application's callback on the emitting thread; the
\* callback may itself call disconnect().  One that calls connect() is left out.
AfterCallback(p, from, to) ==
  \/ Move(p, from, to)
  \/ CallbackDisconnects /\ Move(p, from, "check")

\* sendFrame() reaches the coordinator only through an open port.
CanSend == port = "open"

\* What the coordinator sends is received only while the port is open.
Received(frame) == IF port = "open" THEN Append(line, frame) ELSE line

\* A mutex that is free; a thread that already owns it blocks like any other.
StartupMutexFree == startupMutex = NoThread

Terminate == terminated' = TRUE

\* The waiters whose flag is set by their own thread after the wait expired.
Cancelled == {t \in Threads : pc[t] = "cancelled"}

\* A port object is destroyed.  Its outstanding read is aborted, and an aborted
\* handler returns at once; but when the read has completed - with any bytes, with
\* an error - and ioc_ has not run its handler, that handler stays queued in ioc_,
\* over stop() and restart(), and refers to the destroyed object.
AbandonRead ==
  \/ UNCHANGED lateRead
  \/ LateReads /\ reader = "armed" /\ lateRead' = TRUE

-----------------------------------------------------------------------------
(***************************************************************************)
(* Faulty variants of some steps below.  They are not part of Next: each   *)
(* one shows that a property notices the fault when it replaces its step.  *)
(***************************************************************************)

\* connect() gives up without the clean-up that disconnect() does.
DropWaiter_NoCleanup(t) ==
  /\ Move(t, "cancelled", "idle")
  /\ waiters' = waiters \ {t}
  /\ UNCHANGED <<connected, startupVars, promise, restVars>>

\* The expired waiter is not erased from waiters_.
DropWaiter_NotErased(t) ==
  /\ Move(t, "cancelled", "check")
  /\ UNCHANGED dataVars

\* The early return of disconnect() leaves startupMutex_ locked.
NothingToDisconnect_LockLeaks(t) ==
  /\ Move(t, "check", "idle")
  /\ ~joinable /\ port = "null"
  /\ UNCHANGED dataVars

\* connected_ is loaded where it should be exchanged.
ExchangeConnected_LoadOnly(p) ==
  /\ Move(p, "exchange", "cancel")
  /\ wasConnected' = [wasConnected EXCEPT ![p] = connected]
  /\ UNCHANGED <<threadVars, portVars, ioVars, worldVars>>

\* Only the work guard is reset; the io_context is not stopped.
StopIo_GuardOnly(p) ==
  /\ Move(p, "stop", "joinable")
  /\ UNCHANGED dataVars

\* The port is left open.
JoinIoThread_PortStaysOpen(t) ==
  /\ pc[t] = "join" /\ pc[Io] = "exited" /\ joinable
  /\ pc' = [pc EXCEPT ![t] = "restart", ![Io] = "none"]
  /\ joinable' = FALSE
  /\ UNCHANGED <<threadVars, wasConnected, portVars, stopped, lateRead, batch, worldVars>>

\* The start-up flag that disconnect() raised is not lowered again.
RestartIo_FlagStays(t) ==
  /\ Move(t, "restart", "farewell")
  /\ stopped' = FALSE
  /\ UNCHANGED <<threadVars, wasConnected, portVars, joinable, lateRead, batch, worldVars>>

\* The event is emitted whether or not the dongle had been connected.
AnnounceDisconnected_Always(t) ==
  /\ AfterCallback(t, "farewell", "idle")
  /\ wasConnected' = [wasConnected EXCEPT ![t] = FALSE]
  /\ disconnectedEvents' = disconnectedEvents + 1
  /\ UNCHANGED <<threadVars, portVars, ioVars, coordinator, countVars,
                 connectedEvents, terminated>>

\* A waiter is served whether or not its flag is set.
ServeWaiter_FlagIgnored(frame) ==
  IF frame = "RESET_IND" /\ waiters # {}
  THEN \E t \in waiters : /\ promise' = [promise EXCEPT ![t] = TRUE]
                          /\ waiters' = waiters \ {t}
  ELSE UNCHANGED <<waiterVars>>

\* Any frame is taken for the ZB_COORD state.
EmitFrameEvent_AnyState ==
  /\ AfterCallback(Io, "handle", "complete")
  /\ UNCHANGED dataVars

\* The condition variable is notified, the flag is not set.
CompleteStartup_NoFlag ==
  /\ Move(Io, "complete", "dispatch")
  /\ StartupMutexFree
  /\ batch' = Tail(batch)
  /\ UNCHANGED <<threadVars, wasConnected, portVars, joinable, stopped, lateRead,
                 worldVars>>

\* startupMutex_ is locked and never unlocked.
CompleteStartup_LockLeaks ==
  /\ Move(Io, "complete", "dispatch")
  /\ StartupMutexFree
  /\ startupComplete' = TRUE
  /\ startupMutex' = Io
  /\ batch' = Tail(batch)
  /\ UNCHANGED <<connected, waiterVars, wasConnected, portVars, joinable,
                 stopped, lateRead, worldVars>>

\* The serial error ends the session and tells nobody.
ErrorClearsConnected_Silent ==
  /\ Move(Io, "errorStore", "run")
  /\ connected' = FALSE
  /\ UNCHANGED <<startupVars, waiterVars, restVars>>

-----------------------------------------------------------------------------
(***************************************************************************)
(* connect()                                                               *)
(***************************************************************************)

\* A second connect() while connected_ is set returns AlreadyConnected.
ConnectRefused(t) ==
  /\ pc[t] = "idle" /\ connected
  /\ attempts < MaxConnects
  /\ attempts' = attempts + 1
  /\ UNCHANGED <<pc, driverVars, coordinator, errors, reboots, eventVars,
                 terminated>>

ConnectCall(t) ==
  /\ Move(t, "idle", "open")
  /\ ~connected
  /\ attempts < MaxConnects
  /\ attempts' = attempts + 1
  /\ UNCHANGED <<driverVars, coordinator, errors, reboots, eventVars,
                 terminated>>

\* The new SerialPort replaces (and so closes) an earlier one.  open() arms
\* the first asynchronous read; when it fails the object stays, not open.
OpenPort(t) ==
  /\ startupComplete' = FALSE
  /\ AbandonRead
  /\ line' = <<>>
  /\ \/ Move(t, "open", "spawn") /\ port' = "open" /\ reader' = "armed"
     \/ Move(t, "open", "idle") /\ port' = "closed" /\ reader' = "none"
  /\ UNCHANGED <<connected, startupMutex, waiterVars, wasConnected, joinable,
                 stopped, batch, worldVars>>

\* Assigning to a std::thread that is still joinable calls std::terminate().
StartIoThread(t) ==
  /\ pc[t] = "spawn"
  /\ IF joinable
     THEN Terminate /\ UNCHANGED <<pc, joinable>>
     ELSE /\ joinable' = TRUE
          /\ pc' = [pc EXCEPT ![t] = "reset", ![Io] = "run"]
          /\ UNCHANGED terminated
  /\ UNCHANGED <<threadVars, wasConnected, portVars, stopped, lateRead, batch, coordinator,
                 countVars, eventVars>>

\* The write may fail on an open port too; then connect() gives up.
SysReset(t) ==
  /\ \/ /\ Move(t, "reset", "listen") /\ CanSend
        /\ coordinator' = "resetting"
     \/ Move(t, "reset", "check") /\ UNCHANGED coordinator
  /\ UNCHANGED <<driverVars, countVars, eventVars, terminated>>

RegisterWaiter(t) ==
  /\ Move(t, "listen", "await")
  /\ promise' = [promise EXCEPT ![t] = FALSE]
  /\ waiters' = waiters \cup {t}
  /\ UNCHANGED <<connected, startupVars, restVars>>

FrameReceived(t) ==
  /\ Move(t, "await", "startup")
  /\ promise[t]
  /\ UNCHANGED dataVars

\* "reset" lets the timer expire at any time, "lost" only when the indication was
\* handled before the waiter was registered: no answer is on its way any more.
ResetAnswerDue ==
  \/ coordinator = "resetting"
  \/ \E queue \in {line, batch} : \E i \in DOMAIN queue : queue[i] = "RESET_IND"

ResetWaitExpires(t) ==
  /\ Move(t, "await", "expired")
  /\ ~promise[t]
  /\ "reset" \in Expirable \/ ("lost" \in Expirable /\ ~ResetAnswerDue)
  /\ UNCHANGED dataVars

\* The flag is stored before waitersMutex_ is locked; until then the waiter can
\* still be served, and the verdict is Timeout all the same.
CancelOwnWaiter(t) ==
  /\ Move(t, "expired", "cancelled")
  /\ UNCHANGED dataVars

\* Every flagged waiter is erased, not only the caller's own.
DropWaiter(t) ==
  /\ Move(t, "cancelled", "check")
  /\ waiters' = waiters \ Cancelled
  /\ UNCHANGED <<connected, startupVars, promise, restVars>>

\* afRegisterEndpoint() first, whose failure is only logged and which leaves
\* the driver's state alone; then zdoStartupFromApp().  A coordinator that is
\* still rebooting does not hear the command; one that runs ignores it.
StartupFromApp(t) ==
  /\ \/ /\ Move(t, "startup", "awaitCoord") /\ CanSend
        /\ coordinator' = IF coordinator = "booted" THEN "starting" ELSE coordinator
     \/ Move(t, "startup", "check") /\ UNCHANGED coordinator
  /\ UNCHANGED <<driverVars, countVars, eventVars, terminated>>

\* The condition is tested with startupMutex_ held, which the end of the block
\* releases at once.
CoordinatorIsUp(t) ==
  /\ Move(t, "awaitCoord", "mark")
  /\ StartupMutexFree /\ startupComplete
  /\ UNCHANGED dataVars

\* wait_for() returns false with startupMutex_ held, and disconnect() is called
\* inside the block, before the unique_lock is destroyed.
StartupWaitExpires(t) ==
  /\ Move(t, "awaitCoord", "check")
  /\ "startup" \in Expirable
  /\ StartupMutexFree /\ ~startupComplete
  /\ startupMutex' = t
  /\ UNCHANGED <<connected, startupComplete, waiterVars, restVars>>

MarkConnected(t) ==
  /\ Move(t, "mark", "announce")
  /\ connected' = TRUE
  /\ UNCHANGED <<startupVars, waiterVars, restVars>>

\* The result of the optional setPermitJoin() is only logged.
AnnounceConnected(t) ==
  /\ AfterCallback(t, "announce", "idle")
  /\ connectedEvents' = connectedEvents + 1
  /\ UNCHANGED <<driverVars, coordinator, countVars, disconnectedEvents,
                 terminated>>

-----------------------------------------------------------------------------
(***************************************************************************)
(* disconnect(): called by the application, by the error paths of          *)
(* connect(), or by the event callback on whichever thread emits the event.*)
(***************************************************************************)
DisconnectCall(t) ==
  /\ Move(t, "idle", "check")
  /\ UNCHANGED dataVars

\* Nothing to undo.  The return of connect() also releases startupMutex_ when
\* the call came from the expired start-up wait.
NothingToDisconnect(t) ==
  /\ Move(t, "check", "idle")
  /\ ~joinable /\ port = "null"
  /\ startupMutex' = IF startupMutex = t THEN NoThread ELSE startupMutex
  /\ UNCHANGED <<connected, startupComplete, waiterVars, restVars>>

BeginDisconnect(p) ==
  /\ Move(p, "check", "exchange")
  /\ joinable \/ port # "null"
  /\ UNCHANGED dataVars

ExchangeConnected(p) ==
  /\ Move(p, "exchange", "cancel")
  /\ wasConnected' = [wasConnected EXCEPT ![p] = connected]
  /\ connected' = FALSE
  /\ UNCHANGED <<startupVars, waiterVars, portVars, ioVars, worldVars>>

\* The waiters are flagged and dropped; their promises are not set.
CancelWaiters(p) ==
  /\ Move(p, "cancel", "unblock")
  /\ waiters' = {}
  /\ UNCHANGED <<connected, startupVars, promise, restVars>>

UnblockStartup(p) ==
  /\ Move(p, "unblock", "stop")
  /\ StartupMutexFree
  /\ startupComplete' = TRUE
  /\ UNCHANGED <<connected, startupMutex, waiterVars, restVars>>

StopIo(p) ==
  /\ Move(p, "stop", "joinable")
  /\ stopped' = TRUE
  /\ UNCHANGED <<threadVars, wasConnected, portVars, joinable, lateRead, batch, worldVars>>

TestJoinable(p) ==
  /\ Move(p, "joinable", IF joinable THEN "join" ELSE "close")
  /\ UNCHANGED dataVars

JoinIoThread(t) ==
  /\ pc[t] = "join" /\ pc[Io] = "exited" /\ joinable
  /\ pc' = [pc EXCEPT ![t] = "close", ![Io] = "none"]
  /\ joinable' = FALSE
  /\ UNCHANGED <<threadVars, wasConnected, portVars, stopped, lateRead, batch, worldVars>>

\* join() throws when a thread joins itself, or joins a thread that another
\* caller has joined since the test; disconnect() is noexcept.
JoinThrows(p) ==
  /\ pc[p] = "join"
  /\ p = Io \/ ~joinable
  /\ Terminate
  /\ UNCHANGED <<pc, driverVars, coordinator, countVars, eventVars>>

ClosePort(t) ==
  /\ Move(t, "close", "restart")
  /\ port' = "null"
  /\ reader' = "none"
  /\ AbandonRead
  /\ line' = <<>>
  /\ UNCHANGED <<threadVars, wasConnected, joinable, stopped, batch, worldVars>>

RestartIo(t) ==
  /\ Move(t, "restart", "farewell")
  /\ stopped' = FALSE
  /\ startupComplete' = FALSE
  /\ UNCHANGED <<connected, startupMutex, waiterVars, wasConnected, portVars,
                 joinable, lateRead, batch, worldVars>>

FarewellSilently(t) ==
  /\ Move(t, "farewell", "idle")
  /\ ~wasConnected[t]
  /\ UNCHANGED dataVars

AnnounceDisconnected(t) ==
  /\ AfterCallback(t, "farewell", "idle")
  /\ wasConnected[t]
  /\ wasConnected' = [wasConnected EXCEPT ![t] = FALSE]
  /\ disconnectedEvents' = disconnectedEvents + 1
  /\ UNCHANGED <<threadVars, portVars, ioVars, coordinator, countVars,
                 connectedEvents, terminated>>

-----------------------------------------------------------------------------
(***************************************************************************)
(* The I/O thread: ioc_.run(), the read handler and the frame handlers     *)
(***************************************************************************)

\* handleRead() with data: one chunk may hold several frames.  A stopped
\* io_context starts no further handler, and handlers run in the order in which
\* they were queued.
ReadChunk ==
  /\ Move(Io, "run", "dispatch")
  /\ ~stopped /\ ~lateRead /\ reader = "armed"
  /\ \E n \in 1 .. Len(line) :
       /\ batch' = SubSeq(line, 1, n)
       /\ line' = SubSeq(line, n + 1, Len(line))
  /\ reader' = "busy"
  /\ UNCHANGED <<threadVars, wasConnected, port, joinable, stopped, lateRead, worldVars>>

\* A handler of an earlier session runs and reads through a pointer to the port
\* that is gone: nothing is said of what follows (module SerialPort has the bytes).
TouchDestroyedPort ==
  /\ Move(Io, "run", "astray")
  /\ ~stopped /\ lateRead
  /\ UNCHANGED dataVars

\* notifyWaiters(): flagged waiters are erased first.  Every waiter of connect()
\* has the same predicate, so which of them is served first is left open.
ServeWaiter(frame) ==
  LET live == waiters \ Cancelled
  IN  IF frame = "RESET_IND" /\ live # {}
      THEN \E t \in live : /\ promise' = [promise EXCEPT ![t] = TRUE]
                           /\ waiters' = live \ {t}
      ELSE waiters' = live /\ UNCHANGED promise

\* dispatchFrame(): the waiters, then the handler; SYS_RESET_IND has an empty one.
DispatchFrame ==
  /\ pc[Io] = "dispatch" /\ batch # <<>>
  /\ ServeWaiter(Head(batch))
  /\ IF Head(batch) = "RESET_IND"
     THEN batch' = Tail(batch) /\ UNCHANGED pc
     ELSE Move(Io, "dispatch", "handle") /\ UNCHANGED batch
  /\ UNCHANGED <<connected, startupVars, wasConnected, portVars, joinable,
                 stopped, lateRead, worldVars>>

\* The handler's event is emitted; for ZB_COORD the start-up flag is still to set.
EmitFrameEvent ==
  /\ LET coord == Head(batch) = "ZB_COORD"
     IN  /\ AfterCallback(Io, "handle", IF coord THEN "complete" ELSE "dispatch")
         /\ batch' = IF coord THEN batch ELSE Tail(batch)
  /\ UNCHANGED <<threadVars, wasConnected, portVars, joinable, stopped, lateRead,
                 worldVars>>

CompleteStartup ==
  /\ Move(Io, "complete", "dispatch")
  /\ StartupMutexFree
  /\ startupComplete' = TRUE
  /\ batch' = Tail(batch)
  /\ UNCHANGED <<connected, startupMutex, waiterVars, wasConnected, portVars,
                 joinable, stopped, lateRead, worldVars>>

RearmRead ==
  /\ Move(Io, "dispatch", "run")
  /\ batch = <<>>
  /\ reader' = IF reader = "busy" THEN "armed" ELSE reader
  /\ UNCHANGED <<threadVars, wasConnected, port, line, ioVars, worldVars>>

\* handleRead() with an error: no further read is started.  onSerialError()
\* reads connected_ here and writes it in a later step.
ReadFails ==
  /\ Move(Io, "run", IF connected THEN "errorStore" ELSE "run")
  /\ ~stopped /\ ~lateRead /\ reader = "armed"
  /\ errors < MaxReadErrors
  /\ errors' = errors + 1
  /\ reader' = "dead"
  /\ UNCHANGED <<threadVars, wasConnected, port, line, ioVars, coordinator,
                 attempts, reboots, eventVars, terminated>>

ErrorClearsConnected ==
  /\ Move(Io, "errorStore", "errorEmit")
  /\ connected' = FALSE
  /\ UNCHANGED <<startupVars, waiterVars, restVars>>

AnnounceSerialError ==
  /\ AfterCallback(Io, "errorEmit", "run")
  /\ disconnectedEvents' = disconnectedEvents + 1
  /\ UNCHANGED <<driverVars, coordinator, countVars, connectedEvents,
                 terminated>>

RunReturns ==
  /\ Move(Io, "run", "exited")
  /\ stopped
  /\ UNCHANGED dataVars

-----------------------------------------------------------------------------
(***************************************************************************)
(* The coordinator's firmware, as far as the driver sees it                *)
(***************************************************************************)
CoordinatorBoots ==
  /\ coordinator = "resetting"
  /\ coordinator' = "booted"
  /\ line' = Received("RESET_IND")
  /\ UNCHANGED <<pc, threadVars, wasConnected, port, reader, ioVars, countVars,
                 eventVars, terminated>>

CoordinatorStarts ==
  /\ coordinator = "starting"
  /\ coordinator' = "up"
  /\ line' = Received("ZB_COORD")
  /\ UNCHANGED <<pc, threadVars, wasConnected, port, reader, ioVars, countVars,
                 eventVars, terminated>>

\* A watchdog or a power glitch: no handler of the driver reacts to the
\* SYS_RESET_IND that follows, except a waiter that happens to be registered.
CoordinatorReboots ==
  /\ coordinator # "resetting"
  /\ reboots < MaxReboots
  /\ reboots' = reboots + 1
  /\ coordinator' = "resetting"
  /\ UNCHANGED <<pc, driverVars, attempts, errors, eventVars, terminated>>

CoordinatorTraffic ==
  /\ coordinator = "up" /\ port = "open"
  /\ Len(line) < MaxLine
  /\ line' = Append(line, "OTHER")
  /\ UNCHANGED <<pc, threadVars, wasConnected, port, reader, ioVars, worldVars>>

-----------------------------------------------------------------------------
(***************************************************************************)
(* The specification                                                       *)
(***************************************************************************)
ApplicationCalls(t) == ConnectRefused(t) \/ ConnectCall(t) \/ DisconnectCall(t)

ConnectStep(t) ==
  \/ OpenPort(t) \/ StartIoThread(t) \/ SysReset(t)
  \/ RegisterWaiter(t) \/ FrameReceived(t) \/ ResetWaitExpires(t)
  \/ CancelOwnWaiter(t) \/ DropWaiter(t)
  \/ StartupFromApp(t) \/ CoordinatorIsUp(t) \/ StartupWaitExpires(t)
  \/ MarkConnected(t) \/ AnnounceConnected(t)

\* The steps of disconnect() that any thread can reach, the I/O thread through
\* the callback; past join() only the application's threads remain.
DisconnectStep(p) ==
  \/ BeginDisconnect(p) \/ ExchangeConnected(p) \/ CancelWaiters(p)
  \/ UnblockStartup(p) \/ StopIo(p) \/ TestJoinable(p) \/ JoinThrows(p)

DisconnectTail(t) ==
  \/ NothingToDisconnect(t) \/ JoinIoThread(t) \/ ClosePort(t) \/ RestartIo(t)
  \/ FarewellSilently(t) \/ AnnounceDisconnected(t)

ThreadStep(t) == ConnectStep(t) \/ DisconnectStep(t) \/ DisconnectTail(t)

IoStep ==
  \/ ReadChunk \/ DispatchFrame \/ EmitFrameEvent \/ CompleteStartup \/ RearmRead
  \/ ReadFails \/ ErrorClearsConnected \/ AnnounceSerialError \/ RunReturns
  \/ TouchDestroyedPort \/ DisconnectStep(Io)

Firmware == CoordinatorBoots \/ CoordinatorStarts

\* The model stops where the process is killed or its behaviour is undefined.
Running == ~terminated /\ pc[Io] # "astray"

Next ==
  /\ Running
  /\ \/ \E t \in Threads : ApplicationCalls(t) \/ ThreadStep(t)
     \/ IoStep
     \/ Firmware \/ CoordinatorReboots \/ CoordinatorTraffic

Spec == Init /\ [][Next]_vars

\* The operating system schedules every thread that can run, timers expire,
\* and the firmware finishes what it has begun.  Nobody has to call anything.
Fairness ==
  /\ \A t \in Threads : WF_vars(Running /\ ThreadStep(t))
  /\ WF_vars(Running /\ IoStep)
  /\ WF_vars(Running /\ Firmware)

FairSpec == Spec /\ Fairness

-----------------------------------------------------------------------------
(***************************************************************************)
(* Safety                                                                  *)
(***************************************************************************)
HoldsNoCall(t) == pc[t] = "idle"
AllIdle == \A t \in Threads : HoldsNoCall(t)

\* No waiter outlives the call that registered it, and none whose promise is
\* set stays registered: notifyWaiters() (cpp:490-505) sets no promise twice,
\* which would throw, and no predicate of a returned call is run.
WaiterDiscipline ==
  \A t \in waiters : pc[t] \in {"await", "expired", "cancelled"} /\ ~promise[t]

\* startupMutex_ is held across a step only by a thread inside the disconnect()
\* that follows its own expired start-up wait (cpp:88-97), and no further than
\* the point where that disconnect() locks the same mutex (cpp:131).
MutexDiscipline ==
  \A t \in Threads :
    startupMutex = t => pc[t] \in {"check", "exchange", "cancel", "unblock"}

\* isConnected() tells the truth: while connected_ is set there is an open port,
\* an I/O thread, and an io_context that runs its handlers (cpp:100, cpp:120).
ConnectedUsable == connected => port = "open" /\ joinable /\ ~stopped

\* Life-cycle events alternate while the line has not failed: every
\* DongleConnectedEvent is followed by exactly one DongleDisconnectedEvent before
\* the next (cpp:101, cpp:154-160).
EventsAlternate == errors = 0 => connectedEvents - disconnectedEvents \in {0, 1}

\* At rest: once every call has returned, isConnected() is true only of a dongle
\* that has an open port and a thread to serve it.  "All public methods are
\* thread-safe" (ZigbeeDongle.hpp:78).
ConnectedAtRest == AllIdle /\ connected => port = "open" /\ joinable

\* Whatever calls race with each other and with a failing line, no more sessions
\* are announced as ended than were announced as begun, but for the sessions whose
\* DongleConnectedEvent is still to come (cpp:100-101) and one report for every
\* failure of the line (cpp:274-280): of two disconnect() calls that race for one
\* session only one tells the application (cpp:120).
EndsAccounted ==
  disconnectedEvents <=
    connectedEvents + Cardinality({t \in Threads : pc[t] = "announce"}) + errors

\* No legal sequence of calls kills the process (cpp:47, cpp:141).
NeverTerminates == ~terminated

\* The one way a single caller can kill the process is connect() after a serial
\* error, at the thread assignment: no other failure of connect(), no time-out and
\* no disconnect() leaves a joinable thread behind or joins a thread twice
\* (cpp:47, cpp:50-84, cpp:141).
OnlyReconnectTerminates ==
  terminated => errors > 0 /\ \E t \in Threads : pc[t] = "spawn"

\* "Reset for potential reuse" (cpp:148-152): once no call is in progress and the
\* port object is gone, every flag, lock, waiter, thread and buffer of the driver is
\* as before the first connect(), however the session went.  What may be left is in
\* ioc_, lateRead: restart() does not drop the handler of a read that completed too
\* late, and nothing is said here of the session that runs it.
OnlyLateReadsSurvive ==
  AllIdle /\ port = "null" =>
    /\ ~connected /\ ~joinable /\ ~stopped /\ ~startupComplete
    /\ pc[Io] = "none" /\ reader = "none" /\ line = <<>> /\ batch = <<>>
    /\ waiters = {} /\ startupMutex = NoThread

\* A session that was announced and has ended is announced as ended, whichever of
\* disconnect() and onSerialError() ended it (cpp:120, cpp:274-276).
LossReported ==
  AllIdle /\ pc[Io] \notin {"errorStore", "errorEmit"} /\ ~connected
    => disconnectedEvents >= connectedEvents

(***************************************************************************)
(* What a step may never do                                                *)
(***************************************************************************)

\* DongleConnectedEvent is emitted only when the coordinator's stack runs
\* (ZigbeeEvent.hpp:16, cpp:86-101).
ConnectedMeansCoordinatorUp ==
  [][connectedEvents' > connectedEvents => coordinator = "up"]_vars

\* While the line has not failed, DongleDisconnectedEvent is emitted only when the
\* serial port is closed (ZigbeeEvent.hpp:22, cpp:154-160, cpp:274-281).
DisconnectedMeansPortClosed ==
  [][disconnectedEvents' > disconnectedEvents /\ errors = 0 => port # "open"]_vars

\* A frame is handed to a connect() that can still take it: never to one whose wait
\* has been given up and flagged, or has returned, or is at another step (cpp:474-485,
\* cpp:494-505).  Between the expiry and the flag (cpp:474-476) a frame may still be
\* handed over; the verdict is then Timeout and the frame is lost.
FramesReachLiveCalls ==
  [][\A t \in Threads : promise'[t] /\ ~promise[t] => pc[t] \in {"await", "expired"}]_vars

(***************************************************************************)
(* Liveness                                                                *)
(***************************************************************************)

\* connect() and disconnect() return (ZigbeeDongle.hpp:101-107).
CallsReturn == \A t \in Threads : pc[t] # "idle" ~> pc[t] = "idle"

\* As long as the model runs, the only call that never returns is the one that blocks
\* on the startupMutex_ it holds itself (cpp:88-97 with cpp:131): every other wait of
\* connect() and disconnect() - for a frame, for the coordinator, for the I/O thread -
\* ends, even when the line fails or the coordinator reboots on its own in the middle.
OnlySelfDeadlockHangs ==
  \A t \in Threads :
    pc[t] # "idle" ~> \/ pc[t] = "idle" \/ ~Running
                      \/ pc[t] = "unblock" /\ startupMutex = t
=============================================================================
