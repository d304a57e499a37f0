# Formal models of the Sonoff Zigbee dongle driver

The repository is a C++23 library, about 1,700 lines, that drives a CC2652P USB
dongle running Z-Stack: it opens a serial port with asio, frames and parses the ZNP
protocol, keeps a registry of the devices of the network and reports what happens
through an event callback. This directory holds TLA+ modules of its behaviour, TLC
configurations that check them on small instances, and TLAPS proofs of the
properties that hold for every instance. Paths below are those of the repository
(`src/ZigbeeDongle.cpp` and so on); `cpp:` alone means `ZigbeeDongle.cpp` in the
text about the dongle, and `ZNPFrame.cpp` in the text about the parser.

## 1. The system

### Threads

There is one I/O thread, `ioThread_`, which runs `ioc_.run()` and on it every read
handler, frame handler and most event callbacks. The application calls the public
methods from threads of its own. `ZigbeeDongle.hpp:78` promises that all of them but
`setEventCallback()` are thread-safe.

### Components

| Component | State | Operations | Talks to |
|---|---|---|---|
| Life cycle (`cpp:32-161`) | `connected_`, `port_`, `ioThread_`, `ioc_`, `workGuard_` | `connect()`, `disconnect()`, `onSerialError()` | opens and destroys the port, starts and joins the I/O thread, emits events |
| Waiters and start-up (`cpp:86-98, 462-505`) | `waiters_` + `waitersMutex_`, `startupComplete_` + `startupMutex_` + `startupCv_` | `waitForFrame()`, `notifyWaiters()`, cancellation in `disconnect()` | blocks `connect()` until the I/O thread has seen a frame |
| Dispatch and events (`cpp:263-405, 511`) | none of its own | `onSerialData()`, `dispatchFrame()`, the four handlers, `emitEvent()` | calls the application on the emitting thread, which may call back |
| Device registry (`cpp:186-220, 515-534`) | `devicesByEui_`, `addrToEui_` + `devicesMutex_` | `addOrUpdateDevice()`, `removeDevice()`, `findDevice()`, `devices()` | shared by the I/O thread and the application; hands out `shared_ptr`s |
| Codec and parser (`ZNPFrame.cpp`) | `state_`, `length_`, `cmd0_`, `cmd1_`, `dataAccum_`, `frames_` | `serialize()`, `deserialize()`, `feed()`, `nextFrame()` | fed by the I/O thread |
| `SerialPort` | the asio handle, the read buffer, two callbacks | `open()`, `close()`, `write()`, the read loop | read loop on the I/O thread, writes on any |
| `ZigbeeDevice` | identity, short address, name, timestamps | getters and setters | shared without a lock |
| Messaging (`cpp:167-180, 226-257`) | `afSeqNum_` | `sendMessage()`, `setPermitJoin()` | one write each, no answer awaited |
| Constants, example program, build files | - | - | - |

### What is hard

`PROJECT.json` lists the hazards line by line. In short:

- **Locks held across calls.** `connect()` calls `disconnect()` while it holds
  `startupMutex_` (`cpp:94-95`), which `disconnect()` locks (`cpp:131`).
- **Ownership of the I/O thread.** Only `disconnect()` joins it, but `connected_`, which
  guards `connect()`, is also cleared by `onSerialError()`.
- **One flag, two meanings.** `startupComplete_` says "the coordinator is up", and
  `disconnect()` raises it to say "stop waiting".
- **Callbacks.** Events are emitted without locks, on the I/O thread or on the caller's,
  and the callback may re-enter.
- **Late, early and stale frames**, against a wait that is registered after the request
  is written and expires on its own.
- **Two maps that mirror each other**, keyed by addresses the network reuses.
- **A byte stream without framing guarantees.**
- **A queue that outlives its callers.** The `io_context` keeps completed handlers across
  `stop()` and `restart()`, and they hold a raw pointer to a port that is destroyed in
  between (`SerialPort.cpp:109`, `cpp:139-149`).
- **Requests nobody serializes**: `write()` in parts and a counter incremented by a load and
  a store, on any number of threads.

### What makes each component correct

- Life cycle: `connected_` implies a working session; sessions are announced, and their
  ends announced once; every call returns; the process survives; no flag, lock, waiter or
  thread of a session is left for the next.
- Waiters: nobody's promise is set twice, no frame goes to a call that has returned or has
  flagged its wait as given up, a mutex is never held longer than the code says.
- Registry: the index never lies, an address that is one device's own always finds it, the
  events tell the same story as the maps.
- Dispatch: what the application is told is what the coordinator meant, and the maps do
  what the registry's specification allows.
- Port: one read at a time, no byte lost, doubled or moved, an error reported once, and no
  handler on a port that is gone.
- Requests: a request reported as sent is on the line, whole.
- Parser: only genuine frames come out, stale registers are never used, the parser is never
  further into a frame than the longest one, and a frame that starts while it waits for an SOF
  is not lost.

## 2. The modules

| Module | Models | Proofs |
|---|---|---|
| `DongleLifecycle` | `connect()`, `disconnect()`, the I/O thread, waiters, start-up wait, serial errors, reboots of the coordinator, life-cycle events | `DongleLifecycleProofs`, `DongleSessionProofs` |
| `DongleSession` | what the header and the event comments promise one caller: the abstract specification of the life cycle | |
| `DongleRefinement` | the mapping from `DongleLifecycle` to `DongleSession` | `DongleRefinementProofs` |
| `FrameDispatch` | `dispatchFrame()` and the handlers of device frames on the bytes of their payloads, the `ZigbeeDevice` objects, the events; maps itself to `DeviceRegistry` | `FrameDispatchProofs` |
| `DeviceRegistry` | the two maps, the handlers that use them, `removeDevice()` | `DeviceRegistryProofs` |
| `FrameParser` | the wire format, `serialize()`, `deserialize()`, `feed()`, `nextFrame()` | `FrameParserProofs` |
| `SerialLink` | `FrameParser` at the end of a serial line with faults, and the driver that empties its queue | `FrameParserProofs` |
| `SerialPort` | `SerialPort` and the queue of the `io_context` it runs on | `SerialPortProofs` |
| `Messaging` | `SerialPort` with the threads that send requests: `sendMessage()`, `setPermitJoin()`, `write()`, `afSeqNum_` | `MessagingProofs` |
| `MCDongleLifecycle`, `MCDeviceRegistry`, `MCFrameDispatch`, `MCSerialLink`, `MCMessaging` | instances for TLC | |

How they fit together: `DongleLifecycle` takes frames whole; `SerialLink` and `FrameParser`
are what makes frames of bytes, and `SerialPort` what brings the bytes in order.
`DongleLifecycle` treats a frame of a device as `OTHER`; `FrameDispatch` says what is in it
and does with it what `DeviceRegistry` allows. `Messaging` adds the way out.

Each component's module ends with its properties. It also holds *faulty variants*:
operators named `<Definition>_<Fault>` that no specification uses. Each is the
definition it is named after with a plausible bug in it (an early return that skips the
clean-up, a flag that is not reset, an off-by-one); put in the place of that definition
it makes TLC report the property it is listed with in `PROJECT.json`.

### DongleLifecycle

`pc[p]` is the next step of thread `p`. A step ends where another thread can be seen to
interfere: at an atomic access, a critical section, a system call, a blocking wait, or a
call of the event callback. The correspondence:

| Code | Model |
|---|---|
| `connected_`, `startupComplete_` | `connected`, `startupComplete` |
| `startupMutex_` | `startupMutex`, its holder *between two steps*; a critical section that does not block inside is one step guarded by `StartupMutexFree` |
| `waiters_`, the promises | `waiters` (the threads that wait), `promise[t]` |
| `FrameWaiter::cancelled` | `Cancelled`: the waiters whose thread is at `cancelled`, between the store of the flag (`cpp:476`) and the lock that erases (`cpp:478-485`); `ServeWaiter` and `DropWaiter` skip and erase them |
| `waitersMutex_` | nothing: each of its critical sections is one step |
| `port_` | `port`: `null`, `closed` (object, not open), `open`; `reader`: its read loop |
| `ioThread_.joinable()`, `ioc_.stopped()` | `joinable`, `stopped` |
| handlers of a destroyed port in `ioc_` | `lateRead`: one of a read that had completed is queued (`AbandonRead`); the next `run()` takes it first (`TouchDestroyedPort`) |
| chunk of bytes being handled | `batch`; what is still on the line is `line` |
| the firmware | `coordinator`: `resetting`, `booted`, `starting`, `up` |

`ConnectStep` follows `connect()` from top to bottom (`open`, `spawn`, `reset`,
`listen`, `await`, `startup`, `awaitCoord`, `mark`, `announce`); every error path of
`connect()` goes to `check`, the first step of `disconnect()`, as in the code.
`DisconnectStep(p)` can be taken by the I/O thread too, when the callback calls
`disconnect()`; past the join only `DisconnectTail(t)` remains, because the I/O thread
cannot get there (`JoinThrows`). `std::terminate()` sets `terminated` and stops
everything. So does `TouchDestroyedPort`, after which nothing is known (`Running`). Handlers
that were aborted return at once and are left out; those of reads that completed are not:
`ClosePort`, and `OpenPort` when it replaces a port, may leave one in `ioc_` if `LateReads` says
that reads may complete while it is stopped. What such a handler does with its bytes is
`SerialPort`'s subject.

Writes are one step that succeeds only on an open port and may fail on one. Frames
arrive whole and in order: the byte level is `SerialLink`'s. A chunk of any number of
frames is read at once, as `async_read_some()` may return them. The firmware answers a
reset with `RESET_IND` and a start-up request with `ZB_COORD`, both only after the
request and only if it is in a state to hear it; it may be in any state of
`InitialCoordinator` when the program starts, so indications of an earlier session may
be on their way, and up to `MaxReboots` times it reboots on its own, in any state.
`Expirable` says which waits may expire: `startup`, `reset` (at any time), or `lost` (the wait for
`RESET_IND` expires only when the indication cannot come any more).

### DongleSession and DongleRefinement

`DongleSession` has neither threads nor locks: a phase (`down`, `busy` inside a call,
`established` between `connected_` and its event, `up`, `ending`), whether the port is
held, and the two counts of events. `DongleRefinement` reads the phase off `connected_`, the
local `wasConnected` and being inside a call. Every step of the driver is a step of
the session or a stutter.

### DeviceRegistry

A device is its EUI-64; what `devicesByEui_` holds of it is its short address. `Reindex`
and `Unregister` are the updates of the two maps, `AddOrUpdateDevice`, `RemoveLeft` and
`RemoveDevice` the critical sections that contain them. A handler that emits an event or
uses a device after unlocking is several steps, with `task` in between, and the
application's `RemoveDevice` gets in between any two of them. A frame whose payload is
too short, or that is lost, is one that is never handled. `MayUse[e]` is what the network
may give to device `e`; addresses that several devices may use are the interesting case.
`members` and `removed` record what the events and the application said.

### FrameDispatch

A payload is a sequence of bytes, indexed from 1. `Receive(f)` takes what the coordinator
means (`f`), encodes it in the layout the comments in the handlers give (`Encoding`,
external), and hands it over whole, cut short or with a byte too many. Everything after
that is the code's: the length tests (`Complete`), the offsets (`Addr`, `Eui`, `Rejoin`,
...), the maps and the device objects, the event. A handler has the same steps as in
`DeviceRegistry`, and the refinement mapping forgets the payload, the capabilities and the
last-seen time. The time `lastSeen_` holds is represented by the device whose frame it
was taken from: that is what can be wrong about it.

### SerialPort

asio is external: a read that was started completes at any later time, whether or not
`run()` executes, `close()` completes it as aborted, and handlers wait in `ready` until
`run()` takes them, sessions later if need be. `OpenPort` ... `DestroyPort` are the steps
with which `connect()` and `disconnect()` of one caller use the port; the I/O thread has
`BeginHandler`, the branches of `handleRead()` (`ReadAborted`, `ReportError`,
`DeliverData` and then `StartNextRead`) and `RunReturns`. A `connect()` after a read error,
which replaces the port under the running I/O thread and ends in `std::terminate()`, is left
out here; `DongleLifecycle` has it. A handler carries the number of the port
it was made by; if that port is gone and the handler goes past its test for
`operation_aborted`, `misused` is set and the behaviour ends, because nothing is known of
it from then on. `open()` may fail at the device or at a `set_option()`, of which only the last
is looked at (`OptionsAccepted`); a setting that failed unnoticed garbles the
bytes.

### Messaging

A call is `load`, `store` (the two halves of `afSeqNum_++`), `check` (`sendFrame()` looks at
`port_`) and `write`, in `Parts` parts, of which any may be refused. The requests
of `connect()` itself are `SetPermitJoin` here: they go the same way. A write that is
overtaken by `port_.reset()` ends the behaviour (`WriteAfterReset`). `overlapped` and
`numbers` are histories: which requests were in `write()` together, and which number was
loaded by whom while another's store was outstanding.

### FrameParser and SerialLink

`Feed(b)` is one turn of the loop of `feed()`, one disjunct per `case`. The registers are the
code's; `pending` and `raw` are histories: the bytes since the SOF, and those each queued frame
was made from. Bytes, SOF, `MAX_DATA_LEN`, the number of subsystems and the XOR are constants;
of the XOR only `XorLaws` are known: zero is neutral, and it commutes and associates. The loops
of the FCS are the recursive function in `XorFrom`. The two masks of CMD0 are a remainder and
its complement. The parser computes the FCS in its own order (`Computed`), the codec in another
(`ComputeFCS`), as in the code. `SerialLink` lets the coordinator send whole frames one after
the other, loses or adds `MaxFaults` bytes anywhere, and pops frames at any time.

## 3. What is checked

Deadlock is checked in the registry, parser and dispatch runs, and in `fresh`. In the other runs
of `DongleLifecycle` the system stops by design: when the calls of `connect()` are used up and
nobody calls, when the process is terminated, when a late handler has run, or when a call has
deadlocked on its own mutex. Termination and deadlock are what `OnlyReconnectTerminates`,
`CallsReturn` and `OnlySelfDeadlockHangs` are about. The port and messaging runs stop when their
ports, bytes and calls are used up and at a use of a destroyed port.

| Run | Instance | Shows |
|---|---|---|
| `sequential` | 1 thread, 3 connects, any initial firmware state, 1 reboot, both timeouts, 2 failures of the line, late reads | `ConnectedUsable`, `EventsAlternate`, `OnlyReconnectTerminates`, `OnlyLateReadsSurvive`, `LossReported`, `DisconnectedMeansPortClosed`; while the model runs every call returns but the one that has locked itself out (`OnlySelfDeadlockHangs`) |
| `fresh` | 1 thread, 3 connects, quiet firmware, no failure, no late read, the start-up wait long enough | the connected event means what its comment says (`ConnectedMeansCoordinatorUp`), `CallsReturn`, and the driver implements `DongleSession` (`ImplementsSession`) |
| `concurrent` | 2 threads, 2 connects, 1 failure, re-entrant callback, both timeouts, late reads, any initial firmware state | `TypeOK`, `WaiterDiscipline`, `MutexDiscipline`, `EndsAccounted`, `FramesReachLiveCalls` |
| `registry` | 3 devices, 4 addresses, one shared by two | `TypeOK`, `IndexSound`, `ExclusiveAddressFound`, `EventsMatchRegistry`, `SenderStillRegistered` |
| `dispatch` | 1-bit bytes, 3 devices, 2 of them with a shared address; payloads whole, cut or too long | `TypeOK`, `EventTellsTheFrame`, `SeenMeansHeard`, and the handlers implement `DeviceRegistry` (`ImplementsRegistry`) |
| `parser` | 3-bit bytes, SOF 7, at most 2 bytes of data, 2 faults | `ParserTypeOK`, `RegistersMatchInput`, `FrameExtentBounded`, `FramesGenuine`, `SyncedFrameQueued` |
| `serial_port` | 3 ports in turn, 3 bytes each, a buffer of 2, every failure | `OneReadOutstanding`, `BytesInOrder`, `ErrorsReportedOnce`, `OnlyLateReadsMisuse`; the read loop never stalls (`BytesAreRead`) |
| `messaging` | 2 senders, 3 requests of 2 parts, 2 ports, a counter of 2 values | `MsgTypeOK`, `RequestsWhole`, `NumbersRepeatOnlyByRace` |

Four runs show a comment of the headers contradicted by the code:

| Run | Comment | What happens |
|---|---|---|
| `startup_timeout` | `ZigbeeDongle.hpp:102` "Blocks until the coordinator is up or the startup timeout elapses." | when it elapses, `connect()` blocks for ever on the mutex it holds |
| `reconnect_after_error` | `ZigbeeDongle.hpp:101` "Open the serial port and initialise the Z-Stack coordinator.", failures in the `std::expected` | after a serial error, `connect()` terminates the process |
| `disconnect_during_connect` | `ZigbeeDongle.hpp:78` "All public methods are thread-safe" | `disconnect()` wakes `connect()`, which sets `connected_` after it was cleared; when both have returned the dongle is "connected" without port or thread (`ConnectedAtRest`) |
| `joined_findable` | `ZigbeeDongle.hpp:127` "Look up a device by short network address.  Returns nullopt if not found." | a registered device is not found under its address |

### Bounds, and why they are enough

- *Threads*: two. The hazards of the life cycle are pairs: a connect and a disconnect, two
  disconnects, a caller and the I/O thread. The invariants of `concurrent` are also proved
  for any number.
- *MaxConnects*: three with one caller: a session after a failed one after a good one;
  two where threads interfere. Sessions share `ioc_`, and of it only `lateRead`
  (`OnlyLateReadsSurvive`).
- *MaxReadErrors*: two with one caller, so that a second session can fail as well;
  one with two, as the read loop ends with it.
- *MaxReboots*: one, at any moment; what a reboot disturbs is one start-up.
- *MaxLine*: one or two frames in front of unsolicited traffic, so that answers and
  traffic can share a chunk in either order. Answers are never blocked by the bound.
- *Devices*: a device, one that shares an address with it, and one that does not.
- *Bytes*: 3 bits hold every class the parser distinguishes: SOF, a length that is
  allowed, one that is not and is not SOF, zero. The frames include data that look like an
  SOF and a length. Two faults allow a loss and a stray byte, or a stray SOF and length.
- *MaxQueue*: two frames not yet popped; the driver pops after each chunk.
- *Bytes of payloads*: one bit, so that an address has two; the EUI-64s, all their eight
  bytes, are chosen so that every wrong offset gives another device or another address.
- *Ports*: three: a handler left over from the first may meet the second, or one that has
  already left its own behind for the third. *BufSize* 2 and three bytes: reads that take all,
  some, and a buffer that is used again.
- *Requests*: three calls of two senders: two that race, and one before or after them.
  Two values of the counter and two parts are the least that can wrap and be torn. The messaging run has
  no incoming bytes and no read errors: nothing of the way out reads them.

### Where the properties stop

The restrictions of the passing runs are where the code's guarantees end. Lifting them
breaks the property:

- `ConnectedMeansCoordinatorUp` needs a quiet firmware: a `ZB_COORD` of a start-up that was
  under way before the reset ends the wait of `cpp:89` early.
- `DisconnectedMeansPortClosed` says nothing once the line has failed (`errors = 0` is part of
  it): on a read error the event is emitted while the port is open (`cpp:276`), against
  `ZigbeeEvent.hpp:22`. `EventsAlternate` is limited in the same way: `onSerialError()` tests and
  clears `connected_` in two steps, and `connected_` is set before the connected
  event is emitted.
- `OnlyReconnectTerminates` needs one caller and no `disconnect()` in the callback.
- `ImplementsSession` needs one caller, no `disconnect()` in the callback and a line that does
  not fail.
- `EndsAccounted` is what remains of it for any number of callers: a failure of the line may
  cost one report too many, because `onSerialError()` and `disconnect()` may both report it, and a
  report may come before the connected event.
- `FramesReachLiveCalls` allows a frame between the expiry of a wait and the store of its flag
  (`cpp:474-476`): the promise is set, the verdict is `Timeout` all the same, and the frame
  is lost. After the store no frame can be handed over.
- `OnlyLateReadsSurvive` needs one caller. It says nothing of the session that runs the late
  handler: the model ends there. `LossReported` needs one caller that does not
  disconnect from the callback either.
- `CallsReturn` needs an `io_context` that runs no handler of an earlier session (`LateReads` is
  `FALSE` in `fresh`), a start-up that beats its timeout and a coordinator that does not reboot
  on its own while it comes up.
- `OnlyLateReadsMisuse` names the one case in which "Stop async reads" (`SerialPort.hpp:56`) is not
  true: a read that completed while `ioc_.stop()` was under way stays in the queue, and the
  next session's `run()` executes its handler on the destroyed port. TLC reaches
  it (`TouchDestroyedPort`), so the property is not vacuous.
- `BytesInOrder` needs line settings that took effect: `open()` looks at the error
  of the last `set_option()` only (`SerialPort.cpp:61-71`).
- `RequestsWhole` promises one piece only to requests that were alone in `write()`: no lock is
  taken there, although `SerialPort.hpp:63` says "Thread-safe via an internal mutex". Of that
  comment there is no run of its own; that overlapped requests may be torn is in the premise of the
  property.
  `NumbersRepeatOnlyByRace` excuses numbers that raced (`cpp:236`).
- `SeenMeansHeard` needs addresses no other device may use: a message names its sender by
  address only. What an application may not expect: a known device
  that announces other capabilities keeps the first ones (`cpp:519-531`).
- A frame that follows a stray SOF is swallowed by the parser as the data of a frame that never was
  (`ZNPFrame.cpp`, `feed()`); `SyncedFrameQueued` therefore starts from a parser in step, and
  `FrameExtentBounded` bounds the bytes of one such frame, not the time until the parser is in step.
- `disconnect()` wakes a waiter only in the sense that its promise will not be set: the
  thread waits until its timeout (`cpp:122` says "unblock immediately").
- A `RESET_IND` that is handled before its waiter is registered is lost (`cpp:56, 308`);
  `connect()` then returns `Timeout`.

### Fairness

`FairSpec` adds weak fairness to each application thread's steps *inside a call*, to the
I/O thread, and to the firmware's answers. The operating system schedules threads that can
run, `wait_for()` expires, and a firmware that has begun to boot finishes. Nobody is
obliged to call anything, the line need not fail, and unsolicited traffic need not come.
Weak fairness is enough: a thread that waits for a mutex finds it free for good once the
owner's step is over, or, in the one case the runs show, never.

`FairPortSpec` adds weak fairness to the completion of a read, which the operating system
owes when bytes are there, and to the I/O thread. Nothing obliges the owner of the port, the
sender of the bytes, or a failure. `BytesAreRead` is all that depends on it.

## 4. What is proved

All proofs are checked by TLAPS from the named assumptions on the constants
(`ConstantsOK`, `RegistryConstants`, `DispatchConstants`, `WireConstants`, `XorOfBytes`,
`XorLaws`, `LinkConstants`, `SerialPortConstants`, `MessagingConstants`), which say no more than
that the constants are of their kinds and that `^` obeys the laws of an exclusive or; TLC
evaluates them in the runs.

**`DongleLifecycleProofs`**, for any number of threads, connects, read errors, with
re-entrant callbacks: `TypeCorrect`, `WaitersAreDisciplined`, `MutexIsDisciplined`,
`FramesReachTheirCalls`, `EndsAreAccounted`. The inductive invariant is the conjunction of the
first three properties with `ChunkHeld` (a handler at work has its frame at the head of the
chunk) and `IoThreadHandle` (the I/O thread has a step exactly if it is joinable). They need each
other: `TypeOK` of the I/O thread's step needs `ChunkHeld` to take the tail of the chunk,
and that a new I/O thread starts from nothing is `IoThreadHandle`.

`EndsAccounted` is not inductive: it does not say who may still announce an end. `EndsInv` does.
It counts, besides the ends announced, everyone entitled to announce one: the threads whose
`wasConnected` is set, `connected_` itself, and the error handler between its test of
`connected_` and its event. An entitlement is handed on: `MarkConnected` creates one
together with an announcement due, `ExchangeConnected` moves it from `connected_` to the caller's
`wasConnected`, an announcement spends it. The one step that copies it is the test in
`onSerialError()`, and that is paid for by `errors`.

**`DongleSessionProofs`**, for one caller and a callback that does not call
`disconnect()`: `ConnectedIsUsable`, read errors included, and on a line that does not fail
`LifecycleEventsAlternate`, and `SequentialUseIsSafe` (`OnlyReconnectTerminates`). `SessionInv` says
at which steps of the caller the port is open, the thread joinable and the `io_context`
stopped. `QuietInv` adds that the thread is joinable at rest exactly if connected, and that
`connectedEvents - disconnectedEvents` is 1 exactly from the announcement of the session
to the announcement of its end, with `wasConnected` carrying the debt through
`disconnect()`.

The second part of the module, for the same use of the dongle, is about how sessions end, read
errors and timeouts included: `DisconnectLeavesLateReadsOnly` (`OnlyLateReadsSurvive`) and
`LossIsReported`; on a line that does not fail, `EndMeansPortClosed`. `RestInv` says what is
already undone at each of the last steps of `disconnect()`, that the I/O thread leaves no chunk
behind, and who owes the application a `DongleDisconnectedEvent`: the session that is up, the
`disconnect()` that took it down, or the error handler that did. A session of which the end was
announced before its beginning is in credit by one while `connect()` is at its announcement.

The third part is `ConnectedMeansUp` (`ConnectedMeansCoordinatorUp`), for a coordinator that does
not reboot on its own and was not starting when the program began. `UpInv` says where a
`ZB_COORD` can be: nowhere from `OpenPort` to the start-up request, and in the wait for it
only if the coordinator runs; the coordinator starts only during that wait. The last point holds even
when the wait expires: that `connect()` has locked itself out for good (`startup_timeout`) and no
later session resets a coordinator that is about to announce itself. So the theorem needs
neither the bound on timeouts nor the error-free line of the run `fresh`.

**`DongleRefinementProofs`**, for the same use and a line that does not fail, with any number
of connects, timeouts and reboots: `DriverImplementsSession` (`ImplementsSession`). No new
invariant is needed: `SessionInv` says when the port is open, `RestInv` when it is closed
again, `QuietInv` what `wasConnected` stands for; the proof takes the actions one by one and names
the session's step of each.

**`SerialPortProofs`**, for any buffer, any number of ports and bytes, and any failures:
`PortTypeCorrect`, `OneReadIsOutstanding`, `ErrorsAreReportedOnce`, `LateReadsAreTheOnlyMisuse`,
`BytesArriveInOrder`. The core of `PortInv` is `ReadLoop`: the read of the port in use is in
exactly one of four places - under way, in the queue, in the handler, or over after a failure -
and handlers in the queue are otherwise of earlier ports. `LateInv` says that what earlier ports
left behind is aborted, or `late` is set; `ThreadInv` that the port is only closed when no
handler runs. `BytesInOrder` needs more than the place of the read: that the bytes of the
handler are those of `readBuf_`, all of them, which is a second invariant on top.

**`DeviceRegistryProofs`**, for any devices, addresses and `MayUse`: `TypeCorrect`,
`IndexIsSound`, `ExclusiveAddressIsFound`, `EventsAndRegistryAgree`,
`SenderKeepsAddress`; and `DisjointAddressesFindable`: if no two devices may be given the
same address, the property that the run `joined_findable` refutes holds. So the sharing of
addresses is the whole reason of that failure.

**`FrameParserProofs`**, for any alphabet, any `MAX_DATA_LEN` and any operation that obeys
`XorLaws`, on any stream of bytes:

- `ParserTypeCorrect`, `RegistersHoldInput`, `ExtentIsBounded` (`FrameExtentBounded`: at most
  `MAX_DATA_LEN + 4` bytes into a frame) and `FramesAreDelimited` (each queued frame is, field
  by field, the bytes between one SOF and one FCS, the FCS being the one the parser computes).
  `RegistersMatchInput` is what makes the rest inductive.
- `DeserializeInvertsSerialize` and `OnlyGenuineFrames` (`FramesGenuine`): `serialize()`,
  `deserialize()` and the parser compute the FCS in three orders over three copies of the bytes,
  and agree. The loop is an induction over the data. The library's induction theorems take an
  operator, which the provers cannot instantiate; `Induction` states it for a set and is derived
  from `<` being well-founded. With it: the loop has a value, started from elsewhere it differs
  by the start (associativity), and over a concatenation it goes on.
- `LinkRefinesParser`: the link with its faults implements `ParserSpec`, so all of these hold
  of it.
- `SyncedFramesAreQueued` (`SyncedFrameQueued`): the invariant is that while a frame is intact
  and began in step, what the parser holds (`pending`) and what is still on the
  wire are together the serialized frame; the step that takes the last byte then
  finds the registers full of it.

**`MessagingProofs`**, for any senders, requests, parts, ports and width of the counter:
`MsgTypeCorrect`, `RequestsAreWhole`, `NumbersRepeatByRace`. `MsgInv` holds the invariants of
`SerialPort` until a destroyed port is touched; that every request has one sender
(`CallInv`); that what a request under way has on the line are its first parts
(`LineInv`); and that one that is alone in `write()` has them at the end of the line (`AloneInv`),
which is what no other sender may disturb without being noted in `overlapped`. For the
numbers, `RunsOn` says that from one send to the next the counter goes on by one as
long as none races, and `LastNumber` where the next one will start: at the store that
is outstanding, or at the counter.

**`FrameDispatchProofs`**, for any devices, addresses, capabilities, contents and any width of a
byte. `DecodingUndoesEncoding` is about the payloads alone: every offset and length test of the
handlers, on whole payloads, on those with a byte too many, and on those cut short. On it rests
`FrameInv`: a handler is at work on a frame it reads correctly, and has emitted nothing or what
the frame means, or it is about to drop one that was cut short. `RegistryInv` adds that a device
has an address it may have been given, and `SenderInv` that the sender of a message under way
keeps the address it was looked up by, if it is still known. From these: `DispatchTypeCorrect`,
`EventsTellTheFrame`, `LastSeenWasHeard`, and `DispatchImplementsRegistry`
(`ImplementsRegistry`), which takes the handlers one by one and names the step of
`DeviceRegistry` each is. `HandlersKeepTheRegistry` draws the conclusion: it instantiates
`DeviceRegistryProofs` and obtains `IndexSound`, `ExclusiveAddressFound` and
`EventsMatchRegistry` of the handlers themselves.

### What is only model-checked

- Liveness (`CallsReturn`, `OnlySelfDeadlockHangs`, `BytesAreRead`): out of the prover's reach.
- The four disagreements with the comments: each is one counterexample.

Every safety and every action property of the passing runs is proved.

## 5. What is not modelled

- An event callback that calls `connect()`: `AfterCallback` has `disconnect()` only. From the
  I/O thread such a call is refused or ends in `std::terminate()` (`cpp:33, 47, 141`); in the event of a
  `disconnect()` on an application thread it begins a session inside that call.
- What follows when a late handler of a destroyed port runs: undefined behaviour in the code.
  `TouchDestroyedPort` and `misused` are where the models stop.
- What a thread does with `port_` after another has destroyed it: undefined behaviour in
  the code. The models stop at the wrong state that leads there (`misused`).
- Fields of `MessageReceivedEvent` that are copied from fixed positions without a branch
  (end points, cluster, link quality), and time stamps as times.
- `ZigbeeDevice`: the name, the predicates on capability bits and the formatting of an EUI-64 are
  plain setters and getters. `setShortAddr()` is public, but only the registry calls it;
  an application that does so too is outside the models. Torn reads of members that are
  not synchronised are not modelled either.
- `normalizePortName()`: it changes the name of a port on Windows.
- The bytes of requests: `Messaging` treats a request as its parts.
- Constants, the example program (one caller: connect, wait, disconnect, which is what
  the sequential runs do) and the build files: no behaviour of the library's own.

## 6. Plan

Done: life cycle, registry, parser, link, port, messaging; the session and the registry as
abstract specifications with their refinements; the theorems of section 4. What is left,
in this order:

1. The safety half of `OnlySelfDeadlockHangs`: a call that has locked itself out stays so, and no
   other step of a call waits for something its holder needs it for.
2. `SerialPort` below `DongleLifecycle`: the mapping of `ready`, `handler` and `pending` to
   `reader`, which would show that the life cycle's abstract read loop is the port's.
3. What two callers may still rely on: `concurrent` has the disciplines and `EndsAccounted`; a
   weaker form of `ConnectedUsable` for them, proved like it.
