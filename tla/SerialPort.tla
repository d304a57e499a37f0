------------------------------ MODULE SerialPort ------------------------------
(***************************************************************************)
(* SerialPort (src/src/SerialPort.cpp) on the io_context that outlives it: *)
(* open(), the asynchronous read loop, close(), and the order in which     *)
(* connect() and disconnect() of one caller use them.                      *)
(*                                                                         *)
(* asio is external, modelled by what the code relies on: a read that is   *)
(* started completes at any later time, whether or not run() is executing; *)
(* close() completes the reads still under way with operation_aborted;     *)
(* completion handlers wait in the queue of the io_context, run one at a   *)
(* time in run() while it is not stopped, and stay queued across stop()    *)
(* and restart().  A handler that touches a SerialPort that no longer      *)
(* exists ends the behaviour (misused): nothing more is known of it.       *)
(***************************************************************************)
EXTENDS Naturals, Sequences

CONSTANTS
  BufSize,      \* readBuf_.size()
  MaxPorts,     \* bound: SerialPort objects made, one per connect()
  MaxBytes,     \* bound: bytes that arrive at each of them
  Faults        \* bound: what may fail, of "open", "option" and "read"

ASSUME SerialPortConstants ==
  /\ BufSize \in Nat \ {0}
  /\ MaxPorts \in Nat /\ MaxBytes \in Nat
  /\ Faults \subseteq {"open", "option", "read"}

VARIABLES
  owner,       \* where connect() or disconnect() is with port_
  connected,   \* connected_
  made,        \* SerialPort objects made so far: the number of the present one
  isOpen,      \* port_.is_open()
  configured,  \* every set_option() of open() took effect
  pending,     \* reads of the present port under way
  ready,       \* completion handlers queued in the io_context
  handler,     \* the one that run() is executing
  running,     \* the I/O thread is in run()
  stopped,     \* ioc_ is stopped
  rx,          \* bytes received and not read, numbered as they arrive
  readBuf,     \* readBuf_, as far as it was filled last
  arrived,     \* bytes that have arrived at the present port
  delivered,   \* bytes given to the read callback by the present port
  failed,      \* a read of the present port has failed
  reported,    \* calls of the error callback since it was opened
  late,        \* a read that had completed was left in the queue by a session's end
  misused      \* a port was used after its end

ownVars  == <<owner, connected>>
objVars  == <<made, isOpen, configured>>
loopVars == <<pending, ready, handler>>
ioVars   == <<running, stopped>>
byteVars == <<rx, readBuf, arrived, delivered>>
errVars  == <<failed, reported>>
endVars  == <<late, misused>>
portVars == <<ownVars, objVars, loopVars, ioVars, byteVars, errVars, endVars>>

Owners    == {"none", "failed", "opened", "running", "up", "stopping", "closed"}
NoHandler == [port |-> 0, result |-> "none", n |-> 0]
Handlers  == [port : 1 .. made, result : {"data", "error", "aborted", "rearm"}, n : 0 .. MaxBytes]
\* A byte as it was sent, or 0 for one that a wrong line setting has garbled.
Bytes     == 0 .. MaxBytes

PortTypeOK ==
  /\ owner \in Owners /\ connected \in BOOLEAN
  /\ made \in 0 .. MaxPorts /\ isOpen \in BOOLEAN /\ configured \in BOOLEAN
  /\ pending \in Nat /\ ready \in Seq(Handlers) /\ handler \in Handlers \cup {NoHandler}
  /\ running \in BOOLEAN /\ stopped \in BOOLEAN
  /\ rx \in Seq(Bytes) /\ readBuf \in Seq(Bytes) /\ delivered \in Seq(Bytes)
  /\ arrived \in 0 .. MaxBytes
  /\ failed \in BOOLEAN /\ reported \in Nat /\ late \in BOOLEAN /\ misused \in BOOLEAN

PortInit ==
  /\ owner = "none" /\ connected = FALSE
  /\ made = 0 /\ isOpen = FALSE /\ configured = FALSE
  /\ pending = 0 /\ ready = <<>> /\ handler = NoHandler
  /\ running = FALSE /\ stopped = FALSE
  /\ rx = <<>> /\ readBuf = <<>> /\ arrived = 0 /\ delivered = <<>>
  /\ failed = FALSE /\ reported = 0 /\ late = FALSE /\ misused = FALSE

-----------------------------------------------------------------------------
(***************************************************************************)
(* Faulty variants, not part of the specification: each breaks a property  *)
(* when it takes the place of the definition it is named after.            *)
(***************************************************************************)

\* disconnect() does not wait for the I/O thread.
ClosePort_BeforeJoin ==
  /\ owner = "stopping" /\ owner' = "closed"
  /\ isOpen' = FALSE
  /\ ready' = ready \o [i \in 1 .. pending |-> [port |-> made, result |-> "aborted", n |-> 0]]
  /\ pending' = 0
  /\ late' = (late \/ \E i \in DOMAIN ready : ready[i].result \in {"data", "error"})
  /\ UNCHANGED <<connected, made, configured, handler, ioVars, byteVars, errVars, misused>>

\* The next read is armed before the callback has taken the bytes.
BeginHandler_ArmsFirst ==
  /\ running /\ ~stopped /\ handler = NoHandler /\ ready # <<>>
  /\ handler' = Head(ready)
  /\ ready' = Tail(ready)
  /\ pending' = IF Head(ready).result = "data" THEN pending + 1 ELSE pending
  /\ UNCHANGED <<ownVars, objVars, ioVars, byteVars, errVars, endVars>>

\* operation_aborted is reported like any other error.
ReadAborted_Reported ==
  /\ handler.result = "aborted"
  /\ handler' = NoHandler
  /\ reported' = reported + 1
  /\ UNCHANGED <<ownVars, objVars, pending, ready, ioVars, byteVars, failed, endVars>>

\* The handler forgets to read on ...
StartNextRead_Forgotten ==
  /\ handler.result = "rearm" /\ handler' = NoHandler
  /\ UNCHANGED <<ownVars, objVars, pending, ready, ioVars, byteVars, errVars, endVars>>

\* ... or starts two reads.
StartNextRead_Twice ==
  /\ handler.result = "rearm" /\ handler.port = made /\ owner # "none"
  /\ pending' = pending + 2
  /\ handler' = NoHandler
  /\ UNCHANGED <<ownVars, objVars, ready, ioVars, byteVars, errVars, endVars>>

-----------------------------------------------------------------------------
(***************************************************************************)
(* The thread in connect() or disconnect()                                 *)
(***************************************************************************)

\* The object with this number exists: port_ has not been reset or replaced.
Exists(port) == port = made /\ owner # "none"

Completed(port, result, n) == [port |-> port, result |-> result, n |-> n]

\* Only the error of the last set_option() is looked at: the others are overwritten.
ApplyOptions(others, last) == configured' = (others /\ last)
OptionsAccepted(others, last) == last

\* connect(): a new object replaces one whose open() failed.  A connect() that replaces a
\* port after a read error, under the running I/O thread, ends in std::terminate() at the
\* next line (module DongleLifecycle) and is left out here.
OpenPort ==
  /\ owner \in {"none", "failed"} /\ made < MaxPorts
  /\ made' = made + 1
  /\ \E found, others, last \in BOOLEAN :
       /\ found \/ "open" \in Faults
       /\ (others /\ last) \/ "option" \in Faults
       /\ LET good == found /\ OptionsAccepted(others, last) IN
           /\ owner' = IF good THEN "opened" ELSE "failed"
           /\ isOpen' = good
           /\ pending' = IF good THEN 1 ELSE 0
           /\ ApplyOptions(others, last)
  /\ rx' = <<>> /\ readBuf' = <<>> /\ arrived' = 0 /\ delivered' = <<>>
  /\ failed' = FALSE /\ reported' = 0
  /\ UNCHANGED <<connected, ready, handler, ioVars, endVars>>

StartThread ==
  /\ owner = "opened" /\ owner' = "running"
  /\ running' = TRUE
  /\ UNCHANGED <<connected, objVars, loopVars, stopped, byteVars, errVars, endVars>>

MarkConnected ==
  /\ owner = "running" /\ owner' = "up"
  /\ connected' = TRUE
  /\ UNCHANGED <<objVars, loopVars, ioVars, byteVars, errVars, endVars>>

\* disconnect(), from the application or after a failed step of connect().
StopIo ==
  /\ owner \in {"running", "up"} /\ owner' = "stopping"
  /\ connected' = FALSE
  /\ stopped' = TRUE
  /\ UNCHANGED <<objVars, loopVars, running, byteVars, errVars, endVars>>

\* After join(): the reads under way complete as aborted.
ClosePort ==
  /\ owner = "stopping" /\ ~running /\ owner' = "closed"
  /\ isOpen' = FALSE
  /\ ready' = ready \o [i \in 1 .. pending |-> Completed(made, "aborted", 0)]
  /\ pending' = 0
  /\ late' = (late \/ \E i \in DOMAIN ready : ready[i].result \in {"data", "error"})
  /\ UNCHANGED <<connected, made, configured, handler, ioVars, byteVars, errVars, misused>>

\* port_.reset() and ioc_.restart().
DestroyPort ==
  /\ owner \in {"closed", "failed"} /\ owner' = "none"
  /\ stopped' = FALSE
  /\ UNCHANGED <<connected, objVars, loopVars, running, byteVars, errVars, endVars>>

-----------------------------------------------------------------------------
(***************************************************************************)
(* The line and the operating system                                       *)
(***************************************************************************)
ByteArrives ==
  /\ isOpen /\ arrived < MaxBytes
  /\ arrived' = arrived + 1
  /\ rx' = Append(rx, IF configured THEN arrived' ELSE 0)
  /\ UNCHANGED <<ownVars, objVars, loopVars, ioVars, readBuf, delivered, errVars, endVars>>

CompleteRead ==
  /\ pending > 0
  /\ \E n \in 1 .. BufSize :
       /\ n <= Len(rx)
       /\ readBuf' = SubSeq(rx, 1, n)
       /\ rx' = SubSeq(rx, n + 1, Len(rx))
       /\ ready' = Append(ready, Completed(made, "data", n))
  /\ pending' = pending - 1
  /\ UNCHANGED <<ownVars, objVars, handler, ioVars, arrived, delivered, errVars, endVars>>

FailRead ==
  /\ pending > 0 /\ "read" \in Faults
  /\ failed' = TRUE
  /\ pending' = pending - 1
  /\ ready' = Append(ready, Completed(made, "error", 0))
  /\ UNCHANGED <<ownVars, objVars, handler, ioVars, byteVars, reported, endVars>>

-----------------------------------------------------------------------------
(***************************************************************************)
(* The I/O thread: run() and handleRead()                                  *)
(***************************************************************************)
BeginHandler ==
  /\ running /\ ~stopped /\ handler = NoHandler /\ ready # <<>>
  /\ handler' = Head(ready)
  /\ ready' = Tail(ready)
  /\ UNCHANGED <<ownVars, objVars, pending, ioVars, byteVars, errVars, endVars>>

\* Past the test for operation_aborted, handleRead() uses the port's members.
TouchDestroyedPort ==
  /\ handler.result \in {"data", "error", "rearm"} /\ ~Exists(handler.port)
  /\ misused' = TRUE
  /\ UNCHANGED <<ownVars, objVars, loopVars, ioVars, byteVars, errVars, late>>

\* An aborted read is not reported; onSerialError() ends the session otherwise.
ReadAborted ==
  /\ handler.result = "aborted"
  /\ handler' = NoHandler
  /\ UNCHANGED <<ownVars, objVars, pending, ready, ioVars, byteVars, errVars, endVars>>

ReportError ==
  /\ handler.result = "error" /\ Exists(handler.port)
  /\ handler' = NoHandler
  /\ reported' = reported + 1
  /\ connected' = FALSE
  /\ UNCHANGED <<owner, objVars, pending, ready, ioVars, byteVars, failed, endVars>>

\* The read callback takes the bytes, and only then is the next read started.
DeliverData ==
  /\ handler.result = "data" /\ Exists(handler.port)
  /\ delivered' = delivered \o SubSeq(readBuf, 1, handler.n)
  /\ handler' = [handler EXCEPT !.result = "rearm", !.n = 0]
  /\ UNCHANGED <<ownVars, objVars, pending, ready, ioVars, rx, readBuf, arrived, errVars,
                 endVars>>

StartNextRead ==
  /\ handler.result = "rearm" /\ Exists(handler.port)
  /\ pending' = pending + 1
  /\ handler' = NoHandler
  /\ UNCHANGED <<ownVars, objVars, ready, ioVars, byteVars, errVars, endVars>>

RunReturns ==
  /\ running /\ stopped /\ handler = NoHandler
  /\ running' = FALSE
  /\ UNCHANGED <<ownVars, objVars, loopVars, stopped, byteVars, errVars, endVars>>

-----------------------------------------------------------------------------
OwnerStep == OpenPort \/ StartThread \/ MarkConnected \/ StopIo \/ ClosePort \/ DestroyPort

HandleRead ==
  TouchDestroyedPort \/ ReadAborted \/ ReportError \/ DeliverData \/ StartNextRead

IoStep == BeginHandler \/ HandleRead \/ RunReturns

PortNext ==
  /\ ~misused
  /\ OwnerStep \/ ByteArrives \/ CompleteRead \/ FailRead \/ IoStep

PortSpec == PortInit /\ [][PortNext]_portVars

\* A read completes when there are bytes, and the I/O thread runs when it can.
FairPortSpec ==
  /\ PortSpec
  /\ WF_portVars(~misused /\ CompleteRead)
  /\ WF_portVars(~misused /\ IoStep)

-----------------------------------------------------------------------------
(***************************************************************************)
(* Properties                                                              *)
(***************************************************************************)
Mine(h) == h.port = made
InUse   == owner \in {"opened", "running", "up", "stopping"}
Queued  == {i \in DOMAIN ready : Mine(ready[i])}

\* readBuf_ serves one read at a time, and the loop ends only with a failure: a port
\* in use has one read, and it is under way, completed or in its handler
\* (SerialPort.cpp:76, SerialPort.cpp:105-111, SerialPort.cpp:126).
OneReadOutstanding ==
  InUse =>
    \/ pending = 1 /\ Queued = {} /\ ~Mine(handler)
    \/ pending = 0 /\ (\E i \in DOMAIN ready : Queued = {i}) /\ ~Mine(handler)
    \/ pending = 0 /\ Queued = {} /\ (Mine(handler) \/ failed)

\* What a completed read of the present port has put into readBuf_ and its handler has
\* not yet passed on.
InFlight ==
  IF \E h \in {handler} \cup {ready[i] : i \in Queued} : Mine(h) /\ h.result = "data"
  THEN readBuf ELSE <<>>

\* What is delivered, in flight and waiting is what was sent, in order and once,
\* from one open() to the next: no byte of another session is in it, and none is
\* overwritten in readBuf_ - unless a line setting failed unnoticed
\* (SerialPort.cpp:61-71, SerialPort.cpp:113-127).
BytesInOrder ==
  InUse /\ configured => delivered \o InFlight \o rx = [k \in 1 .. arrived |-> k]

\* close() is never taken for a failure, not even when the handler of the read it
\* aborted runs in the next session; a failure is reported once, and a session in use
\* that was told of none has a read loop (SerialPort.cpp:80-83, SerialPort.cpp:114-119).
ErrorsReportedOnce ==
  /\ reported <= IF failed THEN 1 ELSE 0
  /\ InUse /\ failed /\ reported = 0 => Queued # {} \/ Mine(handler)

\* "Stop async reads and close the underlying handle" (SerialPort.hpp:56) fails in one
\* case only: a read that had completed, and whose handler ioc_.stop() left in the
\* queue, runs in the next session with the destroyed port as its this
\* (SerialPort.cpp:109, ZigbeeDongle.cpp:139-149).
OnlyLateReadsMisuse == misused => late

\* The loop never stalls: what arrives is read as long as the io_context runs and
\* no read has failed (SerialPort.cpp:125-126).
BytesAreRead ==
  running /\ ~stopped /\ rx # <<>> ~> rx = <<>> \/ stopped \/ misused \/ failed
=============================================================================
