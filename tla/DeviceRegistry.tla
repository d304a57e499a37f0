---------------------------- MODULE DeviceRegistry ----------------------------
(***************************************************************************)
(* The device registry of ZigbeeDongle: devicesByEui_ and addrToEui_, the  *)
(* handlers of the I/O thread that change them or look a sender up, and    *)
(* removeDevice() called by the application at any moment.                 *)
(*                                                                         *)
(* Every access to the two maps is one critical section of devicesMutex_,  *)
(* hence one action; a handler that also emits an event is several, because *)
(* the event callback runs without the mutex and other threads get in.     *)
(* A ZigbeeDevice is represented by its short address.  The registry       *)
(* survives disconnect(), so frames that were lost - between two sessions, *)
(* or on the line - are frames that are simply never handled.              *)
(***************************************************************************)
EXTENDS Naturals, FiniteSets

CONSTANTS
  Euis,      \* EUI-64s
  Addrs,     \* short addresses
  MayUse,    \* environment: the addresses the network may give each device
  Nothing    \* std::nullopt

ASSUME RegistryConstants ==
  /\ MayUse \in [Euis -> SUBSET Addrs]
  /\ Nothing \notin Euis \cup Addrs

VARIABLES
  devicesByEui,  \* devicesByEui_: the short address of every known device
  addrToEui,     \* addrToEui_
  task,          \* the handler the I/O thread is in, between two steps of it
  members,       \* devices the events told the application are in the network
  removed        \* known devices the application removed since they were added

vars == <<devicesByEui, addrToEui, task, members, removed>>

Known   == DOMAIN devicesByEui
Indexed == DOMAIN addrToEui

NoTask == [step |-> "idle", eui |-> Nothing, addr |-> Nothing]

Tasks == [step : {"idle", "joined", "remove", "touch", "message"},
          eui  : Euis \cup {Nothing},
          addr : Addrs \cup {Nothing}]

TypeOK ==
  /\ Known \subseteq Euis
  /\ devicesByEui \in [Known -> Addrs]
  /\ Indexed \subseteq Addrs
  /\ addrToEui \in [Indexed -> Euis]
  /\ task \in Tasks
  /\ members \subseteq Euis
  /\ removed \subseteq Euis

Init ==
  /\ devicesByEui = [e \in {} |-> Nothing]
  /\ addrToEui = [a \in {} |-> Nothing]
  /\ task = NoTask
  /\ members = {}
  /\ removed = {}

-----------------------------------------------------------------------------
\* map.erase(key) and map[key] = value
Erase(map, key) == [k \in DOMAIN map \ {key} |-> map[k]]
Put(map, key, value) ==
  [k \in DOMAIN map \cup {key} |-> IF k = key THEN value ELSE map[k]]

-----------------------------------------------------------------------------
(***************************************************************************)
(* Faulty variants, not part of Next: each breaks a property when it takes *)
(* the place of the definition it is named after.                          *)
(***************************************************************************)

\* The entry of the old address is left behind.
Reindex_KeepsOld(e, a) ==
  IF devicesByEui[e] = a THEN addrToEui ELSE Put(addrToEui, a, e)

\* The new address is not entered.
Reindex_ErasesOnly(e, a) ==
  IF devicesByEui[e] = a THEN addrToEui ELSE Erase(addrToEui, devicesByEui[e])

\* The index is not cleaned up.
Unregister_LeavesIndex(e) ==
  /\ devicesByEui' = Erase(devicesByEui, e)
  /\ UNCHANGED addrToEui

\* A device that is expected to rejoin is removed too, and the others stay.
EmitLeft_Inverted(e, rejoin) ==
  /\ task = NoTask
  /\ task' = IF rejoin THEN [step |-> "remove", eui |-> e, addr |-> Nothing] ELSE NoTask
  /\ members' = IF rejoin THEN members ELSE members \ {e}
  /\ UNCHANGED <<devicesByEui, addrToEui, removed>>

\* The index entry of the old address is blanked and not erased.
Reindex_Blanks(e, a) ==
  IF devicesByEui[e] = a THEN addrToEui
  ELSE Put(Put(addrToEui, devicesByEui[e], Nothing), a, e)

-----------------------------------------------------------------------------
(***************************************************************************)
(* The two maps                                                            *)
(***************************************************************************)

\* findDevice(EUI64) and findDevice(ShortAddr), by the device they return
FindByEui(e)  == IF e \in Known THEN e ELSE Nothing
FindByAddr(a) == IF a \in Indexed THEN FindByEui(addrToEui[a]) ELSE Nothing

\* What a known device's new address does to the index: nothing when it is the
\* address the device already has.
Reindex(e, a) ==
  IF devicesByEui[e] = a THEN addrToEui ELSE Put(Erase(addrToEui, devicesByEui[e]), a, e)

\* removeDevice()
Unregister(e) ==
  /\ addrToEui' = Erase(addrToEui, devicesByEui[e])
  /\ devicesByEui' = Erase(devicesByEui, e)

-----------------------------------------------------------------------------
(***************************************************************************)
(* The I/O thread                                                          *)
(***************************************************************************)

\* onDeviceAnnounce(): addOrUpdateDevice() under the mutex.
AddOrUpdateDevice(e, a) ==
  /\ task = NoTask
  /\ addrToEui' = IF e \in Known THEN Reindex(e, a) ELSE Put(addrToEui, a, e)
  /\ devicesByEui' = Put(devicesByEui, e, a)
  /\ task' = [step |-> "joined", eui |-> e, addr |-> a]
  /\ removed' = removed \ {e}
  /\ UNCHANGED members

\* onDeviceAnnounce(): then the event.
EmitJoined ==
  /\ task.step = "joined"
  /\ members' = members \cup {task.eui}
  /\ task' = NoTask
  /\ UNCHANGED <<devicesByEui, addrToEui, removed>>

\* onLeaveInd(): the event comes first.
EmitLeft(e, rejoin) ==
  /\ task = NoTask
  /\ task' = IF rejoin THEN NoTask ELSE [step |-> "remove", eui |-> e, addr |-> Nothing]
  /\ members' = IF rejoin THEN members ELSE members \ {e}
  /\ UNCHANGED <<devicesByEui, addrToEui, removed>>

\* onLeaveInd(): then the removal, of a device that need not be known (any more).
RemoveLeft ==
  /\ task.step = "remove"
  /\ IF task.eui \in Known
     THEN Unregister(task.eui)
     ELSE UNCHANGED <<devicesByEui, addrToEui>>
  /\ task' = NoTask
  /\ UNCHANGED <<members, removed>>

\* onAfIncomingMsg(): the sender is looked up under the mutex ...
FindSender(a) ==
  /\ task = NoTask
  /\ LET sender == FindByAddr(a)
     IN  task' = [step |-> IF sender = Nothing THEN "message" ELSE "touch",
                  eui |-> sender, addr |-> a]
  /\ UNCHANGED <<devicesByEui, addrToEui, members, removed>>

\* ... its updateLastSeen() is called without it ...
TouchSender ==
  /\ task.step = "touch"
  /\ task' = [task EXCEPT !.step = "message"]
  /\ UNCHANGED <<devicesByEui, addrToEui, members, removed>>

\* ... and the event is emitted in either case.
EmitMessage ==
  /\ task.step = "message"
  /\ task' = NoTask
  /\ UNCHANGED <<devicesByEui, addrToEui, members, removed>>

\* A thread of the application, or the event callback.
RemoveDevice(e) ==
  /\ e \in Known
  /\ Unregister(e)
  /\ removed' = removed \cup {e}
  /\ UNCHANGED <<task, members>>

Next ==
  \/ \E e \in Euis : \/ \E a \in MayUse[e] : AddOrUpdateDevice(e, a)
                     \/ \E rejoin \in BOOLEAN : EmitLeft(e, rejoin)
                     \/ RemoveDevice(e)
  \/ \E a \in Addrs : FindSender(a)
  \/ EmitJoined \/ RemoveLeft \/ TouchSender \/ EmitMessage

Spec == Init /\ [][Next]_vars

-----------------------------------------------------------------------------
(***************************************************************************)
(* Properties                                                              *)
(***************************************************************************)

\* The index never lies: findDevice(addr) returns a device that is known, and
\* whose own short address is addr (cpp:203-211, cpp:515-534).
IndexSound ==
  \A a \in Indexed : addrToEui[a] \in Known /\ devicesByEui[addrToEui[a]] = a

\* An address that the network gives to one device only leads to that device
\* for as long as the device is known, whatever happens to the others.
Exclusive(e, a) == \A f \in Euis \ {e} : a \notin MayUse[f]
ExclusiveAddressFound ==
  \A e \in Known :
    Exclusive(e, devicesByEui[e]) => FindByAddr(devicesByEui[e]) = e

\* Between two frames, the events and the registry tell the same story: a known
\* device was announced as joined and not as gone, and a device announced as
\* joined is known unless the application removed it (cpp:324-364).
EventsMatchRegistry ==
  task = NoTask =>
    /\ Known \subseteq members
    /\ members \ Known \subseteq removed

\* The device whose last-seen time a message refreshes is the one registered
\* under the message's source address, although the mutex is free between the
\* look-up and the refresh (cpp:390-392).
SenderStillRegistered ==
  task.step = "touch" /\ task.eui \in Known => devicesByEui[task.eui] = task.addr

\* A device that has just announced an address can be found by that address when
\* the DeviceJoinedEvent for it is emitted, unless the application has removed it
\* (ZigbeeDongle.hpp:127-129, cpp:337-342).
JoinedDeviceFindable ==
  task.step = "joined" /\ task.eui \in Known => FindByAddr(task.addr) = task.eui
=============================================================================
