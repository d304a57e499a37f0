------------------------- MODULE DeviceRegistryProofs -------------------------
(***************************************************************************)
(* Theorems about DeviceRegistry, for any sets of devices and addresses    *)
(* and any way in which the network hands addresses out.                   *)
(***************************************************************************)
EXTENDS DeviceRegistry, TLAPS

(***************************************************************************)
(* The two maps                                                            *)
(***************************************************************************)
MapsTyped ==
  /\ Known \subseteq Euis
  /\ devicesByEui \in [Known -> Addrs]
  /\ Indexed \subseteq Addrs
  /\ addrToEui \in [Indexed -> Euis]

\* Every known device has an address the network may have given it.
AddressesAllowed == \A e \in Known : devicesByEui[e] \in MayUse[e]

\* ExclusiveAddressFound in terms of the index.
ExclusiveIndexed ==
  \A e \in Known :
    Exclusive(e, devicesByEui[e]) =>
      devicesByEui[e] \in Indexed /\ addrToEui[devicesByEui[e]] = e

MapsInv == MapsTyped /\ AddressesAllowed /\ IndexSound /\ ExclusiveIndexed

\* addOrUpdateDevice() keeps the maps consistent.
LEMMA AddKeepsMaps ==
  ASSUME MapsInv, NEW e \in Euis, NEW a \in MayUse[e], AddOrUpdateDevice(e, a)
  PROVE  MapsInv'
<1>1. a \in Addrs
  BY RegistryConstants
<1>2. /\ DOMAIN devicesByEui' = Known \cup {e}
      /\ devicesByEui' \in [Known \cup {e} -> Addrs]
      /\ devicesByEui'[e] = a
      /\ \A f \in Known \ {e} : devicesByEui'[f] = devicesByEui[f]
  BY <1>1 DEF AddOrUpdateDevice, Put, MapsInv, MapsTyped, Known
<1>3. CASE e \in Known /\ devicesByEui[e] = a
  <2>1. addrToEui' = addrToEui
    BY <1>3 DEF AddOrUpdateDevice, Reindex
  <2> QED
    BY <1>2, <1>3, <2>1
    DEF MapsInv, MapsTyped, AddressesAllowed, IndexSound, ExclusiveIndexed,
        Exclusive, Known, Indexed
<1>4. CASE e \in Known /\ devicesByEui[e] # a
  <2> DEFINE old == devicesByEui[e]
  <2>1. /\ DOMAIN Erase(addrToEui, old) = Indexed \ {old}
        /\ Erase(addrToEui, old) \in [Indexed \ {old} -> Euis]
        /\ \A b \in Indexed \ {old} : Erase(addrToEui, old)[b] = addrToEui[b]
    BY DEF Erase, MapsInv, MapsTyped, Indexed
  <2>2. addrToEui' = Put(Erase(addrToEui, old), a, e)
    BY <1>4 DEF AddOrUpdateDevice, Reindex
  <2>3. /\ DOMAIN addrToEui' = (Indexed \ {old}) \cup {a}
        /\ addrToEui' \in [(Indexed \ {old}) \cup {a} -> Euis]
        /\ addrToEui'[a] = e
        /\ \A b \in (Indexed \ {old}) \ {a} : addrToEui'[b] = Erase(addrToEui, old)[b]
    BY <2>1, <2>2 DEF Put
  <2>4. MapsTyped' /\ AddressesAllowed'
    BY <1>1, <1>2, <2>3 DEF MapsInv, MapsTyped, AddressesAllowed, Known, Indexed
  <2>5. IndexSound'
    BY <1>2, <2>1, <2>3 DEF MapsInv, IndexSound, Known, Indexed
  <2>6. ExclusiveIndexed'
    BY <1>2, <1>4, <2>1, <2>3
    DEF MapsInv, AddressesAllowed, ExclusiveIndexed, Exclusive, MapsTyped, Known, Indexed
  <2> QED
    BY <2>4, <2>5, <2>6 DEF MapsInv
<1>5. CASE e \notin Known
  <2>1. addrToEui' = Put(addrToEui, a, e)
    BY <1>5 DEF AddOrUpdateDevice
  <2>2. /\ DOMAIN addrToEui' = Indexed \cup {a}
        /\ addrToEui' \in [Indexed \cup {a} -> Euis]
        /\ addrToEui'[a] = e
        /\ \A b \in Indexed \ {a} : addrToEui'[b] = addrToEui[b]
    BY <2>1 DEF Put, MapsInv, MapsTyped, Indexed
  <2>3. MapsTyped' /\ AddressesAllowed'
    BY <1>1, <1>2, <2>2 DEF MapsInv, MapsTyped, AddressesAllowed, Known, Indexed
  <2>4. IndexSound'
    BY <1>2, <1>5, <2>2 DEF MapsInv, IndexSound, Known, Indexed
  <2>5. ExclusiveIndexed'
    BY <1>2, <1>5, <2>2
    DEF MapsInv, AddressesAllowed, ExclusiveIndexed, Exclusive, MapsTyped, Known, Indexed
  <2> QED
    BY <2>3, <2>4, <2>5 DEF MapsInv
<1> QED
  BY <1>3, <1>4, <1>5

\* removeDevice() keeps the maps consistent.
LEMMA UnregisterKeepsMaps ==
  ASSUME MapsInv, NEW e \in Known, Unregister(e)
  PROVE  MapsInv'
<1> DEFINE old == devicesByEui[e]
<1>1. /\ DOMAIN devicesByEui' = Known \ {e}
      /\ devicesByEui' \in [Known \ {e} -> Addrs]
      /\ \A f \in Known \ {e} : devicesByEui'[f] = devicesByEui[f]
  BY DEF Erase, MapsInv, MapsTyped, Unregister, Known, Indexed
<1>2. /\ DOMAIN addrToEui' = Indexed \ {old}
      /\ addrToEui' \in [Indexed \ {old} -> Euis]
      /\ \A b \in Indexed \ {old} : addrToEui'[b] = addrToEui[b]
  BY DEF Erase, MapsInv, MapsTyped, Unregister, Known, Indexed
<1>3. MapsTyped' /\ AddressesAllowed'
  BY <1>1, <1>2 DEF MapsInv, MapsTyped, AddressesAllowed, Known, Indexed
<1>4. IndexSound'
  BY <1>1, <1>2 DEF MapsInv, IndexSound, Known, Indexed
<1>5. ExclusiveIndexed'
  BY <1>1, <1>2
  DEF MapsInv, AddressesAllowed, ExclusiveIndexed, Exclusive, MapsTyped, Known, Indexed
<1> QED
  BY <1>3, <1>4, <1>5 DEF MapsInv


-----------------------------------------------------------------------------
(***************************************************************************)
(* The invariants of the maps                                              *)
(***************************************************************************)

LEMMA MapsInvariant == Spec => []MapsInv
<1>1. Init => MapsInv
  BY DEF Init, MapsInv, MapsTyped, AddressesAllowed, IndexSound, ExclusiveIndexed,
         Known, Indexed
<1>2. MapsInv /\ [Next]_vars => MapsInv'
  <2> SUFFICES ASSUME MapsInv, [Next]_vars
               PROVE  MapsInv'
    OBVIOUS
  <2>1. ASSUME UNCHANGED <<devicesByEui, addrToEui>>
        PROVE  MapsInv'
    BY <2>1 DEF MapsInv, MapsTyped, AddressesAllowed, IndexSound, ExclusiveIndexed,
                Known, Indexed
  <2>2. ASSUME NEW e \in Euis, NEW a \in MayUse[e], AddOrUpdateDevice(e, a)
        PROVE  MapsInv'
    BY <2>2, AddKeepsMaps
  <2>3. ASSUME NEW e \in Euis, RemoveDevice(e)
        PROVE  MapsInv'
    BY <2>3, UnregisterKeepsMaps DEF RemoveDevice
  <2>4. CASE RemoveLeft
    BY <2>1, <2>4, UnregisterKeepsMaps DEF RemoveLeft
  <2>5. ASSUME NEW e \in Euis, NEW rejoin \in BOOLEAN, EmitLeft(e, rejoin)
        PROVE  MapsInv'
    BY <2>1, <2>5 DEF EmitLeft
  <2>6. ASSUME NEW a \in Addrs, FindSender(a)
        PROVE  MapsInv'
    BY <2>1, <2>6 DEF FindSender
  <2>7. CASE EmitJoined \/ TouchSender \/ EmitMessage \/ UNCHANGED vars
    BY <2>1, <2>7 DEF EmitJoined, TouchSender, EmitMessage, vars
  <2> QED
    BY <2>2, <2>3, <2>4, <2>5, <2>6, <2>7 DEF Next
<1> QED
  BY <1>1, <1>2, PTL DEF Spec

\* Type correctness.
THEOREM TypeCorrect == Spec => []TypeOK
<1> DEFINE Rest == /\ task \in Tasks
                   /\ task.step = "joined" => task.eui \in Euis
                   /\ members \subseteq Euis
                   /\ removed \subseteq Euis
<1>1. Init => Rest
  BY DEF Init, NoTask, Tasks
<1>2. Rest /\ MapsInv /\ [Next]_vars => Rest'
  <2> SUFFICES ASSUME Rest, MapsInv, [Next]_vars
               PROVE  Rest'
    OBVIOUS
  <2>1. ASSUME NEW e \in Euis, NEW a \in MayUse[e], AddOrUpdateDevice(e, a)
        PROVE  Rest'
    BY <2>1, RegistryConstants DEF AddOrUpdateDevice, Tasks
  <2>2. ASSUME NEW e \in Euis, NEW rejoin \in BOOLEAN, EmitLeft(e, rejoin)
        PROVE  Rest'
    BY <2>2 DEF EmitLeft, Tasks, NoTask
  <2>3. ASSUME NEW e \in Euis, RemoveDevice(e)
        PROVE  Rest'
    BY <2>3 DEF RemoveDevice
  <2>4. ASSUME NEW a \in Addrs, FindSender(a)
        PROVE  Rest'
    <3>1. FindByAddr(a) \in Euis \cup {Nothing}
      BY DEF FindByAddr, FindByEui, MapsInv, MapsTyped
    <3> QED
      BY <2>4, <3>1 DEF FindSender, Tasks
  <2>5. CASE EmitJoined
    BY <2>5 DEF EmitJoined, Tasks, NoTask
  <2>6. CASE RemoveLeft \/ TouchSender \/ EmitMessage
    BY <2>6 DEF RemoveLeft, TouchSender, EmitMessage, Tasks, NoTask
  <2>7. CASE UNCHANGED vars
    BY <2>7 DEF vars
  <2> QED
    BY <2>1, <2>2, <2>3, <2>4, <2>5, <2>6, <2>7 DEF Next
<1>3. MapsInv /\ Rest => TypeOK
  BY DEF MapsInv, MapsTyped, TypeOK
<1> QED
  BY <1>1, <1>2, <1>3, MapsInvariant, PTL DEF Spec

\* The index never leads to a device that is unknown or has another address.
THEOREM IndexIsSound == Spec => []IndexSound
<1>1. MapsInv => IndexSound
  BY DEF MapsInv
<1> QED
  BY <1>1, MapsInvariant, PTL

\* An address that only one device may be given leads to that device.
THEOREM ExclusiveAddressIsFound == Spec => []ExclusiveAddressFound
<1>1. MapsInv => ExclusiveAddressFound
  BY DEF MapsInv, ExclusiveIndexed, ExclusiveAddressFound, FindByAddr, FindByEui
<1> QED
  BY <1>1, MapsInvariant, PTL

-----------------------------------------------------------------------------
(***************************************************************************)
(* The handlers of the I/O thread                                          *)
(***************************************************************************)

\* While a handler is between two of its steps, only the application changes the
\* registry, and only by removing devices.
HandlerInv ==
  /\ task.step = "joined" =>
       /\ task.eui \in Known => devicesByEui[task.eui] = task.addr
       /\ task.eui \in Known \cup removed
  /\ SenderStillRegistered
  /\ task.step = "remove" => task.eui \notin members
  /\ \A e \in Known \ members : task.step \in {"joined", "remove"} /\ task.eui = e
  /\ members \ Known \subseteq removed

LEMMA HandlerInvariant == Spec => []HandlerInv
<1>1. Init => HandlerInv
  BY DEF Init, HandlerInv, SenderStillRegistered, NoTask, Known
<1>2. MapsInv /\ HandlerInv /\ [Next]_vars => HandlerInv'
  <2> SUFFICES ASSUME MapsInv, HandlerInv, [Next]_vars
               PROVE  HandlerInv'
    OBVIOUS
  <2> USE DEF HandlerInv, SenderStillRegistered, NoTask
  <2>1. ASSUME NEW e \in Euis, NEW a \in MayUse[e], AddOrUpdateDevice(e, a)
        PROVE  HandlerInv'
    <3>1. /\ Known' = Known \cup {e}
          /\ devicesByEui'[e] = a
      BY <2>1 DEF AddOrUpdateDevice, Put, Known
    <3> QED
      BY <2>1, <3>1 DEF AddOrUpdateDevice
  <2>2. ASSUME NEW e \in Euis, NEW rejoin \in BOOLEAN, EmitLeft(e, rejoin)
        PROVE  HandlerInv'
    BY <2>2 DEF EmitLeft, Known
  <2>3. ASSUME NEW e \in Known, Unregister(e)
        PROVE  /\ Known' = Known \ {e}
               /\ \A f \in Known' : devicesByEui'[f] = devicesByEui[f]
    BY <2>3 DEF Unregister, Erase, Known
  <2>4. ASSUME NEW e \in Euis, RemoveDevice(e)
        PROVE  HandlerInv'
    BY <2>3, <2>4 DEF RemoveDevice
  <2>5. CASE RemoveLeft
    <3>1. CASE task.eui \in Known
      BY <2>3, <2>5, <3>1 DEF RemoveLeft
    <3>2. CASE task.eui \notin Known
      BY <2>5, <3>2 DEF RemoveLeft, Known
    <3> QED
      BY <3>1, <3>2
  <2>6. ASSUME NEW a \in Addrs, FindSender(a)
        PROVE  HandlerInv'
    <3>1. FindByAddr(a) \in Known => devicesByEui[FindByAddr(a)] = a
      BY RegistryConstants
      DEF FindByAddr, FindByEui, MapsInv, MapsTyped, IndexSound
    <3> QED
      BY <2>6, <3>1 DEF FindSender, Known
  <2>7. CASE EmitJoined
    BY <2>7 DEF EmitJoined, Known
  <2>8. CASE TouchSender
    BY <2>8 DEF TouchSender, Known
  <2>9. CASE EmitMessage
    BY <2>9 DEF EmitMessage, Known
  <2>10. CASE UNCHANGED vars
    BY <2>10 DEF vars, Known
  <2> QED
    BY <2>1, <2>2, <2>4, <2>5, <2>6, <2>7, <2>8, <2>9, <2>10 DEF Next
<1> QED
  BY <1>1, <1>2, MapsInvariant, PTL DEF Spec

\* Between two frames the events and the registry agree, but for the devices the
\* application removed.
THEOREM EventsAndRegistryAgree == Spec => []EventsMatchRegistry
<1>1. HandlerInv => EventsMatchRegistry
  BY DEF HandlerInv, EventsMatchRegistry, NoTask
<1> QED
  BY <1>1, HandlerInvariant, PTL

\* No registration changes its address between a handler's look-up and its use.
THEOREM SenderKeepsAddress == Spec => []SenderStillRegistered
<1>1. HandlerInv => SenderStillRegistered
  BY DEF HandlerInv
<1> QED
  BY <1>1, HandlerInvariant, PTL

\* Where the network never gives one address to two devices, a device that has
\* announced itself is found by its address when its DeviceJoinedEvent is emitted.
\* Without that assumption TLC refutes JoinedDeviceFindable.
THEOREM DisjointAddressesFindable ==
  ASSUME \A e, f \in Euis : e # f => MayUse[e] \cap MayUse[f] = {}
  PROVE  Spec => []JoinedDeviceFindable
<1>1. MapsInv /\ HandlerInv => JoinedDeviceFindable
  <2> SUFFICES ASSUME MapsInv, HandlerInv, task.step = "joined", task.eui \in Known
               PROVE  FindByAddr(task.addr) = task.eui
    BY DEF JoinedDeviceFindable
  <2>1. task.eui \in Euis /\ devicesByEui[task.eui] = task.addr
    BY DEF MapsInv, MapsTyped, HandlerInv
  <2>2. Exclusive(task.eui, task.addr)
    BY <2>1 DEF MapsInv, AddressesAllowed, Exclusive
  <2> QED
    BY <2>1, <2>2 DEF MapsInv, ExclusiveIndexed, FindByAddr, FindByEui
<1> QED
  BY <1>1, MapsInvariant, HandlerInvariant, PTL
=============================================================================
