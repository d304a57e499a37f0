---------------------------- MODULE FrameDispatch -----------------------------
(***************************************************************************)
(* The way from the payload of an indication to the device registry and to *)
(* the events: dispatchFrame() and the handlers it calls, on the I/O       *)
(* thread, with the ZigbeeDevice objects they make and refresh.  Beside    *)
(* it the application removes devices.                                     *)
(*                                                                         *)
(* A payload is its bytes, as the handlers index them (from 1 here).  What *)
(* the coordinator means by one, and the layout it uses, are external:     *)
(* they are what the comments in the handlers say.  A payload may arrive   *)
(* shorter or longer than it should be.  The time of lastSeen_ is          *)
(* represented by the device whose frame last refreshed it.                *)
(*                                                                         *)
(* SYS_RESET_IND, ZDO_STATE_CHANGE_IND and the waiters of connect() are in *)
(* DongleLifecycle; all other frames change nothing.                       *)
(***************************************************************************)
EXTENDS Naturals, Sequences

CONSTANTS
  ByteMod,    \* values of a byte
  Euis,       \* EUI-64s: eight bytes each
  MayUse,     \* environment: the short addresses the network may give each device
  CapBytes,   \* environment: the capabilities they announce
  Contents,   \* environment: the contents of their messages
  Cluster,    \* environment: the cluster of their messages
  Nothing     \* no device

Byte == 0 .. ByteMod - 1
Word == 0 .. ByteMod * ByteMod - 1

ASSUME DispatchConstants ==
  /\ ByteMod \in Nat \ {0, 1}
  /\ \A e \in Euis : e \in Seq(Byte) /\ Len(e) = 8
  /\ MayUse \in [Euis -> SUBSET Word]
  /\ CapBytes \subseteq Byte /\ Cluster \in Word
  /\ \A c \in Contents : c \in Seq(Byte) /\ Len(c) \in Byte
  /\ Nothing \notin Euis /\ Nothing \notin Word

VARIABLES
  devices,    \* devicesByEui_, with the ZigbeeDevice of each entry
  addrToEui,  \* addrToEui_
  step,       \* where the handler is
  sender,     \* the device onAfIncomingMsg() has looked up
  kind,       \* the command of the frame being handled
  data,       \* its payload
  sent,       \* what the coordinator meant by the last frame, if it came completely
  event,      \* the event emitted for it
  members,    \* devices the events told the application are in the network
  removed     \* known devices the application removed since they were added

registryVars == <<devices, addrToEui>>
frameVars    == <<kind, data>>
historyVars  == <<members, removed>>
vars == <<registryVars, step, sender, frameVars, sent, event, historyVars>>

Known == DOMAIN devices

Announcement(e, a, caps) == [kind |-> "joined", eui |-> e, addr |-> a, info |-> caps]
Leaving(e, a, rejoin)    == [kind |-> "left", eui |-> e, addr |-> a, info |-> rejoin]
Message(e, a, content)   == [kind |-> "message", eui |-> e, addr |-> a, info |-> content]
NoEvent                  == [kind |-> "none"]

DeviceStates == [addr : Word, capabilities : CapBytes, seenFrom : Euis]

TypeOK ==
  /\ Known \subseteq Euis /\ devices \in [Known -> DeviceStates]
  /\ DOMAIN addrToEui \subseteq Word /\ addrToEui \in [DOMAIN addrToEui -> Euis]
  /\ step \in {"idle", "dispatch", "joined", "remove", "touch", "message"}
  /\ sender \in Euis \cup {Nothing}
  /\ members \subseteq Euis /\ removed \subseteq Euis

Init ==
  /\ devices = [e \in {} |-> Nothing] /\ addrToEui = [a \in {} |-> Nothing]
  /\ step = "idle" /\ sender = Nothing
  /\ kind = "none" /\ data = <<>> /\ sent = NoEvent /\ event = NoEvent
  /\ members = {} /\ removed = {}

-----------------------------------------------------------------------------
(***************************************************************************)
(* Faulty variants, not part of the specification: each breaks a property  *)
(* when it takes the place of the definition it is named after.            *)
(***************************************************************************)

\* Misread payloads: the high byte first, the EUI-64 one byte early, the byte before the
\* rejoin flag, the cluster for the source address.
Addr_BigEndian(d)    == ByteMod * d[1] + d[2]
Eui_OneEarly(d)      == SubSeq(d, 2, 9)
Rejoin_Children(d)   == d[11] # 0
SrcAddr_Cluster(d)   == d[3] + ByteMod * d[4]

-----------------------------------------------------------------------------
(***************************************************************************)
(* Payloads                                                                *)
(***************************************************************************)
Bytes2(w) == <<w % ByteMod, w \div ByteMod>>

\* The layouts the coordinator uses.
Encoding(f) ==
  CASE f.kind = "joined"  -> Bytes2(f.addr) \o f.eui \o <<f.info>>
    [] f.kind = "left"    -> Bytes2(f.addr) \o f.eui \o <<0>> \o <<IF f.info THEN 1 ELSE 0>>
    [] f.kind = "message" -> <<0, 0>> \o Bytes2(Cluster) \o Bytes2(f.addr)
                             \o [i \in 1 .. 10 |-> 0] \o <<Len(f.info)>> \o f.info

\* What the handlers read.
Addr(d)       == d[1] + ByteMod * d[2]
Eui(d)        == SubSeq(d, 3, 10)
Caps(d)       == d[11]
Rejoin(d)     == d[12] # 0
SrcAddr(d)    == d[5] + ByteMod * d[6]
PayLen(d)     == d[17]
Content(d)    == SubSeq(d, 18, 17 + PayLen(d))

\* The handler's test for a payload that is too short.
Complete(k, d) ==
  CASE k = "joined"  -> Len(d) >= 11
    [] k = "left"    -> Len(d) >= 12
    [] k = "message" -> Len(d) >= 17 /\ Len(d) >= 17 + PayLen(d)

-----------------------------------------------------------------------------
(***************************************************************************)
(* The maps and their devices                                              *)
(***************************************************************************)
Erase(map, key) == [k \in DOMAIN map \ {key} |-> map[k]]
Put(map, key, value) ==
  [k \in DOMAIN map \cup {key} |-> IF k = key THEN value ELSE map[k]]

\* A new ZigbeeDevice: joined and seen now.
NewDevice(a, caps, from) ==
  [addr |-> a, capabilities |-> caps, seenFrom |-> from]

\* addOrUpdateDevice(): a known device keeps its object, and its capabilities.
AddOrUpdateDevice(e, a, caps) ==
  IF e \in Known
  THEN /\ devices' = [devices EXCEPT ![e].addr = a, ![e].seenFrom = sent.eui]
       /\ addrToEui' = IF devices[e].addr = a THEN addrToEui
                       ELSE Put(Erase(addrToEui, devices[e].addr), a, e)
  ELSE /\ devices' = Put(devices, e, NewDevice(a, caps, sent.eui))
       /\ addrToEui' = Put(addrToEui, a, e)

\* removeDevice() of a known device
Unregister(e) ==
  /\ addrToEui' = Erase(addrToEui, devices[e].addr)
  /\ devices' = Erase(devices, e)

\* findDevice(ShortAddr)
FindByAddr(a) ==
  IF a \in DOMAIN addrToEui /\ addrToEui[a] \in Known THEN addrToEui[a] ELSE Nothing

-----------------------------------------------------------------------------
(***************************************************************************)
(* The coordinator                                                         *)
(***************************************************************************)
Indications ==
  UNION {UNION {{Announcement(e, a, c) : c \in CapBytes}
                \cup {Leaving(e, a, r) : r \in BOOLEAN}
                \cup {Message(e, a, m) : m \in Contents} : a \in MayUse[e]} : e \in Euis}

\* A frame that came out of the parser.
Receive(f) ==
  /\ step = "idle"
  /\ LET whole == Encoding(f) IN
       /\ \/ \E n \in {0, Len(whole) - 1} : data' = SubSeq(whole, 1, n) /\ sent' = NoEvent
          \/ data' \in {whole, Append(whole, 0)} /\ sent' = f
  /\ kind' = f.kind
  /\ event' = NoEvent
  /\ step' = "dispatch"
  /\ UNCHANGED <<registryVars, sender, historyVars>>

-----------------------------------------------------------------------------
(***************************************************************************)
(* The handlers                                                            *)
(***************************************************************************)
Handling(k) == step = "dispatch" /\ kind = k /\ Complete(k, data)

\* The handler returns; its locals are gone.
Return == step' = "idle" /\ sender' = Nothing /\ kind' = "none" /\ data' = <<>> /\ UNCHANGED sent

Continue(next) == step' = next /\ UNCHANGED <<frameVars, sent>>

DropShortFrame ==
  /\ step = "dispatch" /\ ~Complete(kind, data)
  /\ Return
  /\ UNCHANGED <<registryVars, event, historyVars>>

\* onDeviceAnnounce(): the registry ...
OnDeviceAnnounce ==
  /\ Handling("joined")
  /\ AddOrUpdateDevice(Eui(data), Addr(data), Caps(data))
  /\ removed' = removed \ {Eui(data)}
  /\ Continue("joined")
  /\ UNCHANGED <<sender, event, members>>

\* ... and the event.
EmitJoined ==
  /\ step = "joined"
  /\ event' = Announcement(Eui(data), Addr(data), Caps(data))
  /\ members' = members \cup {Eui(data)}
  /\ Return
  /\ UNCHANGED <<registryVars, removed>>

\* onLeaveInd(): the event ...
OnLeaveInd ==
  /\ Handling("left")
  /\ event' = Leaving(Eui(data), Addr(data), Rejoin(data))
  /\ members' = IF Rejoin(data) THEN members ELSE members \ {Eui(data)}
  /\ IF Rejoin(data) THEN Return ELSE Continue("remove") /\ UNCHANGED sender
  /\ UNCHANGED <<registryVars, removed>>

\* ... and the removal.
RemoveLeft ==
  /\ step = "remove"
  /\ IF Eui(data) \in Known THEN Unregister(Eui(data)) ELSE UNCHANGED registryVars
  /\ Return
  /\ UNCHANGED <<event, historyVars>>

\* onAfIncomingMsg(): the sender is looked up under the mutex ...
OnAfIncomingMsg ==
  /\ Handling("message")
  /\ sender' = FindByAddr(SrcAddr(data))
  /\ Continue(IF sender' = Nothing THEN "message" ELSE "touch")
  /\ UNCHANGED <<registryVars, event, historyVars>>

\* ... refreshed without it, known to the registry or no longer ...
UpdateLastSeen ==
  /\ step = "touch"
  /\ devices' = IF sender \in Known THEN [devices EXCEPT ![sender].seenFrom = sent.eui]
                ELSE devices
  /\ Continue("message")
  /\ UNCHANGED <<addrToEui, sender, event, historyVars>>

\* ... and the event names the address only.
EmitMessage ==
  /\ step = "message"
  /\ event' = [kind |-> "message", addr |-> SrcAddr(data), info |-> Content(data)]
  /\ Return
  /\ UNCHANGED <<registryVars, historyVars>>

-----------------------------------------------------------------------------
(***************************************************************************)
(* The application                                                         *)
(***************************************************************************)
RemoveDevice(e) ==
  /\ e \in Known
  /\ Unregister(e)
  /\ removed' = removed \cup {e}
  /\ UNCHANGED <<step, sender, frameVars, sent, event, members>>

-----------------------------------------------------------------------------
Handlers == \/ DropShortFrame \/ OnDeviceAnnounce \/ EmitJoined \/ OnLeaveInd
            \/ RemoveLeft \/ OnAfIncomingMsg \/ UpdateLastSeen \/ EmitMessage

Next ==
  \/ \E f \in Indications : Receive(f)
  \/ Handlers
  \/ \E e \in Euis : RemoveDevice(e)

Spec == Init /\ [][Next]_vars

-----------------------------------------------------------------------------
(***************************************************************************)
(* Properties                                                              *)
(***************************************************************************)

\* The state of DeviceRegistry that a state here stands for.
RegistryTask ==
  CASE step \in {"idle", "dispatch"} ->
         [step |-> "idle", eui |-> Nothing, addr |-> Nothing]
    [] step = "joined"  -> [step |-> step, eui |-> Eui(data), addr |-> Addr(data)]
    [] step = "remove"  -> [step |-> step, eui |-> Eui(data), addr |-> Nothing]
    [] step \in {"touch", "message"} ->
         [step |-> step, eui |-> sender, addr |-> SrcAddr(data)]

Registry == INSTANCE DeviceRegistry
  WITH Addrs <- Word,
       devicesByEui <- [e \in Known |-> devices[e].addr],
       task <- RegistryTask

\* The handlers do to the registry what DeviceRegistry says, with the device and the
\* address the coordinator meant, so that what holds of it holds of them
\* (cpp:284-405, cpp:515-534).
ImplementsRegistry == Registry!Spec

\* A handler that is through has emitted the event that tells what the coordinator
\* meant - nothing is read past the end of a payload, and nothing is made of one that
\* was cut short (cpp:326-342, cpp:347-361, cpp:370-404).
Meaning(f) == IF f.kind = "message" THEN [kind |-> "message", addr |-> f.addr, info |-> f.info]
              ELSE f
EventTellsTheFrame == step = "idle" => event = Meaning(sent)

\* The last-seen time of a device that shares its addresses with no other is the time
\* of a frame of its own, although messages name their sender by address only
\* (cpp:390-393, cpp:524-529).
SeenMeansHeard ==
  \A e \in Known :
    (\A f \in Euis \ {e} : MayUse[e] \cap MayUse[f] = {}) => devices[e].seenFrom = e
=============================================================================
