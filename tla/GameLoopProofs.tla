---------------------------- MODULE GameLoopProofs ----------------------------
(***************************************************************************)
(* Proofs about GameLoop: what a game knows that only listens.  The order  *)
(* of the queue comes first (QueueOrder): which devices its events name,   *)
(* and that nothing follows a departure.  Then the game's side (GameInv):  *)
(* what it was told, together with the events its loop has still to come   *)
(* to, is what the slots say.                                              *)
(***************************************************************************)
EXTENDS GameLoop, GamepadContextProofs

EdgeTypes  == {"ButtonDown", "ButtonUp"}
InputTypes == EdgeTypes \cup {"AxisMotion"}

\* A device that was reported gone is not connected and heard of no more, and
\* an input is reported once, of a device that is there.
QueueOrder ==
  /\ \A i \in DOMAIN events : events[i].id \in 1..(next_id - 1)
  /\ \A i, j \in DOMAIN events :
       events[j].type = "DeviceRemoved" /\ j < i => events[j].id # events[i].id
  /\ \A i \in DOMAIN events : events[i].type = "DeviceRemoved" => events[i].id \notin ConnectedIds
  /\ \A i \in DOMAIN events : events[i].type \in InputTypes => events[i].id \in ConnectedIds
  /\ \A i \in DOMAIN events : events[i].type \in EdgeTypes => events[i].what \in Buttons
  /\ \A i, j \in DOMAIN events :
       /\ events[i].type \in InputTypes /\ events[j].type \in InputTypes
       /\ events[i].id = events[j].id /\ events[i].what = events[j].what
       => i = j

\* What the game's loop has still to come to, or the next one all of.
Unread == IF drained THEN (Len(events) - left + 1)..Len(events) ELSE DOMAIN events

UnreadIds(type) == {events[i].id : i \in {k \in Unread : events[k].type = type}}

Listening ==
  /\ heard \in [known : SUBSET Nat, held : SUBSET (Nat \X Buttons),
                gone : SUBSET Nat, usable : SUBSET Nat]
  /\ left \in 0..Len(events) /\ drained \in BOOLEAN
  /\ ~drained => left = 0
  /\ current_backend # 0 => ~drained
  /\ ~drained \/ left > 0 => ~first_update

\* The devices the game was told of and those it is about to hear of are the
\* connected ones, less those it is about to lose; it hears of an arrival
\* before it hears of an input.
KnownRight ==
  /\ ConnectedIds = (heard.known \cup UnreadIds("DeviceAdded")) \ UnreadIds("DeviceRemoved")
  /\ \A id \in heard.known : id < next_id
  /\ \A i \in Unread :
       events[i].type \in InputTypes =>
         \/ events[i].id \in heard.known
         \/ \E j \in Unread : /\ j < i /\ events[j].type = "DeviceAdded"
                              /\ events[j].id = events[i].id

EdgeUnread(id, b) ==
  \E i \in Unread :
    events[i].type \in EdgeTypes /\ events[i].id = id /\ events[i].what = b

\* The buttons the game holds are down in the last frame, or in this one once
\* there is no edge of theirs to come.
HeldRight ==
  /\ \A h \in heard.held : h[1] \in heard.known
  /\ \A s \in LiveSlots, b \in Buttons :
       <<slots[s].id, b>> \in heard.held
         <=> IF current_backend = 0 /\ ~EdgeUnread(slots[s].id, b)
             THEN slots[s].out[b] # 0 ELSE slots[s].prev[b] # 0

GoneRight ==
  /\ \A id \in heard.gone : id < next_id /\ id \notin ConnectedIds
  /\ \A i \in Unread : events[i].id \notin heard.gone

GameInv == Listening /\ KnownRight /\ HeldRight /\ GoneRight
-----------------------------------------------------------------------------
(* what a step of the core queues *)

\* The queue keeps what it has; Fresh is what is new in it.
Grown ==
  /\ events' \in Seq(Events) /\ Len(events') >= Len(events)
  /\ \A i \in DOMAIN events : i \in DOMAIN events' /\ events'[i] = events[i]

Fresh == (Len(events) + 1)..Len(events')

Quiet ==
  /\ events' = events /\ ConnectedIds' = ConnectedIds
  /\ next_id' \in Nat /\ next_id' >= next_id

Arrives ==
  /\ Fresh = {Len(events) + 1}
  /\ events'[Len(events) + 1] = DeviceEvent("DeviceAdded", next_id)
  /\ ConnectedIds' = ConnectedIds \cup {next_id}
  /\ next_id' = next_id + 1

NoInputsYet == \A i \in DOMAIN events : events[i].type \notin InputTypes

Departs(id) ==
  /\ id \in ConnectedIds /\ NoInputsYet
  /\ Fresh = {Len(events) + 1}
  /\ events'[Len(events) + 1] = DeviceEvent("DeviceRemoved", id)
  /\ ConnectedIds' = ConnectedIds \ {id}
  /\ next_id' = next_id

GainsMappings ==
  /\ \A i \in Fresh : events'[i].type = "DeviceAdded" /\ events'[i].id \in ConnectedIds
  /\ ConnectedIds' = ConnectedIds /\ next_id' = next_id

ReportsInputs ==
  /\ NoInputsYet
  /\ \A i \in Fresh : /\ events'[i].type \in InputTypes /\ events'[i].id \in ConnectedIds
                      /\ events'[i].type \in EdgeTypes => events'[i].what \in Buttons
  /\ \A i, j \in Fresh :
       events'[i].id = events'[j].id /\ events'[i].what = events'[j].what => i = j
  /\ ConnectedIds' = ConnectedIds /\ next_id' = next_id

CoreInv == Inv /\ RosterMatchesSlots /\ QueueInv

LEMMA QueueType ==
  ASSUME CoreInv
  PROVE  /\ events \in Seq(Events) /\ Len(events) \in Nat /\ DOMAIN events = 1..Len(events)
         /\ next_id \in Nat /\ next_id > 0
         /\ \A i \in DOMAIN events : events[i] \in Events /\ events[i].id \in Nat
         /\ \A id \in ConnectedIds : id \in Nat /\ id < next_id
<1>1. events \in Seq(Events) /\ next_id \in Nat \ {0}
  BY DEF CoreInv, QueueInv, Inv, TableTypeOK
<1>2. \A id \in ConnectedIds : id \in Nat /\ id < next_id
  BY <1>1 DEF CoreInv, RosterMatchesSlots, ConnectedIds
<1>3. \A i \in DOMAIN events : events[i] \in Events
  BY <1>1, ElementOfSeq, LenProperties
<1>4. \A e \in Events : e.id \in Nat
  BY DEF Events
<1> QED BY <1>1, <1>2, <1>3, <1>4, LenProperties

LEMMA PollingQueuesNoInputs ==
  ASSUME CoreInv, current_backend # 0
  PROVE  NoInputsYet
BY DEF CoreInv, QueueInv, OnlyDeviceEvents, NoInputsYet, InputTypes, EdgeTypes

LEMMA AppendGrows ==
  ASSUME CoreInv, NEW type \in {"DeviceAdded", "DeviceRemoved"}, NEW id \in Nat,
         events' = Append(events, DeviceEvent(type, id))
  PROVE  /\ Grown /\ Fresh = {Len(events) + 1}
         /\ events'[Len(events) + 1] = DeviceEvent(type, id)
<1> DEFINE e == DeviceEvent(type, id)
<1>1. e \in Events
  BY DeviceEventType
<1> HIDE DEF e
<1>2. /\ events' \in Seq(Events) /\ Len(events') = Len(events) + 1
      /\ \A i \in 1..Len(events) : events'[i] = events[i]
      /\ events'[Len(events) + 1] = e
  BY <1>1, AppendProperties, QueueType DEF e
<1>3. DOMAIN events' = 1..(Len(events) + 1) /\ Fresh = {Len(events) + 1}
  BY <1>2, LenProperties, QueueType DEF Fresh
<1> QED BY <1>2, <1>3, QueueType DEF e, Grown

LEMMA ArrivalQueued ==
  ASSUME CoreInv, NEW desc \in Descriptions, AddDevice(desc)
  PROVE  Quiet \/ (Grown /\ Arrives)
<1>1. Inv /\ next_id \in Nat
  BY QueueType DEF CoreInv
<1>2. /\ next_id' = next_id + 1
      /\ \A s \in LiveSlots : s \in LiveSlots' /\ slots'[s] = slots[s]
      /\ \/ live_ids' = live_ids /\ LiveSlots' = LiveSlots
         \/ /\ live_ids' = Append(live_ids, next_id)
            /\ FreeSlot \notin LiveSlots
            /\ LiveSlots' = LiveSlots \cup {FreeSlot}
            /\ slots'[FreeSlot].id = next_id
  BY <1>1, ArrivalProperties
<1>3. live_ids \in Seq(Nat)
  BY <1>1 DEF Inv, TableTypeOK
<1>4. live_ids # Append(live_ids, next_id)
  BY <1>1, <1>3, AppendProperties, LenProperties
<1>5. \/ live_ids' = live_ids /\ events' = events
      \/ /\ live_ids' = Append(live_ids, next_id)
         /\ events' = Append(events, DeviceEvent("DeviceAdded", next_id))
  BY <1>1, NewDeviceProperties DEF AddDevice
<1>6. CASE live_ids' = live_ids
  <2>1. LiveSlots' = LiveSlots /\ events' = events
    BY <1>2, <1>4, <1>5, <1>6
  <2>2. ConnectedIds' = ConnectedIds
    BY <1>2, <2>1 DEF ConnectedIds
  <2> QED BY <1>1, <1>2, <2>1, <2>2 DEF Quiet
<1>7. CASE live_ids' = Append(live_ids, next_id)
  <2>1. /\ LiveSlots' = LiveSlots \cup {FreeSlot} /\ slots'[FreeSlot].id = next_id
        /\ events' = Append(events, DeviceEvent("DeviceAdded", next_id))
    BY <1>2, <1>4, <1>5, <1>7
  <2>2. ConnectedIds' = ConnectedIds \cup {next_id}
    BY <1>2, <2>1 DEF ConnectedIds
  <2> QED BY <1>1, <1>2, <2>1, <2>2, AppendGrows DEF Arrives
<1> QED BY <1>5, <1>6, <1>7

LEMMA DepartureQueued ==
  ASSUME CoreInv, NEW s \in DOMAIN slots, RemoveDevice(s)
  PROVE  Grown /\ Departs(slots[s].id)
<1>1. /\ s \in LiveSlots /\ slots[s].id \in Nat /\ LiveSlots' = LiveSlots \ {s}
      /\ \A r \in LiveSlots' : slots'[r] = slots[r]
      /\ next_id' = next_id
  BY DepartureProperties DEF CoreInv
<1>2. events' = Append(events, DeviceEvent("DeviceRemoved", slots[s].id))
  BY DEF RemoveDevice
<1>3. \A r \in LiveSlots : slots[r].id = slots[s].id => r = s
  BY <1>1 DEF CoreInv, RosterMatchesSlots
<1>4. ConnectedIds' = ConnectedIds \ {slots[s].id}
  BY <1>1, <1>3 DEF ConnectedIds
<1>5. slots[s].id \in ConnectedIds
  BY <1>1 DEF ConnectedIds
<1>6. NoInputsYet
  BY PollingQueuesNoInputs DEF RemoveDevice, Holds, Polling
<1> QED BY <1>1, <1>2, <1>4, <1>5, <1>6, AppendGrows DEF Departs

LEMMA MappingsQueued ==
  ASSUME CoreInv, NEW text \in Texts, AddMappings(text)
  PROVE  Grown /\ GainsMappings
<1>1. /\ events' \in Seq(Events) /\ Len(events') >= Len(events)
      /\ \A i \in DOMAIN events' :
           \/ i \in DOMAIN events /\ events'[i] = events[i]
           \/ \E s \in LiveSlots : events'[i] = DeviceEvent("DeviceAdded", slots[s].id)
      /\ \A i \in DOMAIN events : i \in DOMAIN events' /\ events'[i] = events[i]
  BY GainsQueued, QueueType DEF CoreInv
<1>2. \A s \in LiveSlots : /\ DeviceEvent("DeviceAdded", slots[s].id).type = "DeviceAdded"
                           /\ DeviceEvent("DeviceAdded", slots[s].id).id \in ConnectedIds
  BY DEF DeviceEvent, ConnectedIds
<1>3. \A i \in Fresh : i \in DOMAIN events' /\ i \notin DOMAIN events
  BY <1>1, QueueType, LenProperties DEF Fresh
<1>4. \A i \in Fresh : events'[i].type = "DeviceAdded" /\ events'[i].id \in ConnectedIds
  BY <1>1, <1>2, <1>3
<1>5. SameOccupants /\ next_id' = next_id
  BY OthersKeepRoster DEF CoreInv, OtherStep, GameCall
<1>6. ConnectedIds' = ConnectedIds
  BY <1>5, SameOccupantsSameIds
<1> QED BY <1>1, <1>4, <1>5, <1>6 DEF Grown, GainsMappings

LEMMA FrameQueued ==
  ASSUME CoreInv, EndUpdate
  PROVE  Grown /\ ReportsInputs
<1>1. PICK n, moved : InputsInOrder(n, moved)
  BY InputsAppended, QueueType DEF CoreInv
<1>2. /\ n \in Nat /\ moved \in [1..n -> MovedInputs]
      /\ \A k, l \in 1..n : moved[k] = moved[l] => k = l
      /\ events' \in Seq(Events) /\ Len(events') = Len(events) + n
      /\ \A i \in DOMAIN events : i \in DOMAIN events' /\ events'[i] = events[i]
  BY <1>1 DEF InputsInOrder
<1>3. \A k \in 1..n :
        events'[Len(events) + k] = InputEvent(Applied(slots[moved[k][1]]), moved[k][2])
  BY <1>1 DEF InputsInOrder
<1>4. \A s \in DOMAIN slots : Applied(slots[s]).id = slots[s].id /\ Applied(slots[s]).live = slots[s].live
  BY AppliedSlots DEF CoreInv
<1>5. ASSUME NEW m \in MovedInputs
      PROVE  /\ m[1] \in LiveSlots /\ m[2] \in Outputs /\ m = <<m[1], m[2]>>
             /\ InputEvent(Applied(slots[m[1]]), m[2]).id = slots[m[1]].id
             /\ InputEvent(Applied(slots[m[1]]), m[2]).what = m[2]
             /\ InputEvent(Applied(slots[m[1]]), m[2]).type \in InputTypes
             /\ InputEvent(Applied(slots[m[1]]), m[2]).type \in EdgeTypes => m[2] \in Buttons
  <2>1. m \in (DOMAIN slots) \X Outputs /\ Applied(slots[m[1]]).live
    BY DEF MovedInputs
  <2>2. m[1] \in LiveSlots /\ m[2] \in Outputs /\ m = <<m[1], m[2]>>
    BY <1>4, <2>1 DEF LiveSlots
  <2> QED BY <1>4, <2>1, <2>2 DEF InputEvent, InputTypes, EdgeTypes
<1>6. \A i \in Fresh : i - Len(events) \in 1..n /\ i = Len(events) + (i - Len(events))
  BY <1>2, QueueType DEF Fresh
<1>7. ASSUME NEW i \in Fresh
      PROVE  \E k \in 1..n :
               /\ i = Len(events) + k /\ moved[k] \in MovedInputs
               /\ events'[i] = InputEvent(Applied(slots[moved[k][1]]), moved[k][2])
  BY <1>2, <1>3, <1>6
<1>8. \A i \in Fresh : /\ events'[i].type \in InputTypes /\ events'[i].id \in ConnectedIds
                       /\ events'[i].type \in EdgeTypes => events'[i].what \in Buttons
  BY <1>5, <1>7 DEF ConnectedIds
<1>9. ASSUME NEW i \in Fresh, NEW j \in Fresh,
             events'[i].id = events'[j].id, events'[i].what = events'[j].what
      PROVE  i = j
  <2>1. PICK k \in 1..n :
          /\ i = Len(events) + k /\ moved[k] \in MovedInputs
          /\ events'[i] = InputEvent(Applied(slots[moved[k][1]]), moved[k][2])
    BY <1>7
  <2>2. PICK l \in 1..n :
          /\ j = Len(events) + l /\ moved[l] \in MovedInputs
          /\ events'[j] = InputEvent(Applied(slots[moved[l][1]]), moved[l][2])
    BY <1>7
  <2>3. slots[moved[k][1]].id = slots[moved[l][1]].id /\ moved[k][2] = moved[l][2]
    BY <1>5, <1>9, <2>1, <2>2
  <2>4. moved[k][1] \in LiveSlots /\ moved[l][1] \in LiveSlots
    BY <1>5, <2>1, <2>2
  <2>5. moved[k][1] = moved[l][1]
    BY <2>3, <2>4 DEF CoreInv, RosterMatchesSlots
  <2>6. moved[k] = moved[l]
    BY <1>5, <2>1, <2>2, <2>3, <2>5
  <2> QED BY <1>2, <2>1, <2>2, <2>6
<1>10. SameOccupants /\ next_id' = next_id
  BY OthersKeepRoster DEF CoreInv, OtherStep
<1>11. ConnectedIds' = ConnectedIds
  BY <1>10, SameOccupantsSameIds
<1>12. Grown
  BY <1>2, QueueType DEF Grown
<1>13. NoInputsYet
  BY PollingQueuesNoInputs, ContextAssumption DEF EndUpdate
<1> QED BY <1>8, <1>9, <1>10, <1>11, <1>12, <1>13 DEF ReportsInputs

\* Every step that does not begin a frame is one of these.
LEMMA StepQueues ==
  ASSUME CoreInv, [Next]_vars, ~BeginUpdate
  PROVE  \/ Quiet
         \/ Grown /\ Arrives
         \/ Grown /\ \E id : Departs(id)
         \/ Grown /\ GainsMappings
         \/ Grown /\ ReportsInputs
<1>1. ASSUME OtherStep, events' = events
      PROVE  Quiet
  <2>1. ConnectedIds' = ConnectedIds /\ next_id' = next_id
    BY <1>1, OthersKeepRoster, SameOccupantsSameIds DEF CoreInv
  <2> QED BY <1>1, <2>1, QueueType DEF Quiet
<1>2. CASE HostCall
  <2>1. CASE \E desc \in Descriptions : AddDevice(desc)
    BY <2>1, ArrivalQueued
  <2>2. CASE \E s \in DOMAIN slots : RemoveDevice(s)
    BY <2>2, DepartureQueued
  <2>3. CASE \E s \in DOMAIN slots, i \in Raws, v \in Values : SetRaw(s, i, v)
    BY <1>1, <2>3 DEF OtherStep, SetRaw
  <2>4. CASE \E s \in DOMAIN slots, o \in Outputs, v \in Values : SetOutput(s, o, v)
    BY <1>1, <2>4 DEF OtherStep, SetOutput
  <2> QED BY <1>2, <2>1, <2>2, <2>3, <2>4 DEF HostCall
<1>3. CASE NextBackend
  BY <1>1, <1>3 DEF OtherStep, NextBackend
<1>4. CASE EndUpdate
  BY <1>4, FrameQueued
<1>5. CASE GameCall
  <2>1. CASE \E text \in Texts : AddMappings(text)
    BY <2>1, MappingsQueued
  <2>2. CASE \E c \in Configs : SetConfig(c)
    BY <1>1, <1>5, <2>2 DEF OtherStep, SetConfig
  <2> QED BY <1>5, <2>1, <2>2 DEF GameCall
<1>6. CASE UNCHANGED vars
  BY <1>1, <1>6 DEF OtherStep, vars
<1> QED BY <1>2, <1>3, <1>4, <1>5, <1>6 DEF Next
-----------------------------------------------------------------------------
(* the order of the queue *)

LEMMA GrownQueue ==
  ASSUME CoreInv, Grown
  PROVE  /\ \A i \in DOMAIN events' : \/ i \in DOMAIN events /\ events'[i] = events[i]
                                      \/ i \in Fresh /\ i \notin DOMAIN events
         /\ \A i \in Fresh : i \in DOMAIN events' /\ \A j \in DOMAIN events : j < i
         /\ \A i \in DOMAIN events : i \in DOMAIN events' /\ events'[i] = events[i]
         /\ DOMAIN events' \subseteq Int
<1>1. Len(events') \in Nat /\ DOMAIN events' = 1..Len(events') /\ Len(events') >= Len(events)
  BY LenProperties DEF Grown
<1> QED BY <1>1, QueueType DEF Grown, Fresh

LEMMA InitOrder == Init => QueueOrder
BY DEF Init, QueueOrder

LEMMA ArrivalOrder ==
  ASSUME CoreInv, QueueOrder, Grown, Arrives
  PROVE  QueueOrder'
<1> DEFINE e == DeviceEvent("DeviceAdded", next_id)
<1>1. e.type = "DeviceAdded" /\ e.id = next_id
  BY DEF DeviceEvent
<1> HIDE DEF e
<1>2. \A i \in Fresh : events'[i] = e
  BY DEF Arrives, e
<1>3. ConnectedIds' = ConnectedIds \cup {next_id} /\ next_id' = next_id + 1
  BY DEF Arrives
<1>4. \A i \in DOMAIN events' : events'[i].id \in 1..(next_id' - 1)
  BY <1>1, <1>2, <1>3, GrownQueue, QueueType DEF QueueOrder
<1>5. \A i, j \in DOMAIN events' :
        events'[j].type = "DeviceRemoved" /\ j < i => events'[j].id # events'[i].id
  BY <1>1, <1>2, GrownQueue, QueueType DEF QueueOrder
<1>6. \A i \in DOMAIN events' :
        events'[i].type = "DeviceRemoved" => events'[i].id \notin ConnectedIds'
  BY <1>1, <1>2, <1>3, GrownQueue, QueueType DEF QueueOrder
<1>7. \A i \in DOMAIN events' :
        /\ events'[i].type \in InputTypes => events'[i].id \in ConnectedIds'
        /\ events'[i].type \in EdgeTypes => events'[i].what \in Buttons
  BY <1>1, <1>2, <1>3, GrownQueue, QueueType DEF QueueOrder, InputTypes, EdgeTypes
<1>8. \A i \in DOMAIN events' :
        events'[i].type \in InputTypes => i \in DOMAIN events /\ events'[i] = events[i]
  BY <1>1, <1>2, GrownQueue DEF InputTypes, EdgeTypes
<1> QED BY <1>4, <1>5, <1>6, <1>7, <1>8 DEF QueueOrder

LEMMA DepartureOrder ==
  ASSUME CoreInv, QueueOrder, Grown, NEW id, Departs(id)
  PROVE  QueueOrder'
<1> DEFINE e == DeviceEvent("DeviceRemoved", id)
<1>1. e.type = "DeviceRemoved" /\ e.id = id
  BY DEF DeviceEvent
<1> HIDE DEF e
<1>2. \A i \in Fresh : events'[i] = e /\ i = Len(events) + 1
  BY DEF Departs, e
<1>3. /\ ConnectedIds' = ConnectedIds \ {id} /\ next_id' = next_id
      /\ id \in ConnectedIds /\ id \in Nat /\ id \in 1..(next_id - 1)
  <2>1. \A c \in ConnectedIds : c \in 1..(next_id - 1)
    BY DEF CoreInv, RosterMatchesSlots, ConnectedIds
  <2> QED BY <2>1, QueueType DEF Departs
<1>4. \A i \in DOMAIN events' : events'[i].id \in 1..(next_id' - 1)
  BY <1>1, <1>2, <1>3, GrownQueue, QueueType DEF QueueOrder
<1>5. \A i, j \in DOMAIN events' :
        events'[j].type = "DeviceRemoved" /\ j < i => events'[j].id # events'[i].id
  <2> TAKE i, j \in DOMAIN events'
  <2> HAVE events'[j].type = "DeviceRemoved" /\ j < i
  <2>1. j \in DOMAIN events /\ events'[j] = events[j]
    BY <1>2, GrownQueue, QueueType
  <2>2. CASE i \in Fresh
    BY <1>1, <1>2, <1>3, <2>1, <2>2 DEF QueueOrder
  <2> QED BY <2>1, <2>2, GrownQueue DEF QueueOrder
<1>6. \A i \in DOMAIN events' :
        events'[i].type = "DeviceRemoved" => events'[i].id \notin ConnectedIds'
  BY <1>1, <1>2, <1>3, GrownQueue, QueueType DEF QueueOrder
<1>7. \A i \in DOMAIN events' : events'[i].type \notin InputTypes
  BY <1>1, <1>2, GrownQueue DEF Departs, NoInputsYet, InputTypes, EdgeTypes
<1>8. \A i \in DOMAIN events' : events'[i].type \notin EdgeTypes
  BY <1>7 DEF InputTypes
<1> QED BY <1>4, <1>5, <1>6, <1>7, <1>8 DEF QueueOrder

LEMMA MappingsOrder ==
  ASSUME CoreInv, QueueOrder, Grown, GainsMappings
  PROVE  QueueOrder'
<1>1. /\ \A i \in Fresh : events'[i].type = "DeviceAdded" /\ events'[i].id \in ConnectedIds
      /\ ConnectedIds' = ConnectedIds /\ next_id' = next_id
  BY DEF GainsMappings
<1>2. \A id \in ConnectedIds : id \in 1..(next_id - 1)
  BY DEF CoreInv, RosterMatchesSlots, ConnectedIds
<1>3. \A i \in DOMAIN events' : events'[i].id \in 1..(next_id' - 1)
  BY <1>1, <1>2, GrownQueue DEF QueueOrder
<1>4. \A i, j \in DOMAIN events' :
        events'[j].type = "DeviceRemoved" /\ j < i => events'[j].id # events'[i].id
  <2> TAKE i, j \in DOMAIN events'
  <2> HAVE events'[j].type = "DeviceRemoved" /\ j < i
  <2>1. j \in DOMAIN events /\ events'[j] = events[j]
    BY <1>1, GrownQueue
  <2>2. CASE i \in Fresh
    BY <1>1, <2>1, <2>2 DEF QueueOrder
  <2> QED BY <2>1, <2>2, GrownQueue DEF QueueOrder
<1>5. \A i \in DOMAIN events' :
        events'[i].type = "DeviceRemoved" => events'[i].id \notin ConnectedIds'
  BY <1>1, GrownQueue DEF QueueOrder
<1>6. \A i \in DOMAIN events' :
        events'[i].type \in InputTypes => i \in DOMAIN events /\ events'[i] = events[i]
  BY <1>1, GrownQueue DEF InputTypes, EdgeTypes
<1>7. \A i \in DOMAIN events' :
        events'[i].type \in EdgeTypes => i \in DOMAIN events /\ events'[i] = events[i]
  BY <1>6 DEF InputTypes
<1> QED BY <1>1, <1>3, <1>4, <1>5, <1>6, <1>7 DEF QueueOrder

LEMMA FrameOrder ==
  ASSUME CoreInv, QueueOrder, Grown, ReportsInputs
  PROVE  QueueOrder'
<1>1. /\ \A i \in Fresh : /\ events'[i].type \in InputTypes /\ events'[i].id \in ConnectedIds
                          /\ events'[i].type \in EdgeTypes => events'[i].what \in Buttons
      /\ ConnectedIds' = ConnectedIds /\ next_id' = next_id
  BY DEF ReportsInputs
<1>2. \A id \in ConnectedIds : id \in 1..(next_id - 1)
  BY DEF CoreInv, RosterMatchesSlots, ConnectedIds
<1>3. \A i \in DOMAIN events' : events'[i].id \in 1..(next_id' - 1)
  BY <1>1, <1>2, GrownQueue DEF QueueOrder
<1>4. \A i \in DOMAIN events' :
        events'[i].type = "DeviceRemoved" => i \in DOMAIN events /\ events'[i] = events[i]
  BY <1>1, GrownQueue DEF InputTypes, EdgeTypes
<1>5. \A i, j \in DOMAIN events' :
        events'[j].type = "DeviceRemoved" /\ j < i => events'[j].id # events'[i].id
  <2> TAKE i, j \in DOMAIN events'
  <2> HAVE events'[j].type = "DeviceRemoved" /\ j < i
  <2>1. CASE i \in Fresh
    BY <1>1, <1>4, <2>1 DEF QueueOrder
  <2> QED BY <1>4, <2>1, GrownQueue DEF QueueOrder
<1>6. \A i \in DOMAIN events' :
        events'[i].type = "DeviceRemoved" => events'[i].id \notin ConnectedIds'
  BY <1>1, <1>4 DEF QueueOrder
<1>7. \A i \in DOMAIN events' : events'[i].type \in InputTypes => i \in Fresh
  BY GrownQueue DEF ReportsInputs, NoInputsYet
<1>8. \A i \in DOMAIN events' : events'[i].type \in EdgeTypes => events'[i].what \in Buttons
  BY <1>1, <1>7 DEF InputTypes
<1>9. \A i \in DOMAIN events' : events'[i].type \in InputTypes => events'[i].id \in ConnectedIds'
  BY <1>1, <1>7
<1>10. \A i, j \in DOMAIN events' :
         /\ events'[i].type \in InputTypes /\ events'[j].type \in InputTypes
         /\ events'[i].id = events'[j].id /\ events'[i].what = events'[j].what
         => i = j
  BY <1>7 DEF ReportsInputs
<1> QED BY <1>3, <1>5, <1>6, <1>8, <1>9, <1>10 DEF QueueOrder

LEMMA NextOrder == CoreInv /\ QueueOrder /\ [Next]_vars => QueueOrder'
<1> SUFFICES ASSUME CoreInv, QueueOrder, [Next]_vars
             PROVE  QueueOrder'
  OBVIOUS
<1>1. CASE BeginUpdate
  <2>1. DOMAIN events' = {}
    BY <1>1 DEF BeginUpdate
  <2> QED BY <2>1 DEF QueueOrder
<1>2. CASE Quiet
  <2>1. \A i \in DOMAIN events : events[i].id \in 1..(next_id' - 1)
    BY <1>2, QueueType DEF Quiet, QueueOrder
  <2> QED BY <1>2, <2>1 DEF Quiet, QueueOrder
<1> QED BY <1>1, <1>2, StepQueues, ArrivalOrder, DepartureOrder, MappingsOrder, FrameOrder
-----------------------------------------------------------------------------
(* what the game has still to read *)

Whole == CoreInv /\ QueueOrder /\ GameInv

CoreStep ==
  (HostCall \/ NextBackend \/ EndUpdate \/ BetweenLoops) /\ UNCHANGED <<heard, drained, left>>

LEMMA CoreStepIsStep ==
  ASSUME Whole, CoreStep
  PROVE  /\ [Next]_vars /\ ~BeginUpdate
         /\ UNCHANGED <<heard, drained, left>>
         /\ first_update' = first_update
         /\ drained => left = 0 /\ GameCall /\ current_backend = 0
         /\ current_backend' # 0 => ~drained
<1>1. current_backend \in 0..(NBackends + 1) /\ NBackends \in Nat
  BY ContextAssumption DEF Whole, CoreInv, Inv, TableTypeOK
<1>2. current_backend # 0 => ~drained
  BY DEF Whole, GameInv, Listening
<1>3. CASE HostCall
  <2>1. current_backend \in 1..NBackends /\ current_backend' = current_backend
    BY <1>3, HostCallIsPolling DEF Polling
  <2>2. first_update' = first_update
    BY <1>3 DEF HostCall, AddDevice, RemoveDevice, SetRaw, SetOutput
  <2>3. current_backend # 0 /\ ~drained
    BY <1>1, <1>2, <2>1
  <2>4. ~BeginUpdate
    BY <2>3 DEF BeginUpdate
  <2>5. [Next]_vars /\ UNCHANGED <<heard, drained, left>>
    BY <1>3 DEF Next, CoreStep
  <2> QED BY <2>2, <2>3, <2>4, <2>5
<1>4. CASE NextBackend \/ EndUpdate
  <2>1. current_backend # 0 /\ first_update' = first_update
    BY <1>1, <1>4 DEF NextBackend, EndUpdate, Polling
  <2> QED BY <1>2, <1>4, <2>1 DEF CoreStep, Next, BeginUpdate
<1>5. CASE BetweenLoops
  <2>1. GameCall /\ left = 0 /\ current_backend = 0 /\ current_backend' = 0
        /\ first_update' = first_update
    BY <1>5 DEF BetweenLoops, GameCall, AddMappings, SetConfig
  <2>2. ~BeginUpdate
    BY <2>1 DEF BeginUpdate
  <2> QED BY <2>1, <2>2 DEF CoreStep, Next
<1> QED BY <1>3, <1>4, <1>5 DEF CoreStep

LEMMA UnreadType ==
  ASSUME Whole
  PROVE  /\ Unread \subseteq DOMAIN events
         /\ drained /\ left = 0 => Unread = {}
         /\ ~drained => Unread = DOMAIN events
         /\ drained \in BOOLEAN /\ left \in Nat /\ left <= Len(events)
<1>1. left \in 0..Len(events) /\ drained \in BOOLEAN
  BY DEF Whole, GameInv, Listening
<1>2. Len(events) \in Nat /\ DOMAIN events = 1..Len(events)
  BY QueueType DEF Whole
<1> QED BY <1>1, <1>2 DEF Unread

\* A queue that is read out stays so while the core goes on.
LEMMA ReadOutStays ==
  ASSUME Whole, CoreStep, drained
  PROVE  /\ Unread = {} /\ Unread' = {}
         /\ ConnectedIds' = ConnectedIds /\ next_id' = next_id
<1>1. left = 0 /\ left' = 0 /\ drained' /\ GameCall
  BY CoreStepIsStep
<1>2. SameOccupants /\ next_id' = next_id
  BY <1>1, OthersKeepRoster DEF OtherStep, Whole, CoreInv
<1>3. events' \in Seq(Events)
  <2>1. ~EndUpdate
    BY <1>1, CoreStepIsStep, ContextAssumption DEF EndUpdate
  <2> QED BY <2>1, CoreStepIsStep, DevicesQueued, QueueType DEF Whole, CoreInv
<1>4. Len(events') \in Nat
  BY <1>3, LenProperties
<1>5. Unread' = {}
  BY <1>1, <1>4 DEF Unread
<1> QED BY <1>1, <1>2, <1>5, UnreadType, SameOccupantsSameIds

LEMMA FreshIds ==
  ASSUME Whole, CoreStep, ~drained, Grown, NEW type
  PROVE  UnreadIds(type)'
           = UnreadIds(type) \cup {events'[i].id : i \in {k \in Fresh : events'[k].type = type}}
<1>1. Unread = DOMAIN events /\ Unread' = DOMAIN events'
  BY CoreStepIsStep DEF Unread
<1>2. /\ \A i \in DOMAIN events' : \/ i \in DOMAIN events /\ events'[i] = events[i]
                                   \/ i \in Fresh
      /\ \A i \in Fresh : i \in DOMAIN events'
      /\ \A i \in DOMAIN events : i \in DOMAIN events' /\ events'[i] = events[i]
  BY GrownQueue DEF Whole
<1>3. ASSUME NEW id \in UnreadIds(type)'
      PROVE  id \in UnreadIds(type) \cup {events'[i].id : i \in {k \in Fresh : events'[k].type = type}}
  BY <1>1, <1>2 DEF UnreadIds
<1>4. ASSUME NEW id \in UnreadIds(type) \cup {events'[i].id : i \in {k \in Fresh : events'[k].type = type}}
      PROVE  id \in UnreadIds(type)'
  BY <1>1, <1>2 DEF UnreadIds
<1> QED BY <1>3, <1>4

\* The event the loop comes to is the first of the unread ones.
LEMMA NextIsFirst ==
  ASSUME Whole, HearNext
  PROVE  /\ drained /\ drained' /\ current_backend = 0 /\ ~first_update
         /\ \E k \in DOMAIN events : /\ NextEvent = events[k]
                                     /\ Unread = Unread' \cup {k}
                                     /\ \A i \in Unread' : k < i
         /\ UNCHANGED vars
<1>1. left \in 1..Len(events) /\ drained /\ left' = left - 1 /\ drained' /\ UNCHANGED vars
  BY UnreadType DEF Whole, GameInv, Listening, HearNext
<1>2. current_backend = 0 /\ ~first_update
  BY <1>1 DEF Whole, GameInv, Listening
<1> DEFINE k == Len(events) - left + 1
<1>3. Len(events) \in Nat /\ DOMAIN events = 1..Len(events)
  BY QueueType DEF Whole
<1>4. Unread = k..Len(events) /\ Unread' = (k + 1)..Len(events)
  BY <1>1, <1>3 DEF Unread, vars
<1>5. k \in DOMAIN events /\ NextEvent = events[k] /\ k \in Int
  BY <1>1, <1>3 DEF NextEvent
<1>6. Unread = Unread' \cup {k} /\ \A i \in Unread' : k < i
  <2> HIDE DEF k
  <2> QED BY <1>3, <1>4, <1>5
<1> QED BY <1>1, <1>2, <1>5, <1>6

LEMMA ReadingKeepsUnread ==
  ASSUME Whole, ReadQueue
  PROVE  /\ Unread' = Unread /\ heard' = heard /\ drained' /\ left' \in 0..Len(events)
         /\ UNCHANGED vars /\ current_backend = 0 /\ ~first_update
<1>1. Len(events) \in Nat /\ DOMAIN events = 1..Len(events)
  BY QueueType DEF Whole
<1>2. ~drained /\ drained' = TRUE /\ left' = Len(events) /\ UNCHANGED <<vars, heard>>
      /\ current_backend = 0
  BY DEF ReadQueue
<1>3. Unread' = DOMAIN events /\ Unread = DOMAIN events
  BY <1>1, <1>2 DEF Unread, vars
<1> QED BY <1>1, <1>2, <1>3 DEF Whole, GameInv, Listening

LEMMA HeardType ==
  ASSUME Whole
  PROVE  /\ heard.known \subseteq Nat /\ heard.held \subseteq Nat \X Buttons
         /\ heard.gone \subseteq Nat
         /\ heard = [known |-> heard.known, held |-> heard.held, gone |-> heard.gone,
                     usable |-> heard.usable]
         /\ DOMAIN heard = {"known", "held", "gone", "usable"}
BY DEF Whole, GameInv, Listening

\* What one event tells the game, case by case.
LEMMA HearProperties ==
  ASSUME Whole, HearNext
  PROVE  /\ NextEvent.type = "DeviceAdded" =>
              /\ heard'.known = heard.known \cup {NextEvent.id}
              /\ heard'.held = heard.held /\ heard'.gone = heard.gone
         /\ NextEvent.type = "DeviceRemoved" =>
              /\ heard'.known = heard.known \ {NextEvent.id}
              /\ heard'.held = {b \in heard.held : b[1] # NextEvent.id}
              /\ heard'.gone = heard.gone \cup {NextEvent.id}
         /\ NextEvent.type \in InputTypes =>
              heard'.known = heard.known /\ heard'.gone = heard.gone
         /\ NextEvent.type = "ButtonDown" =>
              heard'.held = heard.held \cup {<<NextEvent.id, NextEvent.what>>}
         /\ NextEvent.type = "ButtonUp" =>
              heard'.held = heard.held \ {<<NextEvent.id, NextEvent.what>>}
         /\ NextEvent.type = "AxisMotion" => heard'.held = heard.held
         /\ NextEvent.type \in {"DeviceAdded", "DeviceRemoved"} \cup InputTypes
<1> DEFINE e == NextEvent
<1>1. heard' = Hear(heard, e)
  BY DEF HearNext
<1>2. e.type \in EventTypes
  BY NextIsFirst, QueueType DEF Whole, Events
<1>3. /\ DOMAIN heard = {"known", "held", "gone", "usable"}
  BY HeardType
<1> HIDE DEF e
<1>4. CASE e.type = "DeviceAdded"
  BY <1>1, <1>3, <1>4 DEF Hear, e, InputTypes, EdgeTypes
<1>5. CASE e.type = "DeviceRemoved"
  BY <1>1, <1>3, <1>5 DEF Hear, e, InputTypes, EdgeTypes
<1>6. CASE e.type = "ButtonDown"
  BY <1>1, <1>3, <1>6 DEF Hear, e, InputTypes, EdgeTypes
<1>7. CASE e.type = "ButtonUp"
  BY <1>1, <1>3, <1>7 DEF Hear, e, InputTypes, EdgeTypes
<1>8. CASE e.type = "AxisMotion"
  BY <1>1, <1>3, <1>8 DEF Hear, e, InputTypes, EdgeTypes
<1> QED BY <1>2, <1>4, <1>5, <1>6, <1>7, <1>8 DEF EventTypes, e
-----------------------------------------------------------------------------
(* the devices the game knows *)

LEMMA CoreKnown ==
  ASSUME Whole, CoreStep
  PROVE  KnownRight'
<1> DEFINE A == UnreadIds("DeviceAdded")
           R == UnreadIds("DeviceRemoved")
<1>1. heard' = heard /\ drained' = drained /\ [Next]_vars /\ ~BeginUpdate /\ CoreInv
  BY CoreStepIsStep DEF Whole
<1>2. CASE drained
  <2>1. Unread = {} /\ Unread' = {} /\ ConnectedIds' = ConnectedIds /\ next_id' = next_id
    BY <1>2, ReadOutStays
  <2>2. A = {} /\ A' = {} /\ R = {} /\ R' = {}
    BY <2>1 DEF UnreadIds
  <2> HIDE DEF A, R
  <2>3. ConnectedIds = heard.known /\ \A id \in heard.known : id < next_id
    BY <2>2 DEF Whole, GameInv, KnownRight, A, R
  <2>4. ConnectedIds' = (heard'.known \cup UnreadIds("DeviceAdded")') \ UnreadIds("DeviceRemoved")'
    BY <1>1, <2>1, <2>2, <2>3 DEF A, R
  <2> QED BY <1>1, <2>1, <2>3, <2>4 DEF KnownRight
<1>3. CASE ~drained
  <2>1. Unread = DOMAIN events /\ Unread' = DOMAIN events'
    BY <1>1, <1>3 DEF Unread
  <2>2. /\ ConnectedIds = (heard.known \cup A) \ R
        /\ \A id \in heard.known : id < next_id
        /\ \A i \in DOMAIN events :
             events[i].type \in InputTypes =>
               \/ events[i].id \in heard.known
               \/ \E j \in DOMAIN events : /\ j < i /\ events[j].type = "DeviceAdded"
                                           /\ events[j].id = events[i].id
    BY <2>1 DEF Whole, GameInv, KnownRight
  <2>3. R \subseteq {events[i].id : i \in DOMAIN events} /\ \A id \in R : id < next_id
    BY <2>1, QueueType DEF UnreadIds, Whole, QueueOrder
  <2>4. R \cap ConnectedIds = {}
    BY <2>2
  <2>5. \A id \in A : \E j \in DOMAIN events : events[j].type = "DeviceAdded" /\ events[j].id = id
    BY <2>1 DEF UnreadIds
  <2>6. /\ \A id \in ConnectedIds : id \in Nat /\ id < next_id
        /\ next_id \in Nat /\ heard.known \subseteq Nat
    BY <1>1, QueueType, HeardType
  <2>7. ASSUME Grown
        PROVE  /\ A' = A \cup {events'[i].id : i \in {k \in Fresh : events'[k].type = "DeviceAdded"}}
               /\ R' = R \cup {events'[i].id : i \in {k \in Fresh : events'[k].type = "DeviceRemoved"}}
    BY <1>3, <2>7, FreshIds
  <2> HIDE DEF A, R
  <2>8. ASSUME ConnectedIds' = (heard.known \cup A') \ R', next_id' \in Nat, next_id' >= next_id,
               \A i \in DOMAIN events' :
                 events'[i].type \in InputTypes =>
                   \/ events'[i].id \in heard.known
                   \/ \E j \in DOMAIN events' : /\ j < i /\ events'[j].type = "DeviceAdded"
                                                /\ events'[j].id = events'[i].id
        PROVE  KnownRight'
    <3>1. \A id \in heard'.known : id < next_id'
      BY <1>1, <2>2, <2>6, <2>8
    <3> QED BY <1>1, <2>1, <2>8, <3>1 DEF KnownRight, A, R
  <2>9. ASSUME Grown, \A i \in Fresh : events'[i].type \notin InputTypes
        PROVE  \A i \in DOMAIN events' :
                 events'[i].type \in InputTypes =>
                   \/ events'[i].id \in heard.known
                   \/ \E j \in DOMAIN events' : /\ j < i /\ events'[j].type = "DeviceAdded"
                                                /\ events'[j].id = events'[i].id
    <3> TAKE i \in DOMAIN events'
    <3> HAVE events'[i].type \in InputTypes
    <3>1. i \in DOMAIN events /\ events'[i] = events[i]
      BY <1>1, <2>9, GrownQueue
    <3>2. \A j \in DOMAIN events : j \in DOMAIN events' /\ events'[j] = events[j]
      BY <1>1, <2>9, GrownQueue
    <3> QED BY <2>2, <3>1, <3>2
  <2>10. "DeviceAdded" \notin InputTypes /\ "DeviceRemoved" \notin InputTypes
    BY DEF InputTypes, EdgeTypes
  <2>11. CASE Quiet
    <3>1. A' = A /\ R' = R
      BY <2>1, <2>11 DEF Quiet, A, R, UnreadIds
    <3> QED BY <2>2, <2>8, <2>11, <3>1 DEF Quiet
  <2>12. CASE Grown /\ Arrives
    <3>1. \A i \in Fresh : events'[i].type = "DeviceAdded" /\ events'[i].id = next_id
      BY <2>12 DEF Arrives, DeviceEvent
    <3>2. \E i : i \in Fresh
      BY <2>12 DEF Arrives
    <3>3. A' = A \cup {next_id} /\ R' = R
      BY <2>7, <2>12, <3>1, <3>2
    <3>4. next_id \notin R
      BY <2>3, <2>6
    <3>5. ConnectedIds' = (heard.known \cup A') \ R'
      BY <2>2, <2>12, <3>3, <3>4 DEF Arrives
    <3> QED BY <2>6, <2>8, <2>9, <2>10, <2>12, <3>1, <3>5 DEF Arrives
  <2>13. CASE Grown /\ \E id : Departs(id)
    <3>1. PICK id : Departs(id)
      BY <2>13
    <3>2. \A i \in Fresh : events'[i].type = "DeviceRemoved" /\ events'[i].id = id
      BY <3>1 DEF Departs, DeviceEvent
    <3>3. \E i : i \in Fresh
      BY <3>1 DEF Departs
    <3>4. A' = A /\ R' = R \cup {id}
      BY <2>7, <2>13, <3>2, <3>3
    <3>5. ConnectedIds' = (heard.known \cup A') \ R'
      BY <2>2, <3>1, <3>4 DEF Departs
    <3> QED BY <2>6, <2>8, <2>9, <2>10, <2>13, <3>1, <3>2, <3>5 DEF Departs
  <2>14. CASE Grown /\ GainsMappings
    <3>1. /\ \A i \in Fresh : events'[i].type = "DeviceAdded" /\ events'[i].id \in ConnectedIds
          /\ ConnectedIds' = ConnectedIds /\ next_id' = next_id
      BY <2>14 DEF GainsMappings
    <3>2. A \subseteq A' /\ A' \subseteq A \cup ConnectedIds /\ R' = R
      BY <2>7, <2>14, <3>1
    <3>3. ConnectedIds' = (heard.known \cup A') \ R'
      BY <2>2, <2>4, <3>1, <3>2
    <3> QED BY <2>6, <2>8, <2>9, <2>10, <2>14, <3>1, <3>3
  <2>15. CASE Grown /\ ReportsInputs
    <3>1. /\ \A i \in Fresh : events'[i].type \in InputTypes /\ events'[i].id \in ConnectedIds
          /\ ConnectedIds' = ConnectedIds /\ next_id' = next_id /\ NoInputsYet
      BY <2>15 DEF ReportsInputs
    <3>2. A' = A /\ R' = R
      BY <2>7, <2>10, <2>15, <3>1
    <3>3. ASSUME NEW i \in DOMAIN events', events'[i].type \in InputTypes
          PROVE  \/ events'[i].id \in heard.known
                 \/ \E j \in DOMAIN events' : /\ j < i /\ events'[j].type = "DeviceAdded"
                                              /\ events'[j].id = events'[i].id
      <4>1. i \in Fresh
        BY <1>1, <2>15, <3>1, <3>3, GrownQueue DEF NoInputsYet
      <4>2. events'[i].id \in heard.known \/ events'[i].id \in A
        BY <2>2, <3>1, <4>1
      <4>3. /\ \A j \in DOMAIN events : j \in DOMAIN events' /\ events'[j] = events[j] /\ j < i
        BY <1>1, <2>15, <4>1, GrownQueue
      <4> QED BY <2>5, <4>2, <4>3
    <3> QED BY <2>2, <2>6, <2>8, <3>1, <3>2, <3>3
  <2> QED BY <1>1, <2>11, <2>12, <2>13, <2>14, <2>15, StepQueues
<1> QED BY <1>2, <1>3

LEMMA HearKnown ==
  ASSUME Whole, HearNext
  PROVE  KnownRight'
<1> DEFINE A == UnreadIds("DeviceAdded")
           R == UnreadIds("DeviceRemoved")
           e == NextEvent
<1>1. PICK k \in DOMAIN events : /\ e = events[k] /\ Unread = Unread' \cup {k}
                                 /\ \A i \in Unread' : k < i
  BY NextIsFirst
<1>2. UNCHANGED vars /\ events' = events /\ next_id' = next_id /\ ConnectedIds' = ConnectedIds
  BY NextIsFirst DEF vars, ConnectedIds, LiveSlots
<1>3. Unread' \subseteq DOMAIN events /\ e.id < next_id /\ e.id \in Nat
  BY <1>1, UnreadType, QueueType DEF Whole, QueueOrder
<1>4. /\ A = A' \cup {id \in {e.id} : e.type = "DeviceAdded"}
      /\ R = R' \cup {id \in {e.id} : e.type = "DeviceRemoved"}
  BY <1>1, <1>2 DEF UnreadIds
<1>5. ASSUME e.type = "DeviceRemoved"
      PROVE  \A i \in Unread' : events[i].id # e.id
  BY <1>1, <1>3, <1>5 DEF Whole, QueueOrder
<1>6. e.type = "DeviceRemoved" => e.id \notin A' /\ e.id \notin R'
  BY <1>2, <1>5 DEF UnreadIds
<1>7. /\ ConnectedIds = (heard.known \cup A) \ R
      /\ \A id \in heard.known : id < next_id
      /\ \A i \in Unread :
           events[i].type \in InputTypes =>
             \/ events[i].id \in heard.known
             \/ \E j \in Unread : /\ j < i /\ events[j].type = "DeviceAdded"
                                  /\ events[j].id = events[i].id
  BY DEF Whole, GameInv, KnownRight
<1> HIDE DEF A, R
<1>8. "DeviceAdded" \notin InputTypes /\ "DeviceRemoved" \notin InputTypes
  BY DEF InputTypes, EdgeTypes
<1>9. /\ e.type = "DeviceAdded" => heard'.known = heard.known \cup {e.id}
      /\ e.type = "DeviceRemoved" => heard'.known = heard.known \ {e.id}
      /\ e.type \in InputTypes => heard'.known = heard.known
      /\ e.type \in {"DeviceAdded", "DeviceRemoved"} \cup InputTypes
  BY HearProperties
<1> HIDE DEF e
<1>10. ConnectedIds = (heard'.known \cup A') \ R'
  <2>1. CASE e.type = "DeviceAdded"
    <3>1. A = A' \cup {e.id} /\ R = R' /\ heard'.known = heard.known \cup {e.id}
      BY <1>4, <1>9, <2>1
    <3> QED BY <1>7, <3>1
  <2>2. CASE e.type = "DeviceRemoved"
    <3>1. A = A' /\ R = R' \cup {e.id} /\ heard'.known = heard.known \ {e.id} /\ e.id \notin A'
      BY <1>4, <1>6, <1>9, <2>2
    <3> QED BY <1>7, <3>1
  <2>3. CASE e.type \in InputTypes
    <3>1. A = A' /\ R = R' /\ heard'.known = heard.known
      BY <1>4, <1>8, <1>9, <2>3
    <3> QED BY <1>7, <3>1
  <2> QED BY <1>9, <2>1, <2>2, <2>3
<1>11. \A id \in heard'.known : id < next_id
  BY <1>3, <1>7, <1>9
<1>12. ASSUME NEW i \in Unread', events[i].type \in InputTypes
       PROVE  \/ events[i].id \in heard'.known
              \/ \E j \in Unread' : /\ j < i /\ events[j].type = "DeviceAdded"
                                    /\ events[j].id = events[i].id
  <2>1. e.type = "DeviceRemoved" => events[i].id # e.id
    BY <1>5, <1>12 DEF e
  <2>2. CASE events[i].id \in heard.known
    BY <1>9, <2>1, <2>2
  <2>3. CASE \E j \in Unread : /\ j < i /\ events[j].type = "DeviceAdded"
                               /\ events[j].id = events[i].id
    BY <1>1, <1>9, <2>3
  <2> QED BY <1>1, <1>7, <1>12, <2>2, <2>3
<1> QED BY <1>2, <1>10, <1>11, <1>12 DEF KnownRight, A, R

\* A departure is the last thing the game hears of a device.
LEMMA HearGone ==
  ASSUME Whole, HearNext
  PROVE  GoneRight'
<1> DEFINE e == NextEvent
<1>1. PICK k \in DOMAIN events : /\ e = events[k] /\ Unread = Unread' \cup {k}
                                 /\ \A i \in Unread' : k < i
  BY NextIsFirst
<1>2. UNCHANGED vars /\ events' = events /\ next_id' = next_id /\ ConnectedIds' = ConnectedIds
  BY NextIsFirst DEF vars, ConnectedIds, LiveSlots
<1>3. Unread' \subseteq DOMAIN events /\ e.id < next_id
  BY <1>1, UnreadType, QueueType DEF Whole, QueueOrder
<1>4. ASSUME e.type = "DeviceRemoved"
      PROVE  e.id \notin ConnectedIds /\ \A i \in Unread' : events[i].id # e.id
  BY <1>1, <1>3, <1>4 DEF Whole, QueueOrder
<1>5. heard'.gone = heard.gone \/ (e.type = "DeviceRemoved" /\ heard'.gone = heard.gone \cup {e.id})
  BY HearProperties
<1>6. /\ \A id \in heard.gone : id < next_id /\ id \notin ConnectedIds
      /\ \A i \in Unread : events[i].id \notin heard.gone
  BY DEF Whole, GameInv, GoneRight
<1> HIDE DEF e
<1>7. \A id \in heard'.gone : id < next_id /\ id \notin ConnectedIds
  BY <1>3, <1>4, <1>5, <1>6
<1>8. \A i \in Unread' : events[i].id \notin heard'.gone
  BY <1>1, <1>4, <1>5, <1>6
<1> QED BY <1>2, <1>7, <1>8 DEF GoneRight

LEMMA CoreGone ==
  ASSUME Whole, CoreStep
  PROVE  GoneRight'
<1>1. heard' = heard /\ drained' = drained /\ [Next]_vars /\ ~BeginUpdate /\ CoreInv
  BY CoreStepIsStep DEF Whole
<1>2. /\ \A id \in heard.gone : id < next_id /\ id \notin ConnectedIds
      /\ \A i \in Unread : events[i].id \notin heard.gone
  BY DEF Whole, GameInv, GoneRight
<1>3. CASE drained
  BY <1>1, <1>2, <1>3, ReadOutStays DEF GoneRight
<1>4. CASE ~drained
  <2>1. Unread = DOMAIN events /\ Unread' = DOMAIN events'
    BY <1>1, <1>4 DEF Unread
  <2>2. /\ next_id \in Nat /\ heard.gone \subseteq Nat
    BY <1>1, QueueType, HeardType
  <2>3. /\ next_id' \in Nat /\ next_id' >= next_id /\ ConnectedIds' \subseteq ConnectedIds \cup {next_id}
    BY <1>1, <2>2, StepQueues DEF Quiet, Arrives, Departs, GainsMappings, ReportsInputs
  <2>4. \A id \in heard.gone : id < next_id' /\ id \notin ConnectedIds'
    BY <1>2, <2>2, <2>3
  <2>5. events' = events \/ (Grown /\ \A i \in Fresh : events'[i].id \in ConnectedIds \cup {next_id})
    <3>1. Quiet => events' = events
      BY DEF Quiet
    <3>2. Arrives => \A i \in Fresh : events'[i].id \in ConnectedIds \cup {next_id}
      BY DEF Arrives, DeviceEvent
    <3>3. (\E id : Departs(id)) => \A i \in Fresh : events'[i].id \in ConnectedIds \cup {next_id}
      BY DEF Departs, DeviceEvent
    <3>4. GainsMappings \/ ReportsInputs
            => \A i \in Fresh : events'[i].id \in ConnectedIds \cup {next_id}
      BY DEF GainsMappings, ReportsInputs
    <3> QED BY <1>1, <3>1, <3>2, <3>3, <3>4, StepQueues
  <2>6. \A i \in DOMAIN events' : events'[i].id \notin heard.gone
    BY <1>1, <1>2, <2>1, <2>2, <2>5, GrownQueue
  <2> QED BY <1>1, <2>1, <2>4, <2>6 DEF GoneRight
<1> QED BY <1>3, <1>4
-----------------------------------------------------------------------------
(* the buttons the game holds *)

\* Slot s answers for its device as before.
SameView(s) ==
  /\ slots'[s].id = slots[s].id /\ slots'[s].prev = slots[s].prev
  /\ current_backend = 0 => slots'[s].out = slots[s].out

LEMMA NewDeviceIsAtRest ==
  ASSUME NEW desc \in Descriptions
  PROVE  NewDevice(desc).prev = AtRest
<1> DEFINE d == [live |-> TRUE, id |-> next_id, backend |-> current_backend,
                 backend_mapped |-> desc.backend_mapped, guid |-> desc.guid,
                 mapped |-> FALSE, mapping |-> NoMapping,
                 raw |-> [i \in Raws |-> 0], out |-> AtRest, prev |-> AtRest]
<1>1. d.prev = AtRest
  OBVIOUS
<1>2. DOMAIN d = {"live", "id", "backend", "backend_mapped", "guid", "mapped", "mapping",
                  "raw", "out", "prev"}
  OBVIOUS
<1>3. NewDevice(desc) = Resolved(d, table)
  BY DEF NewDevice
<1> HIDE DEF d
<1>4. Resolved(d, table).prev = d.prev
  BY <1>2 DEF Resolved
<1> QED BY <1>1, <1>3, <1>4

LEMMA ResolvedKeepsViews ==
  ASSUME NEW tbl, NEW d \in Devices
  PROVE  Resolved(d, tbl).prev = d.prev /\ Resolved(d, tbl).out = d.out
BY DEF Resolved, Devices

\* Steps of the core that neither begin nor end a frame.
LEMMA ViewsStay ==
  ASSUME Whole, CoreStep, ~EndUpdate
  PROVE  \A s \in LiveSlots' :
           \/ s \in LiveSlots /\ SameView(s)
           \/ slots'[s].id = next_id /\ slots'[s].prev = AtRest /\ current_backend' # 0
<1>1. CoreInv /\ Inv
  BY DEF Whole, CoreInv
<1>2. \A s \in DOMAIN slots : slots[s] \in Devices
  BY <1>1, SlotsAreDevices
<1>3. ASSUME NEW desc \in Descriptions, AddDevice(desc)
      PROVE  \A s \in LiveSlots' :
               \/ s \in LiveSlots /\ SameView(s)
               \/ slots'[s].id = next_id /\ slots'[s].prev = AtRest /\ current_backend' # 0
  <2>1. /\ \A s \in LiveSlots : s \in LiveSlots' /\ slots'[s] = slots[s]
        /\ Wanted(desc) => LiveSlots' = LiveSlots \cup {FreeSlot} /\ slots'[FreeSlot] = NewDevice(desc)
        /\ ~Wanted(desc) => LiveSlots' = LiveSlots
    BY <1>1, <1>3, AdmittedProperties
  <2>2. current_backend' # 0
    BY <1>3, ContextAssumption DEF AddDevice, Polling
  <2>3. NewDevice(desc).id = next_id /\ NewDevice(desc).prev = AtRest
    BY <1>1, <1>3, NewDeviceProperties, NewDeviceIsAtRest DEF AddDevice
  <2> QED BY <2>1, <2>2, <2>3 DEF SameView
<1>4. ASSUME NEW s \in DOMAIN slots, RemoveDevice(s)
      PROVE  \A r \in LiveSlots' : r \in LiveSlots /\ SameView(r)
  BY <1>1, <1>4, DepartureProperties DEF SameView
<1>5. ASSUME NEW s \in DOMAIN slots, NEW i \in Raws, NEW v \in Values, SetRaw(s, i, v)
      PROVE  \A r \in LiveSlots' : r \in LiveSlots /\ SameView(r)
  <2>1. slots' = [slots EXCEPT ![s].raw[i] = v] /\ current_backend # 0
    BY <1>5, ContextAssumption DEF SetRaw, Holds, Polling
  <2>2. \A r \in DOMAIN slots : /\ slots'[r].live = slots[r].live /\ slots'[r].id = slots[r].id
                                /\ slots'[r].prev = slots[r].prev
    BY <1>2, <2>1 DEF Devices
  <2>3. DOMAIN slots' = DOMAIN slots
    BY <2>1
  <2> QED BY <2>1, <2>2, <2>3 DEF LiveSlots, SameView
<1>6. ASSUME NEW s \in DOMAIN slots, NEW o \in Outputs, NEW v \in Values, SetOutput(s, o, v)
      PROVE  \A r \in LiveSlots' : r \in LiveSlots /\ SameView(r)
  <2>1. slots' = [slots EXCEPT ![s].out[o] = v] /\ current_backend # 0
    BY <1>6, ContextAssumption DEF SetOutput, Holds, Polling
  <2>2. \A r \in DOMAIN slots : /\ slots'[r].live = slots[r].live /\ slots'[r].id = slots[r].id
                                /\ slots'[r].prev = slots[r].prev
    BY <1>2, <2>1 DEF Devices
  <2>3. DOMAIN slots' = DOMAIN slots
    BY <2>1
  <2> QED BY <2>1, <2>2, <2>3 DEF LiveSlots, SameView
<1>7. ASSUME slots' = slots
      PROVE  \A r \in LiveSlots' : r \in LiveSlots /\ SameView(r)
  BY <1>7 DEF LiveSlots, SameView
<1>8. ASSUME NEW text \in Texts, AddMappings(text)
      PROVE  \A r \in LiveSlots' : r \in LiveSlots /\ SameView(r)
  <2>1. slots' = Refreshed(AddMany(table, text))
    BY <1>8 DEF AddMappings
  <2> DEFINE tbl == AddMany(table, text)
  <2>2. IsTable(tbl)
    BY <1>1, AddManyIsTable, ContextAssumption DEF Inv, TableTypeOK
  <2> HIDE DEF tbl
  <2>3. /\ DOMAIN slots' = DOMAIN slots
        /\ \A r \in DOMAIN slots :
             slots'[r] = IF slots[r].live THEN Resolved(slots[r], tbl) ELSE slots[r]
    BY <2>1 DEF Refreshed, tbl
  <2>4. \A r \in DOMAIN slots : /\ slots'[r].live = slots[r].live /\ SameView(r)
    BY <1>2, <2>2, <2>3, ResolvedProperties, ResolvedKeepsViews DEF SameView
  <2> QED BY <2>3, <2>4 DEF LiveSlots
<1>9. CASE HostCall
  BY <1>3, <1>4, <1>5, <1>6, <1>9 DEF HostCall
<1>10. CASE NextBackend
  BY <1>7, <1>10 DEF NextBackend
<1>11. CASE GameCall
  <2>1. CASE \E c \in Configs : SetConfig(c)
    BY <1>7, <2>1 DEF SetConfig
  <2> QED BY <1>8, <1>11, <2>1 DEF GameCall
<1> QED BY <1>9, <1>10, <1>11 DEF CoreStep, BetweenLoops

\* Between two frames the queue gets no input.
LEMMA InputsStay ==
  ASSUME Whole, CoreStep, current_backend = 0, NEW id, NEW b
  PROVE  EdgeUnread(id, b)' <=> EdgeUnread(id, b)
<1>1. heard' = heard /\ drained' = drained /\ [Next]_vars /\ ~BeginUpdate /\ CoreInv
  BY CoreStepIsStep DEF Whole
<1>2. CASE drained
  BY <1>2, ReadOutStays DEF EdgeUnread
<1>3. CASE ~drained
  <2>1. Unread = DOMAIN events /\ Unread' = DOMAIN events'
    BY <1>1, <1>3 DEF Unread
  <2>2. GameCall
    BY ContextAssumption, HostCallIsPolling
       DEF CoreStep, BetweenLoops, NextBackend, EndUpdate, Polling
  <2>3. events' = events \/ (Grown /\ \A i \in Fresh : events'[i].type = "DeviceAdded")
    BY <1>1, <2>2, MappingsQueued DEF GameCall, SetConfig, GainsMappings
  <2>4. ASSUME Grown, \A i \in Fresh : events'[i].type \notin InputTypes
        PROVE  EdgeUnread(id, b)' <=> EdgeUnread(id, b)
    <3>1. \A i \in DOMAIN events : i \in DOMAIN events' /\ events'[i] = events[i]
      BY <1>1, <2>4, GrownQueue
    <3>2. \A i \in DOMAIN events' :
            events'[i].type \in EdgeTypes => i \in DOMAIN events /\ events'[i] = events[i]
      BY <1>1, <2>4, GrownQueue DEF InputTypes
    <3> QED BY <2>1, <3>1, <3>2 DEF EdgeUnread
  <2>5. "DeviceAdded" \notin InputTypes
    BY DEF InputTypes, EdgeTypes
  <2>6. events' = events => (EdgeUnread(id, b)' <=> EdgeUnread(id, b))
    BY <2>1 DEF EdgeUnread
  <2> QED BY <2>3, <2>4, <2>5, <2>6
<1> QED BY <1>2, <1>3

\* A frame's end settles the buttons that have no edge in its queue.
LEMMA FrameHeld ==
  ASSUME Whole, CoreStep, EndUpdate
  PROVE  \A s \in LiveSlots', b \in Buttons :
           /\ s \in LiveSlots /\ slots'[s].id = slots[s].id /\ slots'[s].prev = slots[s].prev
           /\ ~EdgeUnread(slots[s].id, b)' => (slots'[s].out[b] # 0 <=> slots[s].prev[b] # 0)
<1>1. CoreInv /\ Inv /\ RosterMatchesSlots /\ QueueInv /\ ~drained /\ ~drained'
  <2>1. current_backend # 0
    BY ContextAssumption DEF EndUpdate
  <2> QED BY <2>1, CoreStepIsStep DEF Whole, CoreInv, GameInv, Listening
<1>2. slots' = [s \in DOMAIN slots |-> Applied(slots[s])]
  BY DEF EndUpdate
<1>3. \A s \in DOMAIN slots :
        /\ slots'[s].live = slots[s].live /\ slots'[s].id = slots[s].id
        /\ slots'[s].prev = slots[s].prev
  BY <1>1, <1>2, AppliedSlots
<1>4. LiveSlots' = LiveSlots
  BY <1>2, <1>3 DEF LiveSlots
<1>5. PollingAgrees'
  BY <1>1, EndUpdateMatches
<1>6. Unread' = DOMAIN events'
  BY <1>1 DEF Unread
<1>7. ASSUME NEW s \in LiveSlots', NEW b \in Buttons, ~EdgeUnread(slots[s].id, b)'
      PROVE  slots'[s].out[b] # 0 <=> slots[s].prev[b] # 0
  <2>1. /\ ~\E i \in DOMAIN events' : /\ events'[i].type = "ButtonDown"
                                      /\ events'[i].id = slots'[s].id /\ events'[i].what = b
        /\ ~\E i \in DOMAIN events' : /\ events'[i].type = "ButtonUp"
                                      /\ events'[i].id = slots'[s].id /\ events'[i].what = b
    BY <1>3, <1>4, <1>6, <1>7 DEF EdgeUnread, EdgeTypes, LiveSlots
  <2>2. ~Pressed(slots[s], b)' /\ ~Released(slots[s], b)'
    BY <1>5, <2>1 DEF PollingAgrees, Queued
  <2> QED BY <1>3, <1>4, <2>2 DEF Pressed, Released, LiveSlots
<1> QED BY <1>3, <1>4, <1>7 DEF LiveSlots

LEMMA CoreHeld ==
  ASSUME Whole, CoreStep
  PROVE  HeldRight'
<1>1. heard' = heard /\ drained' = drained /\ [Next]_vars /\ CoreInv /\ Inv
  BY CoreStepIsStep DEF Whole, CoreInv
<1>2. /\ \A h \in heard.held : h[1] \in heard.known
      /\ \A s \in LiveSlots, b \in Buttons :
           <<slots[s].id, b>> \in heard.held
             <=> IF current_backend = 0 /\ ~EdgeUnread(slots[s].id, b)
                 THEN slots[s].out[b] # 0 ELSE slots[s].prev[b] # 0
      /\ \A id \in heard.known : id < next_id
  BY DEF Whole, GameInv, HeldRight, KnownRight
<1>3. next_id \in Nat
  BY <1>1, QueueType
<1>4. ASSUME NEW s \in LiveSlots', NEW b \in Buttons
      PROVE  <<slots'[s].id, b>> \in heard.held
               <=> IF current_backend' = 0 /\ ~EdgeUnread(slots[s].id, b)'
                   THEN slots'[s].out[b] # 0 ELSE slots'[s].prev[b] # 0
  <2>1. CASE EndUpdate
    <3>1. current_backend # 0 /\ current_backend' = 0
      BY <2>1, ContextAssumption DEF EndUpdate
    <3>2. /\ s \in LiveSlots /\ slots'[s].id = slots[s].id /\ slots'[s].prev = slots[s].prev
          /\ ~EdgeUnread(slots[s].id, b)' => (slots'[s].out[b] # 0 <=> slots[s].prev[b] # 0)
      BY <1>4, <2>1, FrameHeld
    <3> QED BY <1>2, <3>1, <3>2
  <2>2. CASE ~EndUpdate /\ current_backend = 0
    <3>1. current_backend' = 0
      BY <1>1, <2>2, ContextAssumption, HostCallIsPolling
         DEF CoreStep, BetweenLoops, NextBackend, Polling, GameCall, AddMappings, SetConfig
    <3>2. s \in LiveSlots /\ SameView(s)
      BY <1>4, <2>2, <3>1, ViewsStay
    <3>3. PICK id : id = slots[s].id
      OBVIOUS
    <3>4. EdgeUnread(slots[s].id, b) <=> EdgeUnread(id, b)
      BY <3>3
    <3>5. EdgeUnread(slots[s].id, b)' <=> EdgeUnread(id, b)'
      BY <3>2, <3>3 DEF SameView, EdgeUnread
    <3>6. EdgeUnread(id, b)' <=> EdgeUnread(id, b)
      BY <2>2, InputsStay
    <3> QED BY <1>2, <2>2, <3>1, <3>2, <3>4, <3>5, <3>6 DEF SameView
  <2>3. CASE ~EndUpdate /\ current_backend # 0
    <3>1. current_backend' # 0
      BY <1>1, <2>3, ContextAssumption, HostCallIsPolling
         DEF CoreStep, BetweenLoops, NextBackend, Polling, GameCall, AddMappings, SetConfig
    <3>2. CASE s \in LiveSlots /\ SameView(s)
      BY <1>2, <2>3, <3>1, <3>2 DEF SameView
    <3>3. CASE slots'[s].id = next_id /\ slots'[s].prev = AtRest
      <4>1. <<slots'[s].id, b>> \notin heard.held
        <5> SUFFICES ASSUME <<next_id, b>> \in heard.held PROVE FALSE
          BY <3>3
        <5>1. <<next_id, b>>[1] \in heard.known
          BY <1>2
        <5> QED BY <1>2, <1>3, <5>1
      <4>2. slots'[s].prev[b] = 0
        BY <3>3, ButtonsAreOutputs DEF AtRest
      <4> QED BY <3>1, <4>1, <4>2
    <3> QED BY <1>4, <2>3, <3>2, <3>3, ViewsStay
  <2> QED BY <2>1, <2>2, <2>3
<1> QED BY <1>1, <1>2, <1>4 DEF HeldRight

\* What polling says of an edge the loop comes to, and what the game holds.
LEMMA EdgeIsNews ==
  ASSUME Whole, HearNext, NextEvent.type \in InputTypes
  PROVE  /\ NextEvent.id \in heard.known
         /\ NextEvent.type \in EdgeTypes =>
              \E s \in LiveSlots :
                /\ NextEvent.id = slots[s].id /\ NextEvent.what \in Buttons
                /\ <<NextEvent.id, NextEvent.what>> \in heard.held
                     <=> slots[s].prev[NextEvent.what] # 0
                /\ NextEvent.type = "ButtonDown" => Pressed(slots[s], NextEvent.what)
                /\ NextEvent.type = "ButtonUp" => Released(slots[s], NextEvent.what)
<1> DEFINE e == NextEvent
<1>1. PICK k \in DOMAIN events : /\ e = events[k] /\ Unread = Unread' \cup {k}
                                 /\ \A i \in Unread' : k < i
  BY NextIsFirst
<1>2. current_backend = 0 /\ ~first_update /\ k \in Unread /\ k \in Int
  BY <1>1, NextIsFirst, QueueType DEF Whole
<1>3. \A i \in Unread : ~(i < k)
  <2>1. Unread \subseteq DOMAIN events /\ DOMAIN events \subseteq Int
    BY UnreadType, QueueType DEF Whole
  <2> QED BY <1>1, <1>2, <2>1
<1>4. e.id \in heard.known
  BY <1>1, <1>2, <1>3 DEF Whole, GameInv, KnownRight
<1>5. ASSUME e.type \in EdgeTypes
      PROVE  \E s \in LiveSlots :
               /\ e.id = slots[s].id /\ e.what \in Buttons
               /\ <<e.id, e.what>> \in heard.held <=> slots[s].prev[e.what] # 0
               /\ e.type = "ButtonDown" => Pressed(slots[s], e.what)
               /\ e.type = "ButtonUp" => Released(slots[s], e.what)
  <2>1. e.what \in Buttons /\ e.id \in ConnectedIds
    BY <1>1, <1>5 DEF Whole, QueueOrder, InputTypes
  <2>2. PICK s \in LiveSlots : e.id = slots[s].id
    BY <2>1 DEF ConnectedIds
  <2>3. EdgeUnread(slots[s].id, e.what)
    BY <1>1, <1>2, <1>5, <2>2 DEF EdgeUnread
  <2>4. <<e.id, e.what>> \in heard.held <=> slots[s].prev[e.what] # 0
    BY <2>1, <2>2, <2>3 DEF Whole, GameInv, HeldRight
  <2>5. /\ Pressed(slots[s], e.what)  <=> Queued("ButtonDown", slots[s].id, e.what)
        /\ Released(slots[s], e.what) <=> Queued("ButtonUp", slots[s].id, e.what)
    BY <1>2, <2>1, <2>2 DEF Whole, CoreInv, QueueInv, EventsMatchPolling
  <2>6. /\ e.type = "ButtonDown" => Queued("ButtonDown", slots[s].id, e.what)
        /\ e.type = "ButtonUp" => Queued("ButtonUp", slots[s].id, e.what)
    BY <1>1, <2>2 DEF Queued
  <2> QED BY <2>1, <2>2, <2>4, <2>5, <2>6
<1> QED BY <1>4, <1>5

LEMMA HearHeld ==
  ASSUME Whole, HearNext
  PROVE  HeldRight'
<1> DEFINE e == NextEvent
<1>1. PICK k \in DOMAIN events : /\ e = events[k] /\ Unread = Unread' \cup {k}
                                 /\ \A i \in Unread' : k < i
  BY NextIsFirst
<1>2. /\ UNCHANGED vars /\ events' = events /\ slots' = slots /\ LiveSlots' = LiveSlots
      /\ current_backend' = 0 /\ current_backend = 0
  BY NextIsFirst DEF vars, LiveSlots
<1>3. Unread' \subseteq DOMAIN events /\ \A i \in Unread' : i # k
  <2>1. Unread \subseteq DOMAIN events /\ DOMAIN events \subseteq Int
    BY UnreadType, QueueType DEF Whole
  <2> QED BY <1>1, <2>1
<1>4. /\ \A h \in heard.held : h[1] \in heard.known
      /\ \A s \in LiveSlots, b \in Buttons :
           <<slots[s].id, b>> \in heard.held
             <=> IF ~EdgeUnread(slots[s].id, b)
                 THEN slots[s].out[b] # 0 ELSE slots[s].prev[b] # 0
  BY <1>2 DEF Whole, GameInv, HeldRight
<1>5. \A id, b :
        \/ e.type \in EdgeTypes /\ e.id = id /\ e.what = b
        \/ EdgeUnread(id, b) <=> \E i \in Unread' : /\ events[i].type \in EdgeTypes
                                                    /\ events[i].id = id /\ events[i].what = b
  BY <1>1 DEF EdgeUnread
<1>6. e.type \in EdgeTypes =>
        ~\E i \in Unread' : /\ events[i].type \in EdgeTypes
                            /\ events[i].id = e.id /\ events[i].what = e.what
  BY <1>1, <1>3 DEF Whole, QueueOrder, InputTypes
<1>7. \A h \in heard'.held : h[1] \in heard'.known
  <2>1. CASE e.type = "DeviceAdded"
    BY <1>4, <2>1, HearProperties
  <2>2. CASE e.type = "DeviceRemoved"
    BY <1>4, <2>2, HearProperties
  <2>3. CASE e.type \in InputTypes
    <3>1. e.id \in heard.known /\ heard'.known = heard.known
      BY <2>3, EdgeIsNews, HearProperties
    <3>2. heard'.held \subseteq heard.held \cup {<<e.id, e.what>>}
      BY <2>3, HearProperties DEF InputTypes, EdgeTypes
    <3> QED BY <1>4, <3>1, <3>2
  <2> QED BY <2>1, <2>2, <2>3, HearProperties
<1>8. ASSUME NEW s \in LiveSlots, NEW b \in Buttons
      PROVE  <<slots[s].id, b>> \in heard'.held
               <=> IF ~\E i \in Unread' : /\ events[i].type \in EdgeTypes
                                          /\ events[i].id = slots[s].id /\ events[i].what = b
                   THEN slots[s].out[b] # 0 ELSE slots[s].prev[b] # 0
  <2>1. CASE e.type \in EdgeTypes /\ e.id = slots[s].id /\ e.what = b
    <3>1. e.type \in InputTypes
      BY <2>1 DEF InputTypes
    <3>2. PICK r \in LiveSlots :
            /\ e.id = slots[r].id
            /\ e.type = "ButtonDown" => Pressed(slots[r], e.what)
            /\ e.type = "ButtonUp" => Released(slots[r], e.what)
      BY <2>1, <3>1, EdgeIsNews
    <3>3. r = s
      BY <2>1, <3>2 DEF Whole, CoreInv, RosterMatchesSlots
    <3>4. /\ e.type = "ButtonDown" => slots[s].out[b] # 0
          /\ e.type = "ButtonUp" => slots[s].out[b] = 0
      BY <2>1, <3>2, <3>3 DEF Pressed, Released
    <3>5. /\ e.type = "ButtonDown" => <<slots[s].id, b>> \in heard'.held
          /\ e.type = "ButtonUp" => <<slots[s].id, b>> \notin heard'.held
      BY <2>1, HearProperties
    <3> QED BY <1>6, <2>1, <3>1, <3>4, <3>5 DEF EdgeTypes
  <2>2. CASE e.type \in InputTypes /\ ~(e.type \in EdgeTypes /\ e.id = slots[s].id /\ e.what = b)
    <3>1. <<slots[s].id, b>> \in heard'.held <=> <<slots[s].id, b>> \in heard.held
      BY <2>2, HearProperties DEF InputTypes, EdgeTypes
    <3> QED BY <1>4, <1>5, <2>2, <3>1
  <2>3. CASE e.type = "DeviceAdded"
    <3>1. e.type \notin EdgeTypes
      BY <2>3 DEF EdgeTypes
    <3> QED BY <1>4, <1>5, <2>3, <3>1, HearProperties
  <2>4. CASE e.type = "DeviceRemoved"
    <3>1. e.type \notin EdgeTypes
      BY <2>4 DEF InputTypes, EdgeTypes
    <3>2. e.id # slots[s].id
      BY <1>1, <2>4 DEF Whole, QueueOrder, ConnectedIds
    <3>3. <<slots[s].id, b>> \in heard'.held <=> <<slots[s].id, b>> \in heard.held
      BY <2>4, <3>2, HearProperties
    <3> QED BY <1>4, <1>5, <3>1, <3>3
  <2> QED BY <2>1, <2>2, <2>3, <2>4, HearProperties DEF InputTypes
<1> QED BY <1>2, <1>7, <1>8 DEF HeldRight, EdgeUnread
-----------------------------------------------------------------------------
(* the steps of the game's loop, and the theorems *)

LEMMA CoreListening ==
  ASSUME Whole, CoreStep
  PROVE  Listening'
<1>1. /\ heard' = heard /\ drained' = drained /\ left' = left /\ [Next]_vars /\ ~BeginUpdate
      /\ first_update' = first_update /\ CoreInv /\ (drained => left = 0)
      /\ current_backend' # 0 => ~drained
  BY CoreStepIsStep DEF Whole
<1>2. Listening
  BY DEF Whole, GameInv
<1>3. left = 0
  BY <1>1, <1>2 DEF Listening
<1>4. Len(events') \in Nat
  BY <1>1, StepQueues, QueueType, LenProperties DEF Quiet, Grown
<1>5. left' \in 0..Len(events')
  BY <1>1, <1>3, <1>4
<1> QED BY <1>1, <1>2, <1>5 DEF Listening

LEMMA HearListening ==
  ASSUME Whole, HearNext
  PROVE  Listening'
<1> DEFINE e == NextEvent
           T == [known : SUBSET Nat, held : SUBSET (Nat \X Buttons),
                 gone : SUBSET Nat, usable : SUBSET Nat]
<1>1. PICK k \in DOMAIN events : e = events[k]
  BY NextIsFirst
<1>2. /\ e \in Events /\ e.id \in Nat /\ e.type \in EventTypes
      /\ e.type \in EdgeTypes => e.what \in Buttons
  BY <1>1, QueueType DEF Whole, QueueOrder, Events
<1>3. heard \in T /\ left \in 0..Len(events) /\ Len(events) \in Nat /\ ~first_update
  BY NextIsFirst, QueueType DEF Whole, GameInv, Listening
<1>4. UNCHANGED vars /\ drained' /\ drained' \in BOOLEAN /\ current_backend = 0
      /\ left' = left - 1 /\ left > 0 /\ heard' = Hear(heard, e)
  BY NextIsFirst, UnreadType DEF HearNext
<1> HIDE DEF e
<1>5. heard' \in T
  <2>1. CASE e.type = "DeviceAdded"
    BY <1>2, <1>3, <1>4, <2>1 DEF Hear
  <2>2. CASE e.type = "DeviceRemoved"
    BY <1>2, <1>3, <1>4, <2>2 DEF Hear
  <2>3. CASE e.type = "ButtonDown"
    BY <1>2, <1>3, <1>4, <2>3 DEF Hear, EdgeTypes
  <2>4. CASE e.type = "ButtonUp"
    BY <1>2, <1>3, <1>4, <2>4 DEF Hear
  <2>5. CASE e.type = "AxisMotion"
    BY <1>2, <1>3, <1>4, <2>5 DEF Hear
  <2> QED BY <1>2, <2>1, <2>2, <2>3, <2>4, <2>5 DEF EventTypes
<1> QED BY <1>3, <1>4, <1>5 DEF Listening, vars

LEMMA ReadKeepsGameInv ==
  ASSUME Whole, ReadQueue
  PROVE  GameInv'
<1>1. /\ Unread' = Unread /\ heard' = heard /\ drained' /\ left' \in 0..Len(events)
      /\ UNCHANGED vars /\ current_backend = 0 /\ ~first_update
  BY ReadingKeepsUnread
<1>2. events' = events /\ next_id' = next_id /\ slots' = slots /\ current_backend' = current_backend
  BY <1>1 DEF vars
<1>3. LiveSlots' = LiveSlots /\ ConnectedIds' = ConnectedIds
  BY <1>2 DEF LiveSlots, ConnectedIds
<1>4. Listening'
  BY <1>1 DEF Whole, GameInv, Listening, vars, ReadQueue
<1>5. KnownRight'
  BY <1>1, <1>2, <1>3 DEF Whole, GameInv, KnownRight, UnreadIds
<1>6. HeldRight'
  BY <1>1, <1>2, <1>3 DEF Whole, GameInv, HeldRight, EdgeUnread
<1>7. GoneRight'
  BY <1>1, <1>2, <1>3 DEF Whole, GameInv, GoneRight
<1> QED BY <1>4, <1>5, <1>6, <1>7 DEF GameInv

LEMMA UpdateKeepsGameInv ==
  ASSUME Whole, GameUpdate
  PROVE  GameInv'
<1>1. /\ drained /\ left = 0 /\ BeginUpdate /\ drained' = FALSE /\ left' = left /\ heard' = heard
      /\ events' = <<>> /\ current_backend' = 1 /\ current_backend = 0 /\ ~first_update'
  BY DEF GameUpdate, BeginUpdate
<1>2. Unread = {} /\ Unread' = {}
  BY <1>1, UnreadType DEF Unread
<1>3. SameOccupants /\ next_id' = next_id
  BY <1>1, OthersKeepRoster DEF OtherStep, Whole, CoreInv
<1>4. LiveSlots' = LiveSlots /\ ConnectedIds' = ConnectedIds
  BY <1>3, SameOccupantsSameIds
<1>5. Listening'
  <2>1. left' \in 0..Len(events')
    BY <1>1
  <2>2. /\ heard \in [known : SUBSET Nat, held : SUBSET (Nat \X Buttons),
                      gone : SUBSET Nat, usable : SUBSET Nat]
    BY DEF Whole, GameInv, Listening
  <2> QED BY <1>1, <2>1, <2>2 DEF Listening
<1>6. KnownRight'
  BY <1>1, <1>2, <1>3, <1>4 DEF Whole, GameInv, KnownRight, UnreadIds
<1>7. HeldRight'
  <2>1. ASSUME NEW s \in LiveSlots, NEW b \in Buttons
        PROVE  slots'[s].id = slots[s].id /\ slots'[s].prev[b] = slots[s].out[b]
    <3>1. s \in DOMAIN slots /\ slots[s].live /\ slots[s] \in Devices
      BY SlotsAreDevices DEF LiveSlots, Whole, CoreInv
    <3>2. slots'[s] = Remembered(slots[s])
      BY <1>1, <3>1 DEF BeginUpdate
    <3> QED BY <3>1, <3>2, ButtonsAreOutputs DEF Remembered, Devices, Seen
  <2>2. /\ \A h \in heard.held : h[1] \in heard.known
        /\ \A s \in LiveSlots, b \in Buttons :
             <<slots[s].id, b>> \in heard.held <=> slots[s].out[b] # 0
    BY <1>1, <1>2 DEF Whole, GameInv, HeldRight, EdgeUnread
  <2> QED BY <1>1, <1>4, <2>1, <2>2 DEF HeldRight
<1>8. GoneRight'
  BY <1>1, <1>2, <1>3, <1>4 DEF Whole, GameInv, GoneRight
<1> QED BY <1>5, <1>6, <1>7, <1>8 DEF GameInv

LEMMA InitGame == GameInit => Whole
<1> SUFFICES ASSUME GameInit PROVE Whole
  OBVIOUS
<1>1. Init /\ heard = NothingHeard /\ drained = TRUE /\ left = 0
  BY DEF GameInit
<1>2. /\ slots = <<>> /\ events = <<>> /\ next_id = 1 /\ current_backend = 0
      /\ Len(events) = 0 /\ LiveSlots = {} /\ ConnectedIds = {} /\ first_update
  BY <1>1 DEF Init, LiveSlots, ConnectedIds
<1>3. Unread = {}
  BY <1>1, <1>2 DEF Unread
<1>4. QueueInv
  BY <1>2 DEF QueueInv, ButtonsAreBits, OnlyDeviceEvents, EventsMatchPolling
<1>5. Listening /\ KnownRight /\ HeldRight /\ GoneRight
  BY <1>1, <1>2, <1>3
     DEF Listening, KnownRight, HeldRight, GoneRight, NothingHeard, UnreadIds
<1> QED BY <1>1, <1>4, <1>5, InitInv, InitRoster, InitOrder DEF Whole, CoreInv, GameInv

LEMMA GameStepIsStep == [GameNext]_gameVars => [Next]_vars
BY DEF GameNext, GameUpdate, BetweenLoops, ReadQueue, HearNext, Next, gameVars, vars

LEMMA NextGame == Whole /\ [GameNext]_gameVars => Whole'
<1> SUFFICES ASSUME Whole, [GameNext]_gameVars PROVE Whole'
  OBVIOUS
<1>1. [Next]_vars
  BY GameStepIsStep
<1>2. CoreInv' /\ QueueOrder'
  BY <1>1, NextInv, NextRoster, NextQueue, NextOrder DEF Whole, CoreInv
<1>3. ASSUME GameUpdate PROVE GameInv'
  BY <1>3, UpdateKeepsGameInv
<1>4. ASSUME CoreStep PROVE GameInv'
  BY <1>4, CoreListening, CoreKnown, CoreHeld, CoreGone DEF GameInv
<1>5. ASSUME ReadQueue PROVE GameInv'
  BY <1>5, ReadKeepsGameInv
<1>6. ASSUME HearNext PROVE GameInv'
  BY <1>6, HearListening, HearKnown, HearHeld, HearGone DEF GameInv
<1>7. ASSUME UNCHANGED gameVars PROVE GameInv'
  <2>1. UNCHANGED <<events, slots, next_id, current_backend, first_update, heard, drained, left>>
    BY <1>7 DEF gameVars, vars
  <2>2. Unread' = Unread /\ LiveSlots' = LiveSlots /\ ConnectedIds' = ConnectedIds
    BY <2>1 DEF Unread, LiveSlots, ConnectedIds
  <2>3. Listening' /\ KnownRight' /\ HeldRight' /\ GoneRight'
    BY <2>1, <2>2
       DEF Whole, GameInv, Listening, KnownRight, HeldRight, GoneRight, UnreadIds, EdgeUnread
  <2> QED BY <2>3 DEF GameInv
<1>8. GameInv'
  BY <1>3, <1>4, <1>5, <1>6, <1>7 DEF GameNext, CoreStep
<1> QED BY <1>2, <1>8 DEF Whole

\* The invariant of the game: the core's own, the order of the queue, and what
\* the game was told together with what it has still to read.
THEOREM GameInvHolds == GameSpec => []Whole
<1> QED BY InitGame, NextGame, PTL DEF GameSpec

\* The game's steps are steps of the core: what is proved of GamepadContext
\* holds under the game.
THEOREM GameKeepsTheContext == GameSpec => Spec
<1>1. GameInit => Init
  BY DEF GameInit
<1> QED BY <1>1, GameStepIsStep, PTL DEF GameSpec, Spec

\* A game that only listens knows which devices are connected and which of
\* their buttons are down, whatever was plugged, pulled, mapped or configured
\* (events() against connected() and button()).
THEOREM EventsAlwaysTellTheState == GameSpec => []EventsTellTheState
<1>1. Whole => EventsTellTheState
  <2> SUFFICES ASSUME Whole, current_backend = 0, drained, left = 0
               PROVE  /\ heard.known = ConnectedIds
                      /\ heard.held = {h \in HeldButtons : Down(h[1], h[2])}
    BY DEF EventsTellTheState
  <2>1. Unread = {}
    BY UnreadType
  <2>2. heard.known = ConnectedIds
    BY <2>1 DEF Whole, GameInv, KnownRight, UnreadIds
  <2>3. /\ \A h \in heard.held : h[1] \in heard.known
        /\ \A s \in LiveSlots, b \in Buttons :
             <<slots[s].id, b>> \in heard.held <=> slots[s].out[b] # 0
    BY <2>1 DEF Whole, GameInv, HeldRight, EdgeUnread
  <2>4. ASSUME NEW h \in heard.held
        PROVE  h \in HeldButtons /\ Down(h[1], h[2])
    <3>1. h = <<h[1], h[2]>> /\ h[2] \in Buttons
      BY HeardType
    <3>2. PICK s \in LiveSlots : slots[s].id = h[1]
      BY <2>2, <2>3 DEF ConnectedIds
    <3>3. slots[s].out[h[2]] # 0
      BY <2>3, <3>1, <3>2
    <3> QED BY <3>1, <3>2, <3>3 DEF HeldButtons, Down
  <2>5. ASSUME NEW h \in HeldButtons, Down(h[1], h[2])
        PROVE  h \in heard.held
    <3>1. PICK s \in LiveSlots, b \in Buttons : h = <<slots[s].id, b>>
      BY DEF HeldButtons
    <3>2. PICK r \in LiveSlots : slots[r].id = slots[s].id /\ slots[r].out[b] # 0
      BY <2>5, <3>1 DEF Down
    <3> QED BY <2>3, <3>1, <3>2
  <2> QED BY <2>2, <2>4, <2>5
<1> QED BY <1>1, GameInvHolds, PTL

\* Nothing is reported of a device after its DeviceRemoved: ids are handed out
\* once, and a slot's next device is another one.
THEOREM RemovedIsAlwaysFinal == GameSpec => []RemovedIsFinal
<1>1. Whole => RemovedIsFinal
  <2>1. Whole /\ ~drained => Unread = DOMAIN events
    BY DEF Unread
  <2> QED BY <2>1 DEF RemovedIsFinal, Whole, GameInv, GoneRight, QueueOrder
<1> QED BY <1>1, GameInvHolds, PTL

\* Every edge the game hears changes what it holds, and comes from a device it
\* was told of before.
THEOREM EdgesAlwaysAlternate == GameSpec => EdgesAlternate
<1>1. ASSUME Whole, HearNext
      PROVE  /\ NextEvent.type = "ButtonDown" => <<NextEvent.id, NextEvent.what>> \notin heard.held
             /\ NextEvent.type = "ButtonUp" => <<NextEvent.id, NextEvent.what>> \in heard.held
             /\ NextEvent.type \in InputTypes => NextEvent.id \in heard.known
  <2>1. NextEvent.type \in InputTypes => NextEvent.id \in heard.known
    BY <1>1, EdgeIsNews
  <2>2. ASSUME NextEvent.type \in EdgeTypes
        PROVE  /\ NextEvent.type = "ButtonDown" => <<NextEvent.id, NextEvent.what>> \notin heard.held
               /\ NextEvent.type = "ButtonUp" => <<NextEvent.id, NextEvent.what>> \in heard.held
    <3>1. NextEvent.type \in InputTypes
      BY <2>2 DEF InputTypes
    <3> QED BY <1>1, <2>2, <3>1, EdgeIsNews DEF Pressed, Released
  <2> QED BY <2>1, <2>2 DEF EdgeTypes
<1>2. Whole => [HearNext =>
                  LET e == NextEvent
                  IN /\ e.type = "ButtonDown" => <<e.id, e.what>> \notin heard.held
                     /\ e.type = "ButtonUp" => <<e.id, e.what>> \in heard.held
                     /\ e.type \in {"ButtonDown", "ButtonUp", "AxisMotion"} => e.id \in heard.known
               ]_gameVars
  BY <1>1 DEF InputTypes, EdgeTypes
<1> QED BY <1>2, GameInvHolds, PTL DEF EdgesAlternate
=============================================================================
