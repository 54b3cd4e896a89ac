---------------------------- MODULE GamepadContext ----------------------------
(***************************************************************************)
(* The core of gpplus, Context::Impl of src/src/context.cpp: the device    *)
(* table, one update() of a frame and the API calls between two frames.    *)
(*                                                                         *)
(* A frame is not atomic here.  BeginUpdate is update() up to the backend  *)
(* loop; then each backend in turn drives the core through the Host        *)
(* interface, one step per call, with the slots it holds; EndUpdate is     *)
(* everything after the loop.  Between frames current_backend is null and  *)
(* the game may add mapping lines or change the configuration.             *)
(*                                                                         *)
(* Outputs are numbered: 1..NButtons are the buttons, the next NAxes the   *)
(* axes.  Input values are integers, MotionStep standing for the 0.0005    *)
(* below which an axis is not reported.                                    *)
(***************************************************************************)
EXTENDS MappingTable, Integers, Sequences, SequencesExt

CONSTANTS DeviceGuids,      \* the guids backends report of their devices
          NButtons, NAxes,  \* mapped outputs of a device
          NRaws,            \* numbered inputs a raw device declares
          Values,           \* what an input can read, 0 is rest
          Configs,          \* the configurations a game sets
          MotionStep,       \* smallest axis change that is an event
          Texts,            \* mapping texts a game may add, one at a time
          NBackends,        \* backends whose init() succeeded, in order
          Scanning,         \* those that look for devices only on a rescan
          MaxId,            \* bound: device ids handed out
          MaxEvents         \* bound: events queued when a call adds one

Buttons == 1..NButtons
Outputs == 1..(NButtons + NAxes)
Raws    == 1..NRaws

ASSUME ContextAssumption ==
  /\ DeviceGuids \subseteq Guids
  /\ NButtons \in Nat /\ NAxes \in Nat /\ NRaws \in Nat
  /\ Values \subseteq Int /\ 0 \in Values
  /\ Configs \subseteq [report_unmapped : BOOLEAN, always_rescan : BOOLEAN,
                        deadzone : Nat]
  /\ MotionStep \in Nat
  /\ NBackends \in Nat /\ Scanning \subseteq 1..NBackends
  /\ MaxId \in Nat /\ MaxEvents \in Nat
  /\ \A text \in Texts : IsText(text)
  /\ \A line \in Lines : line.source_of \in [Outputs -> 0..NRaws]

VARIABLES
  config,           \* the part of Config that is read after construction
  table,            \* mappings
  slots,            \* the device slots; a dead slot is reused
  live_ids,         \* devices(): ids of connected devices as they arrived
  events,           \* events() of the current frame
  next_id,          \* the id the next device gets
  current_backend,  \* the backend being polled, 0 for none
  first_update,     \* update() has not run yet
  rescan            \* the hint this update() gives its backends

vars == <<config, table, slots, live_ids, events, next_id,
          current_backend, first_update, rescan>>
-----------------------------------------------------------------------------
\* What a backend says of a device it adds.
Descriptions == [guid : DeviceGuids, backend_mapped : BOOLEAN]

Devices ==
  [live : BOOLEAN, id : Nat, backend : 0..NBackends, backend_mapped : BOOLEAN,
   guid : Guids, mapped : BOOLEAN, mapping : Guids \cup {NoMapping},
   raw : [Raws -> Values], out : [Outputs -> Int], prev : [Outputs -> Int]]

EventTypes == {"DeviceAdded", "DeviceRemoved", "ButtonDown", "ButtonUp",
               "AxisMotion"}
Events == [type : EventTypes, id : Nat, what : {0} \cup Outputs, value : Int]

DeviceEvent(type, id) == [type |-> type, id |-> id, what |-> 0, value |-> 0]

AtRest == [o \in Outputs |-> 0]

Live(s) == s \in DOMAIN slots /\ slots[s].live
LiveSlots == {s \in DOMAIN slots : slots[s].live}

Magnitude(v) == IF v < 0 THEN -v ELSE v

\* Deadzone for one dimension.  The code also stretches what is left to the
\* full range, which moves no value across another.
ProcessedAxis(v, deadzone) ==
  IF Magnitude(v) <= deadzone THEN 0
  ELSE IF v < 0 THEN v + deadzone ELSE v - deadzone

\* What the API answers for an output: a button as it is, an axis processed.
Seen(o, v) == IF o \in Buttons THEN v ELSE ProcessedAxis(v, config.deadzone)

\* resolve_mapping()
Resolved(d, tbl) ==
  LET found == IF d.backend_mapped THEN NoMapping ELSE Find(tbl, d.guid)
  IN [d EXCEPT !.mapping = found,
               !.mapped  = d.backend_mapped \/ found # NoMapping]

\* apply_mapping(): every output from the input its line binds it to; a
\* button is down from half the travel of an axis on, which on the scale of
\* these integers lies between 0 and 1.  Halves, inversion and the sum of
\* several bindings are not modelled: a line binds an output to one input.
Mapped(line, raw) ==
  [o \in Outputs |->
     LET v == IF line.source_of[o] = 0 THEN 0 ELSE raw[line.source_of[o]]
     IN IF o \in Buttons THEN (IF v > 0 THEN 1 ELSE 0) ELSE v]
-----------------------------------------------------------------------------
(* update(), and the calls a backend makes from inside it *)

\* Mutant: the snapshot skips devices the backend maps itself.
RememberedRawOnly(d) ==
  IF d.backend_mapped THEN d
  ELSE [d EXCEPT !.prev = [o \in Outputs |-> Seen(o, d.out[o])]]

\* The snapshot edges are taken against: the last frame's outputs.
Remembered(d) ==
  [d EXCEPT !.prev = [o \in Outputs |-> Seen(o, d.out[o])]]

\* Clears the queue, decides on a rescan and remembers the last frame.
BeginUpdate ==
  /\ current_backend = 0
  /\ current_backend' = 1
  /\ events' = <<>>
  /\ rescan' \in IF first_update \/ config.always_rescan THEN {TRUE} ELSE BOOLEAN
  /\ first_update' = FALSE
  /\ slots' = [s \in DOMAIN slots |->
                 IF slots[s].live THEN Remembered(slots[s]) ELSE slots[s]]
  /\ UNCHANGED <<config, table, live_ids, next_id>>

\* Mutant: the backend loop runs one past its end.
PollingPastTheEnd == current_backend \in 1..(NBackends + 1)

\* A backend's poll() is running.
Polling == current_backend \in 1..NBackends

NextBackend ==
  /\ Polling
  /\ current_backend' = current_backend + 1
  /\ UNCHANGED <<config, table, slots, live_ids, events, next_id,
                 first_update, rescan>>

\* Mutant: the last slot is taken for free without looking at its device.
FreeSlotUnchecked == IF slots = <<>> THEN 1 ELSE Len(slots)

\* The slot a new device gets: the first dead one, or one past the end.
FreeSlot ==
  IF \E s \in DOMAIN slots : ~slots[s].live
  THEN CHOOSE s \in DOMAIN slots :
         ~slots[s].live /\ \A r \in 1..(s - 1) : slots[r].live
  ELSE Len(slots) + 1

\* Mutant: the slot is not reset, so the last occupant's outputs stay.
NewDeviceInheriting(desc) ==
  LET was == IF FreeSlot \in DOMAIN slots THEN slots[FreeSlot]
             ELSE [out |-> AtRest, prev |-> AtRest]
  IN Resolved([live |-> TRUE, id |-> next_id, backend |-> current_backend,
               backend_mapped |-> desc.backend_mapped, guid |-> desc.guid,
               mapped |-> FALSE, mapping |-> NoMapping,
               raw |-> [i \in Raws |-> 0], out |-> was.out, prev |-> was.prev],
              table)

\* Mutant: a device is named by its slot.
NewDeviceNamedBySlot(desc) ==
  Resolved([live |-> TRUE, id |-> FreeSlot, backend |-> current_backend,
            backend_mapped |-> desc.backend_mapped, guid |-> desc.guid,
            mapped |-> FALSE, mapping |-> NoMapping,
            raw |-> [i \in Raws |-> 0], out |-> AtRest, prev |-> AtRest],
           table)

\* The device a description becomes: nothing of the slot's last occupant.
NewDevice(desc) ==
  Resolved([live |-> TRUE, id |-> next_id, backend |-> current_backend,
            backend_mapped |-> desc.backend_mapped, guid |-> desc.guid,
            mapped |-> FALSE, mapping |-> NoMapping,
            raw |-> [i \in Raws |-> 0], out |-> AtRest, prev |-> AtRest],
           table)

\* add_device(): the id is spent and the slot overwritten even when the
\* device is declined for having no mapping.
AddDevice(desc) ==
  LET device   == NewDevice(desc)
      declined == ~device.mapped /\ ~config.report_unmapped
      stored   == [device EXCEPT !.live = ~declined]
  IN
  /\ Polling
  /\ current_backend \in Scanning => rescan
  /\ next_id <= MaxId
  /\ next_id' = next_id + 1
  /\ slots' = [s \in DOMAIN slots \cup {FreeSlot} |->
                 IF s = FreeSlot THEN stored ELSE slots[s]]
  /\ IF declined
     THEN UNCHANGED <<live_ids, events>>
     ELSE /\ live_ids' = Append(live_ids, device.id)
          /\ events' = Append(events, DeviceEvent("DeviceAdded", device.id))
  /\ UNCHANGED <<config, table, current_backend, first_update, rescan>>

\* A backend names only slots it was given: its own, or one of its own that
\* has died.  The code ignores a call on a dead slot, so does the model.
Holds(s) == Polling /\ Live(s) /\ slots[s].backend = current_backend

\* Mutant: the oldest entry is erased whichever device left.
EraseOldest(ids, id) == IF ids = <<>> THEN ids ELSE Tail(ids)

\* Every entry equal to the id, as the code's erase-remove does; ids are
\* unique in the list (RosterMatchesSlots), so there is one.
Erase(ids, id) ==
  LET at == CHOOSE i \in DOMAIN ids : ids[i] = id
  IN IF \E i \in DOMAIN ids : ids[i] = id THEN RemoveAt(ids, at) ELSE ids

\* remove_device(): the rest of the slot is left as it was.
RemoveDevice(s) ==
  /\ Holds(s)
  /\ slots' = [slots EXCEPT ![s].live = FALSE, ![s].backend = 0]
  /\ live_ids' = Erase(live_ids, slots[s].id)
  /\ events' = Append(events, DeviceEvent("DeviceRemoved", slots[s].id))
  /\ UNCHANGED <<config, table, next_id, current_backend, first_update, rescan>>

\* set_raw_button(), set_raw_axis(), set_raw_hat()
SetRaw(s, i, v) ==
  /\ Holds(s) /\ ~slots[s].backend_mapped
  /\ slots' = [slots EXCEPT ![s].raw[i] = v]
  /\ UNCHANGED <<config, table, live_ids, events, next_id, current_backend,
                 first_update, rescan>>

\* set_button(), set_axis()
SetOutput(s, o, v) ==
  /\ Holds(s) /\ slots[s].backend_mapped
  /\ o \in Buttons => v \in {0, 1}
  /\ slots' = [slots EXCEPT ![s].out[o] = v]
  /\ UNCHANGED <<config, table, live_ids, events, next_id, current_backend,
                 first_update, rescan>>

\* Mutant: a device without a mapping is skipped instead of emptied.
AppliedWhereMapped(d) ==
  IF ~d.live \/ d.backend_mapped \/ d.mapping = NoMapping THEN d
  ELSE [d EXCEPT !.out = Mapped(table[d.mapping], d.raw)]

\* The mapped view of a device once its backend has been polled.
Applied(d) ==
  IF ~d.live \/ d.backend_mapped THEN d
  ELSE [d EXCEPT !.out = IF d.mapping = NoMapping THEN AtRest
                         ELSE Mapped(table[d.mapping], d.raw)]

\* Mutant: only a press is an event.
ReportedWhenDown(d, o) == d.out[o] # d.prev[o] /\ d.out[o] # 0

\* Whether an output moved since the last frame by enough to be an event.
Reported(d, o) ==
  IF o \in Buttons THEN d.out[o] # d.prev[o]
  ELSE Magnitude(Seen(o, d.out[o]) - d.prev[o]) >= MotionStep

InputEvent(d, o) ==
  [type  |-> IF o \notin Buttons THEN "AxisMotion"
             ELSE IF d.out[o] # 0 THEN "ButtonDown" ELSE "ButtonUp",
   id    |-> d.id,
   what  |-> o,
   value |-> IF o \in Buttons THEN 0 ELSE Seen(o, d.out[o])]

\* What is to be reported: inputs of live devices, each with its slot.
MovedInputs ==
  {m \in (DOMAIN slots) \X Outputs :
     LET d == Applied(slots[m[1]]) IN d.live /\ Reported(d, m[2])}

\* The order of the two loops: slot by slot, buttons before axes.
Earlier(m, k) == m[1] < k[1] \/ (m[1] = k[1] /\ m[2] < k[2])

\* Applies the mappings and queues what changed.
EndUpdate ==
  /\ current_backend = NBackends + 1
  /\ current_backend' = 0
  /\ rescan' = FALSE
  /\ slots' = [s \in DOMAIN slots |-> Applied(slots[s])]
  /\ \E order \in Bijection(1..Cardinality(MovedInputs), MovedInputs) :
       /\ \A i, j \in DOMAIN order : i < j => Earlier(order[i], order[j])
       /\ events' = events \o [i \in DOMAIN order |->
                                InputEvent(Applied(slots[order[i][1]]), order[i][2])]
  /\ UNCHANGED <<config, table, live_ids, next_id, first_update>>
-----------------------------------------------------------------------------
(* the game's calls between two updates *)

\* Devices refresh_all_mappings() finds newly understood.
Gained(tbl) == {s \in LiveSlots : ~slots[s].mapped /\ Resolved(slots[s], tbl).mapped}

\* Mutant: devices that have a mapping are left with it.
RefreshedIfUnmapped(tbl) ==
  [s \in DOMAIN slots |->
     IF slots[s].live /\ ~slots[s].mapped THEN Resolved(slots[s], tbl) ELSE slots[s]]

\* Every live device resolved again, the mapped ones included.
Refreshed(tbl) ==
  [s \in DOMAIN slots |->
     IF slots[s].live THEN Resolved(slots[s], tbl) ELSE slots[s]]

\* add_mapping() and add_mappings_from_string(): the table changes, every
\* live device is resolved again, and those that gained a mapping arrive, in
\* the order of their slots.
AddMappings(text) ==
  LET tbl    == AddMany(table, text)
      gained == Gained(tbl)
  IN
  /\ current_backend = 0
  /\ Len(events) < MaxEvents
  /\ table' = tbl
  /\ slots' = Refreshed(tbl)
  /\ \E order \in Bijection(1..Cardinality(gained), gained) :
       /\ \A i, j \in DOMAIN order : i < j => order[i] < order[j]
       /\ events' = events \o [i \in DOMAIN order |->
                                DeviceEvent("DeviceAdded", slots[order[i]].id)]
  /\ UNCHANGED <<config, live_ids, next_id, current_backend, first_update, rescan>>

\* set_config(): what was consumed at construction is not in this record.
SetConfig(c) ==
  /\ current_backend = 0
  /\ config' = c
  /\ UNCHANGED <<table, slots, live_ids, events, next_id, current_backend,
                 first_update, rescan>>
-----------------------------------------------------------------------------
\* The constructor, after one of the texts was loaded as the databases.
Init ==
  /\ config \in Configs
  /\ \E text \in Texts \cup {{}} : table = AddMany(EmptyTable, text)
  /\ slots = <<>>
  /\ live_ids = <<>>
  /\ events = <<>>
  /\ next_id = 1
  /\ current_backend = 0
  /\ first_update = TRUE
  /\ rescan = FALSE

HostCall ==
  \/ \E desc \in Descriptions : AddDevice(desc)
  \/ \E s \in DOMAIN slots : RemoveDevice(s)
  \/ \E s \in DOMAIN slots, i \in Raws, v \in Values : SetRaw(s, i, v)
  \/ \E s \in DOMAIN slots, o \in Outputs, v \in Values : SetOutput(s, o, v)

GameCall ==
  \/ \E text \in Texts : AddMappings(text)
  \/ \E c \in Configs : SetConfig(c)

Next == BeginUpdate \/ HostCall \/ NextBackend \/ EndUpdate \/ GameCall

Spec == Init /\ [][Next]_vars
-----------------------------------------------------------------------------
TableTypeOK ==
  /\ config \in Configs
  /\ IsTable(table)
  /\ slots \in Seq(Devices)
  /\ live_ids \in Seq(Nat)
  /\ next_id \in Nat \ {0}
  /\ current_backend \in 0..(NBackends + 1)
  /\ first_update \in BOOLEAN
  /\ rescan \in BOOLEAN

\* Every variable has its type; the backend loop of update() is either not
\* running or at one of the backends.
TypeOK ==
  /\ TableTypeOK
  /\ events \in Seq(Events)

\* The ids connected() answers yes for.
ConnectedIds == {slots[s].id : s \in LiveSlots}

\* devices() lists exactly the connected devices, each once and in the order
\* they arrived; no two slots hold one id, every id was handed out by next_id
\* and a connected device can be reached through a backend.
RosterMatchesSlots ==
  /\ {live_ids[i] : i \in DOMAIN live_ids} = ConnectedIds
  /\ \A i, j \in DOMAIN live_ids : i < j => live_ids[i] < live_ids[j]
  /\ \A s, r \in LiveSlots : slots[s].id = slots[r].id => s = r
  /\ \A s \in LiveSlots : slots[s].id \in 1..(next_id - 1) /\ slots[s].backend # 0

\* Whatever the slots do, devices() and connected() together are a PadRoster:
\* ids are never used twice, not even after their device left.
Roster == INSTANCE PadRoster WITH
  roster    <- live_ids,
  connected <- ConnectedIds,
  issued    <- next_id - 1

RosterPromise == Roster!RosterSpec

\* The mapping a connected device holds is the one a lookup would find now,
\* whatever lines were added since it arrived, and info().mapped says so.
MappingsAreCurrent ==
  \A s \in LiveSlots : slots[s] = Resolved(slots[s], table)

\* pressed() and released() of a connected device.
Pressed(d, b)  == d.out[b] # 0 /\ d.prev[b] = 0
Released(d, b) == d.out[b] = 0 /\ d.prev[b] # 0

Queued(type, id, what) ==
  \E i \in DOMAIN events :
    events[i].type = type /\ events[i].id = id /\ events[i].what = what

\* Between frames the two ways to read a button agree: pressed() and
\* released() answer yes exactly for the buttons with an event in the queue.
EventsMatchPolling ==
  current_backend = 0 /\ ~first_update =>
    \A s \in LiveSlots, b \in Buttons :
      /\ Pressed(slots[s], b)  <=> Queued("ButtonDown", slots[s].id, b)
      /\ Released(slots[s], b) <=> Queued("ButtonUp", slots[s].id, b)

\* A frame leaves a device nobody has a mapping for with an empty mapped
\* view, even when it lost its mapping with a button held.
UnmappedIsEmpty ==
  [][EndUpdate => \A s \in LiveSlots : ~slots[s].mapped => slots'[s].out = AtRest]_vars

\* Adding lines of other platforms leaves every connected device with the
\* mapping it had: such lines are kept and never matched
\* (src/include/gpplus/gamepad.hpp:334, src/src/mapping.hpp:51).
OtherPlatformLinesAreInert ==
  [][\A text \in Texts :
       AddMappings(text) /\ (\A line \in text : ~line.here)
         => \A s \in LiveSlots : slots'[s].mapped = slots[s].mapped]_vars
=============================================================================
