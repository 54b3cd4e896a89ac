# gpplus in TLA+

A model of gpplus (`src/`), a C++ library that gives a game one view of the
gamepads of a machine: devices that come and go, buttons and axes under names
the game knows, events, rumble, and a recorder for rebinding screens. The
modules are translated from the sources, and every definition that stands for
code is tied to its lines in `PROJECT.json` under `map`.

## 1. The system and its parts

A game owns a `Context` and calls `update()` once a frame. `update()` clears
the event queue, remembers the last frame's outputs, lets every backend poll
its hardware, applies mapping lines to the raw devices and queues what changed.
Everything runs on the game's thread; what makes the program hard is not
threads of its own but *order*: hardware changes between and inside frames,
backends call back into the core while it iterates, calls of the game fall
between two frames, and several pieces of state describe the same thing.

| part (sources) | state | operations | interacts with | hard behaviour | what makes it correct |
|---|---|---|---|---|---|
| Context core (`src/context.cpp`, `src/backend.hpp`) | `slots`, `live_ids`, `events`, `next_id`, `current_backend`, `first_update`, configuration | `update`, the Host calls `add_device`, `remove_device`, `set_raw_*`, `set_button`, `set_axis`; queries; `set_config` | driven by backends through `Host`, read by the game | slot reuse inside a frame, declined devices, edges against a snapshot | roster and slots agree, ids are final, events and polling agree |
| Mapping table (`src/mapping.cpp`) | `by_guid_` | `add`, `add_many`, `lookup_exact`, `find` | the core resolves devices against it and keeps pointers into it | lines replaced under a connected device; the relaxation ladder | a device's mapping is what a lookup finds now |
| Mapping lines (`src/mapping.cpp`) | none | `parse_mapping`, `apply_mapping`, hats, CRC | raw inputs to outputs at the end of `update` | half axes, triggers at rest, masks | a recorded line drives what it was recorded for; hats show the nearest direction |
| Rumble in the Context (`src/context.cpp`) | last request of a device | `rumble`, `stop_rumble`, `rumble_triggers` | backends' `rumble` | a request swallowed because it repeats the last | the motors do what the last accepted call said |
| XInput backend (`src/backend_xinput.cpp`) | four `Pad` records | `poll`, `rumble`, `shutdown` | polled by the core, calls Host, drives the motors | pads swapped between polls, timed rumble without a hardware timer | view is fresh, motors stop |
| MappingRecorder (`src/binding.cpp`) | baseline, candidate, latch, streak, entries | `begin`, `poll`, `bind`, `clear`, `mapping_line`, `apply` | reads raw inputs of the core once a frame, adds a mapping line | inputs held at the start, two inputs in turn | one answer for one press, entries are the player's last wishes |
| Rebinding screen (`examples/rebind.cpp`) | prompt shown, where its loop is | one loop over the prompts | client of the recorder and the core | the release between two prompts | a prompt is answered by a press |
| Deadzones (`src/context.cpp`) | none | `processed_axis`, `processed_stick` | queries and edges | changing the deadzone between frames | monotone, zero inside |
| Virtual backend (`src/backend_virtual.cpp`) | process-wide registry | `add`, `remove`, `set_*`, `poll` | one registry, any number of Contexts | a Context destroyed and another made | a pad has its own device and shows what it reads |
| evdev (`src/backend_evdev.cpp`) | open nodes, uploaded effect, hat axes | `scan`, `add`, `read_events`, `rumble`, `stop`, `close_entry` | kernel: event queue, effect slots, nodes | uploads refused, effects forgotten, events dropped, a path taken over | the view is what the pad says, motors do what was accepted and stop |
| DirectInput (`src/backend_dinput.cpp`) | entries, acquired, seen | `poll`, `consider`, `read` | runs beside XInput on one core | one pad seen by two backends, acquisition lost to the desktop | a pad is listed once; only an unplug removes it |
| GameController, IOKit (`*.mm`) | entries, engines | `poll`, `rumble` | system frameworks, other queues | engines that the system stops | rumble survives an engine |
| shared(), configure() (`src/context.cpp`) | one flag, one Config | first use wins | the process | order of first use | refused configuration is reported |
| Guid, names, build detection, built-in database | none | text | – | – | constants of the models |

`PROJECT.json` lists every part with its status, and under `hazards` what a
test would hardly reach, at the line where it bites, with the properties that
watch it.

## 2. Modules

```
MappingTable ── GamepadContext ─┬─ GameLoop ── MCGameLoop
     PadRoster ──(refinement)──┘├─ VirtualPads ── MCVirtualPads
                                └─ WindowsPads ── MCWindowsPads
Rumble ─┬─ XInputPad
        └─ EvdevPad ── MCEvdevPad ── MCRumbleTime
MappingRecorder ─┬─ RebindScreen ── MCRebindScreen
                 ├─ MCRecorderClaims
MappingLine ─────┴─ RecordedLine ── MCMappingRecorder    (RecordedLine uses both)

theorems:  Extremes  (least and greatest of a finite set, enumerations)
           GamepadContextProofs ─┬─ GameLoopProofs
                                 ├─ VirtualPadsProofs
                                 └─ WindowsPadsProofs
           XInputPadProofs,  EvdevPadProofs,  RecorderProofs (recorder and line)
```

**MappingTable** is `MappingTable` of the code: a function from guids to lines.
A guid keeps the three parts the ladder of `find()` tells apart. `AddMany` is
`add()` for each line of a text, `Find` the ladder as it is written. The code
hands out pointers into the table; entries are replaced in place and never
erased, so a pointer is modelled as the key it was found under.

**GamepadContext** is `Context::Impl`. A frame is not one step: `BeginUpdate` is
`update()` up to the backend loop, each Host call of a backend is one step
(`AddDevice`, `RemoveDevice`, `SetRaw`, `SetOutput`), `NextBackend` moves on in
the loop, and `EndUpdate` applies the mappings and queues the input events.
Between frames the game may add mapping text (`AddMappings`) and change the
configuration (`SetConfig`). A device record has the fields of `Device` that
decide anything: `raw`, `out` (`buttons` and `axes`), `prev` (`prev_buttons` and
`prev_processed`), `mapping`, `mapped`. The two loops of the code that queue input
events and gained devices are one enumeration each: `EndUpdate` appends an event for
every element of `MovedInputs` in the order `Earlier`, `AddMappings` one for every
slot in `Gained`. Outputs 1..NButtons are buttons, the
others axes. A backend may do anything the `Host` interface lets it do with
slots it holds, so the model covers each of the seven backends at once; the
environment is restricted to what all of them do: raw inputs are set only on raw
devices, outputs only on mapped ones, devices are added only from `poll()`
(none of the backends adds from `init()`), and a scanning backend adds only on
a rescan.

**PadRoster** is the abstract promise of `devices()` and `connected()`: pads
arrive under fresh growing ids, are turned away, or leave for good. The core
implements it under the mapping `Roster` in GamepadContext (`RosterPromise`).

**GameLoop** puts the caller the API is made for on top: a game that reads
`events()` once after each `update()` and keeps what it was told. `ReadQueue` enters
the loop over the queue, `HearNext` is one turn of it, and `left` says how much of
the queue is still to be heard. The game makes no call that changes the queue from
inside that loop (`BetweenLoops`), which would change the vector it iterates over.
The properties compare what the game believes with what polling would have answered.

**Rumble** is what `Context::rumble()` remembers and when it swallows a request.
**XInputPad** composes it with the XInput backend, the pad, the player and the
clock. Deadlines are kept as ticks left. `promise` is history: what the last
accepted call told the game. The four user indices share nothing, so one stands
for all.

**MappingRecorder** is the recorder with the rebinding screen around it; `Frame`
is the `update()` between two polls, in which the raw inputs may read anything.
`seen`, `untouched` and `wish` are history variables used by properties: `seen` holds
the last input seen besides the one that is latched, how many polls saw it, and
whether a poll between them found it let go.

**RebindScreen** is the loop of `examples/rebind.cpp` around the recorder: prompt,
update, poll, bind, wait for release, with the player moving the pad in the updates.
(The skip that its greeting promises at line 133, by holding a button already bound,
is not in the program.)

**MappingLine** has the mapping lines as data: a field is its key and its source,
with every mark the grammar has. `ParseFields` is what `parse_mapping()` makes of
the fields, with the 16 and 8 bits its casts leave; `ButtonOut` and `AxisOut` are
`apply_mapping()`, output by output, in integers with `Full` for 1.0; the two hat
conversions of the raw backends are there too. A binding is known by the place of its
field in the line, so the bindings of an output are a set of places (`Drivers`).
**RecordedLine** puts the recorder and the lines together: `mapping_line()` of the
recorder's entries, read back and applied. Neither changes the recorder, so
`LineDrivesItsOutputs` quantifies over all readings in every state of it, and over
the kinds of output (`kind`), because the recorder does not look at what it binds.

**VirtualPads** is the virtual backend composed with the core: its `poll()` is a
walk through the registry (`cursor`), and every Host call it makes is the step of
GamepadContext of that name (`VisitLeaving` takes `RemoveDevice`, `VisitArriving`
takes `AddDevice`, `VisitPresent` takes `SetRaw` or `SetOutput`). The registry
belongs to the process: `RemakeContext` destroys the Context and makes another
over the same registry, after `remove_all()` when `RemoveAllFirst` says that tests
keep to the habit of `src/tests/test_context.cpp`. `Sweep` keeps the pads of
`Staying` in their order, which is what erasing the others from the vector does.

**EvdevPad** is the evdev backend over one node of `/dev/input`, on which pads come
one after another. `node` is the world's side of the path, `entry` the backend's
record of a descriptor, `queue` and `effects` what the kernel keeps for it, `device`
the core's record. An `update()` is one step, which opens, reads or drops, because
nothing of the game falls inside it and the entries share nothing. `promise` (what
the last request the pad took asked for, uncut, and how long ago) and `lost` (inputs
whose latest change the kernel dropped) are history.

**WindowsPads** composes XInput and DirectInput with the core: the two `poll()`s of a
frame, one Host call a step, with the player and the desktop moving between any two
of them. DirectInput's `consider()` is called back once for each pad that was
attached when the enumeration began, in any order, and a pad may be gone by then.
`lost` is the desktop's side of acquisition, `acquired` in `entries` the backend's
belief. The query for a pad's interface path may fail each time (`readable`), which
`is_xinput_device()` takes for "not XInput" (`backend_dinput.cpp:136`): an Xbox pad
then has a second device. `unread` (the pads this happened to) and `left` are history.
That a pad of a known product is refused by
`hardware_claimed()` does not happen with these backends: XInput knows no vendor or
product, so its devices count as product 0, and only a pad whose product DirectInput
could not learn meets them (`PadsAreListed` allows for it). What keeps Xbox pads
out of DirectInput is the interface path alone.

**MCRumbleTime** and **MCRecorderClaims** watch EvdevPad and MappingRecorder with
history variables of their own, for two of the findings of section 5.

Mutants (operators whose comment says so) are plausible bugs in the operator
that follows them; `PROJECT.json` names for each property one that breaks it.

## 3. What the runs check

| run | bounds | shows |
|---|---|---|
| `game_loop` | 3 ids, 1 button, 1 raw input, 2 values, 1 scanning backend, 2 texts, at most 2 queued events when a text is added | type correctness, `RosterMatchesSlots`, `MappingsAreCurrent`, `EventsMatchPolling`, `EventsTellTheState`, `RemovedIsFinal`, `UnmappedIsEmpty`, `EdgesAlternate`, refinement of PadRoster |
| `xinput_pad` | 3 packet changes, 4 rumble calls, durations 0..2, three levels, tolerance 2 | `PadIsDevice`, `QuietAfterDestroy`, `MotorStopsInTime`, `ViewIsFresh`, `TimedRumbleEnds` |
| `evdev_pad` | 2 pads, 3 input changes, 3 rumble calls, 1 refused upload, 2 effect slots, a queue of 2 events, longest effect 2 ticks, durations 0, 1 and 3 | `PlaysWhatItTook`, `EffectsAreNotLeaked`, `QuietWhenClosed`, `OnlyDroppedIsStale`, `StopIsStop`, `MotorsComeToRest`, `PluggedIsFound` |
| `windows_pads` | an Xbox pad, a stick, a stick of unknown product; 5 changes by player and desktop, 6 ids, any path query may fail | `ListedOnce`, `LockIsNoUnplug`, `PadsAreListed`, `ViewsCatchUp` |
| `recorder` | 1 button, 1 hat, 1 axis, 2 targets, 3 changing frames, stability 2 | `HeldAtBeginIsSilent`, `EntriesAreTheWishes`, `LineDrivesItsOutputs`, `AnswerWasSeenLongEnough`, `SteadyInputIsAnswered` |
| `virtual_pads` | 3 pads, 4 ids a Context, 2 Contexts, 2 raw inputs, `remove_all()` between Contexts | `PadsTypeOK`, `PadsAreDevices`, `PadsComeAndGo`, `DevicesShowTheirPads`, `RemoveIsUnplug` |
| `virtual_left_over` | as `virtual_pads`, 2 pads, without `remove_all()` | a finding, see section 5 |
| `rumble_time` | as `evdev_pad`, 1 pad, no input changes, no refused upload | a finding |
| `foreign_line`, `gained_mapping` | 1 id | findings |
| `recorder_claims` | 1 button, 1 axis, 1 target, 5 changing frames, stability 2 | a finding |
| `rebind_release` | 1 button, 1 axis, 2 prompts, 2 changing frames | a finding |

Why the bounds are enough. Three ids give a slot two occupants one after the
other *and* a neighbour, which is every way in which slot reuse can mix two
pads; a fourth adds more of the same. One button has both edges; buttons do not
influence one another in the code. A text of one line under the relaxed guid
and one of another platform cover gaining, replacing and losing a mapping.
`MaxEvents` bounds only how many lines are added between two frames. In
`xinput_pad`, three packet changes are a pad, its replacement and a movement of
either; four calls suffice for set, swallow, replace and stop. Intensities 0, 1
and 5 under a tolerance of 2 hold two that count as the same and one that does
not. In `virtual_pads`, two pads share slots in either order and a third takes the
place of one that left; four ids leave one to be spent on a pad that is turned away
and offered again; two Contexts are one that leaves something behind and one that
finds it. In `recorder`, three changing frames press two inputs one after the other
and let one go; each of the three kinds of input takes part in the priority of
`detect()`.

In `evdev_pad`, two pads are one and the other that takes its path before the
unplug is noticed. Three calls are one that plays, one that is refused and one that
plays or stops after that; two effect slots are the one in use and one to leak
into; more calls and slots are covered by the theorems. A queue of two events
overflows with the third of three changes, and holds two codes, so one of them is
lost for good. Duration 3 is longer than the longest effect of 2 ticks, and equals
LongestReplay + 1, which a cut to 16 bits would turn into 0. In `windows_pads`, each
pad differs in what the two backends know of it; a pad is plugged, found, locked
out, unplugged and plugged again within the five changes, at any two steps of the
polls. Each id is a device made; six are as many as five changes can lead to.

Deadlock is checked in the game loop and in `windows_pads`: a game can always
update. The other runs switch it off, because their bounds stop them: a destroyed
Context has nothing to do, and with no frames or prompts left only repeated steps
remain.

Fairness. `XInputPad!FairSpec` assumes that the game's loop goes on calling
`update()` while there is a Context and that time passes: without either no
library could stop a motor that has no timer of its own. `EvdevPad!FairSpec` assumes
the same, with one weak fairness for each thing an update can find to do
(`UpdateOpens`, `UpdateReads`, `UpdateDrops`), because an update does whichever is
there; `UpdateOpens` stands for the rescan that `hotplug_interval` brings round again
and again (`src/src/context.cpp:470-484`). `WindowsPads!FairSpec` assumes that a poll
that began goes on, that frames follow one another, and strong fairness of a frame
*with* a rescan, for the same reason: the interval elapses again and again. Nothing
is assumed of player, desktop or permissions; the properties say "once they leave it
alone". `MappingRecorder!FairSpec` assumes that the screen goes on polling. The game
loop has no liveness property, and no fairness.

## 4. What is proved

TLAPS proves these for every value of the constants that the modules' ASSUMEs
allow: any guids, lines, texts, numbers of backends, pads, inputs, effect slots and
values. Each safety property of a passing run is the property of one of them.

**The core (GamepadContextProofs).**

* `InvHolds`: `Inv == TableTypeOK /\ MappingsAreCurrent` is inductive. Neither half
  is alone: that a connected device's mapping is one a lookup finds is what keeps
  `table[d.mapping]` defined in `EndUpdate`, and types are needed to say what a
  lookup finds. `MappingsStayCurrent` and `UnmappedStaysEmpty` (an action property)
  follow.
* `RosterAlwaysMatchesSlots`: `RosterMatchesSlots` is inductive relative to `Inv`.
  Its four conjuncts are all needed: the order of `live_ids` keeps an appended id
  last because ids are below `next_id`, and the erased entry is the only one because
  ids in the list and in the slots are unique. `ContextKeepsRosterPromise` is the
  refinement of PadRoster, step by step.
* `QueueInvHolds`: the queue holds events of the right type, a button of a device is
  0 or 1 (`ButtonsAreBits`, without which an edge would not be a change), inside a
  frame the queue holds arrivals and departures only, and between frames the edges
  in it are the differences between `out` and `prev`. `TypesHold` (all of `TypeOK`)
  and `EventsAlwaysMatchPolling` follow.

**The listening game (GameLoopProofs).** `GameKeepsTheContext` is `GameSpec => Spec`.
What the game believes is right only when its loop is done with the queue, so the
invariant `Whole` speaks of what it was told *together with* what is unread:
`QueueOrder` (nothing follows a departure in the queue; an input comes once, from a
connected device), `KnownRight` (told of, plus unread arrivals, minus unread
departures, are the connected devices), `HeldRight` (a button the game holds is down
in the last frame, or in this one when no edge of it is unread) and `GoneRight`.
`EventsAlwaysTellTheState`, `RemovedIsAlwaysFinal` and `EdgesAlwaysAlternate` follow.

**The virtual backend (VirtualPadsProofs).** `PadsAreWellTyped` holds as it stands.
The other four, `PadsKnowTheirDevices`, `RemovalIsUnplug`, `UpdateListsThePads` and
`UpdateShowsThePads`, have the hypothesis `RemoveAllFirst`, which is a constant of
the model: the finding `virtual_left_over` of section 5 is that they fail without.
The registry is either `Settled` (an announced pad is matched with the slot it names,
no two with one) or `LeftOver` (the Context is new; what is announced is gone, and
is visited before every pad that is there), and each device is `Owned`.
`PollProgress` says what `poll()` has served up to the cursor.

**The Windows backends (WindowsPadsProofs).** `WindowsBackendsImplementContext`: each
step of the two `poll()`s is a step of the core or leaves it alone, so all that is
proved of the core holds. `Tenants` accounts for the slots: each is held by one
user index or one entry, of the right backend, and no pad by two, an Xbox pad whose
path could not be read excepted. `Departures` says
what is known of a pad that an enumeration under way has not seen yet.
`PadsAreWellTyped`, `PadsAreListedOnce` and `LockNeverUnplugs` follow.

**Motors and views (XInputPadProofs, EvdevPadProofs).**

* XInput: the types, `PadIsDevice`, and three parts that tie the motor to those who
  could stop it. `TimerCovers` is what makes `MotorStopsInTime` inductive: a request
  that is swallowed relies on the timer that an earlier, equal one set, so while the
  motor may run that timer is set and has no more left than the remembered duration,
  nor than the game was promised. `GoneIsQuiet` (an unplugged pad has no motor
  running) and `UnseenIsQuiet` (nor has one the backend does not hold) are what
  `QuietAfterDestroy` rests on. `PadIsAlwaysDevice`, `AlwaysQuietAfterDestroy` and
  `MotorAlwaysStopsInTime` follow. `ReadIsCurrent` (a view read at the pad's packet
  number is the pad's, and 0 is no packet of a plugged pad) gives
  `ViewIsAlwaysFresh`.
* evdev: types, the order in which pads were plugged in, and `MotorInv`, which ties
  together four records of one thing: the effects the kernel plays, the effect the
  entry names, the request the core remembers and what the pad was last asked for.
  `OneEffect` says that as long as no upload was refused only the named effect can be
  up; `RecordIsTrue` says that then a motor above the tolerance is the one the core
  remembers, which is what makes a swallowed `stop_rumble()` harmless. The request is
  remembered as it was asked for; what can be proved is that it plays for its time or
  for that of the longest effect, whichever is first (section 5, `rumble_time`).
  `AlwaysPlaysWhatItTook`, `EffectsNeverLeak`, `AlwaysQuietWhenClosed` and
  `StopAlwaysStops` follow. `ReportsAreTrue` says of each input that the last report
  in the queue is what the pad reads, or that there is none and the view is right
  already, the inputs excepted whose change the kernel dropped:
  `OnlyDroppedIsEverStale`.

**The recorder and its lines (RecorderProofs).**

* `InvHolds`: the candidate and its streak agree with the history of what polls have
  seen (`seen` counts what the streak counts, and an input that was let go between two
  polls that saw it has a latched one held over it), and an untouched input reads as the baseline does. `HeldIsNeverAnswered` and
  `AnswersWereSeen` follow, for any number of inputs, threshold and stability.
* `BindingInvHolds`: what is found, latched, answered and bound is an input the
  device has, the entries are the player's wishes, and none binds an output twice.
  `RecorderIsWellTyped` and `EntriesAreAlwaysTheWishes` follow.
* `LineAlwaysDrives`: in every state of the recorder, whatever is bound, the line it
  would write drives each of its outputs when parsed and applied. `LineReadBack` is
  the parsing (16-bit indices and 8-bit masks come back, the marks of the field are
  those of the binding), `RecordedInputPresses` and `RecordedInputDrives` the
  applying. As no output is bound twice, the sum over its bindings has one term
  (`SumOfOne`). `RecordedAxisDrives` is the same for one field alone, at any scale.
* `HatIsNearestDirection` and `HatsAgree` are about the hat conversions, for every
  angle and every range of positions.

**Assumed** are only the named assumptions of the modules. Those that say more than
a type: `LineAssumption`, that 1.0 is an even number of units; `RecordedAssumption`,
that indices of a device fit the 16 bits of a binding, that an axis stays within 1.0
and a hat direction is one bit, and that the names the recorder writes are names
`parse_binding()` knows; `VirtualAssumption` and `WindowsAssumption`, which fix the
backends of the build and say that input 1 and output 1 exist.

**How induction over data is avoided.** The least element that `Erase` and `FreeSlot`
choose comes from the well-foundedness of the strict-subset ordering on finite sets
of prefixes (`Extremes!LeastExists`, `GreatestExists`). Loops of the code that filter
or build a vector (`Sweep`, `Clear`, `EndUpdate`, `AddMappings`) are stated as the
order-preserving bijection from 1..n to what stays or is appended: it says the same
as the loop, and `Extremes!Enumeration` gives what the proofs need of it.

**Only model-checked** are the liveness properties (`TimedRumbleEnds`,
`MotorsComeToRest`, `PluggedIsFound`, `PadsAreListed`, `ViewsCatchUp`,
`SteadyInputIsAnswered`): liveness under fairness is out of the prover's reach. Not
proved either: the sum of *several* bindings of one output (a fold, which would be an
induction over data; no property here needs it). Refuted, and so not theorems, are
the properties of section 5.

## 5. Where the code disagrees with what it says

* `rumble_time`: `gamepad.hpp:307` promises that the motors run "until `duration_ms`
  elapses or the next call". The evdev backend cuts a request for more than 65535 ms
  to that and answers true (`src/src/backend_evdev.cpp:260-263`), and the pad is
  silent before the time is up. And a timed rumble that ran out is still the record
  of the last request (`src/src/context.cpp:765`), so asking for it again is answered
  true and does nothing.
* `foreign_line`: a line for another platform replaces this platform's line under
  the same guid (`src/src/mapping.cpp:406`), although `mapping.hpp:51` wants one
  file to hold all of them.
* `gained_mapping`: the `DeviceAdded` of a pad that gained a mapping between two
  frames is cleared by the next `update()` before an event-driven game reads it
  (`src/src/context.cpp:253`).
* `recorder_claims`: while an input that was answered is held, `poll()` returns without
  touching candidate and streak (`src/src/binding.cpp:149-151`), so another input that
  is on, off and on again is answered, although `binding.hpp:97` asks for consecutive
  polls in which it stays moved; and as only one answered input is remembered
  (`binding.cpp:161`), the one held all along is answered again after that, although
  `binding.hpp:91` reports a detection once until its input returns to rest.
* `rebind_release`: the wait for release in `src/examples/rebind.cpp:169` ends at
  once for an axis, because `active()` of a pad without a mapping looks at raw
  buttons only; letting the stick go answers the next prompt, in the wrong
  direction and as an axis that rests at an end.
* `virtual_left_over`: the registry of virtual pads remembers slots of a Context
  that is gone, so removing a left-over pad takes another pad's device
  (`src/src/backend_virtual.cpp:76`), the dangling slot that the comment at line
  113 says it avoids.

The first and the fourth of these runs each refute two claims with one behaviour: their
property says that the code keeps one claim *or* the other, so a counterexample breaks
both, and the trace shows where. What the code does keep is stated by
`PlaysWhatItTook` (the request's time or the longest effect, whichever is first) and
`AnswerWasSeenLongEnough` (that many polls, and consecutive ones unless an answered
input is held), which hold in the passing runs and are proved.

Read and not turned into runs: `find()` never drops the version a *line* carries;
an Xbox pad whose interface path cannot be read is listed twice, which
`backend_dinput.cpp:124` wants to avoid (`ListedOnce` excuses that pad); `set_config()` changes `hotplug_interval` and
`report_unmapped` at once, against `gamepad.hpp:350`; axis events compare with the
previous frame and not with the last report (`src/src/context.cpp:540`), so an axis
that moves slowly is never reported; `hardware_claimed()` never does what
`backend.hpp:72` describes for a pad of a known product (section 2, WindowsPads).

## 6. Assumptions about the world

A pad's packet number changes whenever its state does, plugging in included, and
is not 0 for a pad with something to read (the XInput documentation; the backend
relies on it). `XInputSetState` fails without effect on a pad that is gone. A pad
that is unplugged loses its motor state. The game does not call the Context from
inside `update()`, which the single thread rules out.

Of the Linux kernel: closing a descriptor erases the effects uploaded through it;
uploading over an effect that plays and starting it restarts its time; an effect of
length 0 plays without an end; a full event queue is replaced by SYN_DROPPED and the
newest event; asking for the state of the keys takes their events out of the queue,
so that opening and seeding are one step; the number of a node is used again once
its pad is unplugged. The write that starts an effect fails only when the pad is
gone.

Of Windows: `CreateDevice` fails for a pad that has left; unplugging a pad or locking the desktop loses its acquisition, and it
stays lost until `Acquire` succeeds.

## 7. Not modelled

Names, texts and wording, the splitting of lines into fields included; the battery
level and the LED (no other state depends on them); the radial deadzone's square
root; the CRC and the bytes of a guid; the scaling of axis values and the numbering
of a device's buttons and axes (pure, and no property here tells two of them
apart); DirectInput's shutdown, which releases what nobody uses any more;
`rumble_triggers()`, of which only the GameController backend does anything.

GameController and IOKit are covered as far as their calls on the core go
(GamepadContext lets a backend make any of them). Their own state follows callbacks
of macOS frameworks on other queues; when those come, and what a haptic engine does
after one, is documented outside this repository, and a model of it would be a guess
at another program. `shared()` and `configure()` are one flag and an answer. Build
detection and the built-in database are constants here.

## 8. Plan

Done: all modules of section 2, and a theorem for every safety property of every
passing run. What would add most next:

1. **Motors**, an abstract specification of one motor with a time limit, which
   XInputPad and EvdevPad both implement (under the exceptions section 5 lists), and
   the refinement proved.
2. RebindScreen as a refinement of the recorder, with the invariants of
   RecorderProofs carried over to the screen.
3. VirtualPads with two Contexts alive at once.
4. **Deadzone** in fixed point, against a reference definition.
