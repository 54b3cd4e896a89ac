------------------------------- MODULE EvdevPad -------------------------------
(***************************************************************************)
(* The evdev backend of src/src/backend_evdev.cpp driven by the Context:   *)
(* one node under /dev/input, on which pads come and go one after another; *)
(* the descriptor the backend holds of one of them; the events the kernel  *)
(* queues for it and the force-feedback effects it keeps; update(), the    *)
(* game's rumble calls and the end of the Context.  Entries of different   *)
(* nodes share nothing, so one node stands for all.                        *)
(*                                                                         *)
(* The inputs of a pad are one key and the two axes of one hat.  Time is   *)
(* counted in ticks; an effect ends by itself when its ticks are used up.  *)
(* A read that a signal interrupts (EINTR) is a read in a later frame.     *)
(***************************************************************************)
EXTENDS Rumble, FiniteSets, SequencesExt

CONSTANTS HatX, HatY,     \* what the two axes of the hat can read
          LongestReplay,  \* 0xFFFF, the longest time of an effect
          EffectSlots,    \* effects a pad can hold
          QueueSize,      \* events the kernel keeps for a reader
          Held,           \* what a player may hold while a pad is plugged in
          MaxPads,        \* bound: pads plugged in
          MaxMoves,       \* bound: changes of an input
          MaxCalls,       \* bound: rumble calls of the game
          MaxFaults       \* bound: uploads a driver refuses

ASSUME EvdevAssumption ==
  /\ HatX \subseteq Int /\ 0 \in HatX
  /\ HatY \subseteq Int /\ 0 \in HatY
  /\ LongestReplay \in Nat \ {0} /\ EffectSlots \in Nat
  /\ QueueSize \in Nat \ {0, 1}
  /\ Held \subseteq [key : 0..1, x : HatX, y : HatY]
  /\ MaxPads \in Nat /\ MaxMoves \in Nat /\ MaxCalls \in Nat /\ MaxFaults \in Nat

VARIABLES
  node,     \* the path: which pad is there (0 none), who may open it, its inputs
  queue,    \* events waiting at the backend's descriptor
  effects,  \* effects uploaded through it
  entry,    \* the backend's Entry: fd open, of which pad, writable, effect, hat
  device,   \* the Context's Device: live, caps.rumble, sent, key, hat
  first,    \* no update() yet, so the next one rescans
  open,     \* the Context exists
  spent,    \* pads, moves, calls and faults used up of their bounds
  lost,     \* history: inputs whose latest change the kernel dropped
  promise   \* history: what the last request the pad took asked for, and its age

vars == <<node, queue, effects, entry, device, first, open, spent, lost, promise>>
-----------------------------------------------------------------------------
Access == {"none", "read", "write"}
Codes  == {"key", "x", "y"}
Steps  == [key |-> 0..2, x |-> HatX, y |-> HatY]  \* 2 is a key repeating itself
Ids    == 0..(EffectSlots - 1)
Forever == -1                                   \* ticks of an effect without an end

Inputs == [key : 0..2, x : HatX, y : HatY]
Event(code, value) == [code |-> code, value |-> value]
Dropped == Event("dropped", 0)

Still     == [key |-> 0, x |-> 0, y |-> 0]
Nowhere   == [pad |-> 0, access |-> "none", held |-> Still]
NoEffect  == [up |-> FALSE, level |-> 0, left |-> 0]
NoEffects == [id \in Ids |-> NoEffect]
NoEntry   == [open |-> FALSE, pad |-> 0, writable |-> FALSE, effect_id |-> -1, x |-> 0, y |-> 0]
NoDevice  == [live |-> FALSE, rumbles |-> FALSE, sent |-> NothingSent, key |-> FALSE, hat |-> {}]
Quiet     == [level |-> 0, duration |-> 0, age |-> 0]

Uploaded == {id \in Ids : effects[id].up}
Playing  == {id \in Ids : effects[id].left # 0}

\* What the player feels: effects that play together do not weaken each other.
Motor == IF Playing = {} THEN 0
         ELSE CHOOSE l \in Levels :
                /\ \E id \in Playing : effects[id].level = l
                /\ \A id \in Playing : effects[id].level <= l

\* The descriptor is one of the pad that is there now.
Connected == entry.open /\ entry.pad = node.pad
-----------------------------------------------------------------------------
(* reading: add(), seed_state(), read_events() *)

\* hat_mask() of a HatState
HatMask(x, y) ==
  (IF y < 0 THEN {"up"} ELSE {}) \cup (IF x > 0 THEN {"right"} ELSE {})
    \cup (IF y > 0 THEN {"down"} ELSE {}) \cup (IF x < 0 THEN {"left"} ELSE {})

\* Mutant: only the first report of a held key counts.
KeyDownOnPress(value) == value = 1

\* A key is down for every report but a release: held is held.
KeyDown(value) == value # 0

\* seed_state(): the kernel's own record of the inputs.
Seeded(held) == held

\* read_events() goes through the queue, oldest first: what is known of an
\* input after it is the last report of it, or what was known before.
\* SYN_DROPPED and codes that have no place on the device change nothing.
AllHeard(known) ==
  [code \in Codes |->
     LET reports == {i \in DOMAIN queue : queue[i].code = code}
     IN IF reports = {} THEN known[code] ELSE queue[Max(reports)].value]

\* Mutant: a vanished device is read as one with nothing new.
NeverGone == FALSE

\* read() answers ENODEV.
Gone == entry.open /\ entry.pad # node.pad

\* The device as the Context has it once these inputs were passed on.
Shown(d, inputs) ==
  [d EXCEPT !.key = KeyDown(inputs.key), !.hat = HatMask(inputs.x, inputs.y)]

\* poll() with a rescan whose scan() finds a path it does not hold: opened
\* for writing or else for reading, taken by the core, its inputs asked for.
UpdateOpens ==
  LET known == Seeded(node.held)
      writable == node.access = "write"
  IN
  /\ open /\ first' = FALSE
  /\ ~entry.open /\ node.pad # 0 /\ node.access # "none"
  /\ entry' = [open |-> TRUE, pad |-> node.pad, writable |-> writable,
               effect_id |-> -1, x |-> known.x, y |-> known.y]
  /\ \E rumbles \in {writable, FALSE} :  \* the pad may have no motors
       device' = Shown([NoDevice EXCEPT !.live = TRUE, !.rumbles = rumbles], known)
  /\ lost' = {}
  /\ UNCHANGED <<node, queue, effects, open, spent, promise>>

\* poll() with nothing to read: no rescan yet, nothing at the path, or what
\* is there cannot be opened, is no gamepad or is turned away by the core.
UpdateIdle ==
  /\ open /\ first' = FALSE
  /\ ~entry.open
  /\ UNCHANGED <<node, queue, effects, entry, device, open, spent, lost, promise>>

UpdateReads ==
  LET known == AllHeard([key |-> IF device.key THEN 1 ELSE 0, x |-> entry.x, y |-> entry.y])
  IN
  /\ open /\ first' = FALSE
  /\ entry.open /\ ~Gone
  /\ queue' = <<>>
  /\ entry' = [entry EXCEPT !.x = known.x, !.y = known.y]
  /\ device' = Shown(device, known)
  /\ UNCHANGED <<node, effects, open, spent, lost, promise>>

\* Mutant: the effect is stopped and the descriptor is left open.
EffectsLeftOpen == IF entry.effect_id < 0 THEN effects
                   ELSE [effects EXCEPT ![entry.effect_id].left = 0]

\* close_entry(): with the descriptor the kernel erases its effects.
EffectsClosed == NoEffects

\* poll() finds the device gone; a rescan has passed over its path, which is
\* still taken, so that another pad there is found by the next one.
UpdateDrops ==
  /\ open /\ first' = FALSE
  /\ Gone
  /\ entry' = NoEntry
  /\ effects' = EffectsClosed
  /\ queue' = <<>>
  /\ device' = [device EXCEPT !.live = FALSE]
  /\ UNCHANGED <<node, open, spent, lost, promise>>

Update == UpdateOpens \/ UpdateIdle \/ UpdateReads \/ UpdateDrops
-----------------------------------------------------------------------------
(* rumble *)

\* Mutant: the length is not cut to what 16 bits hold.
ReplayUncut(duration) == IF duration = 0 THEN LongestReplay ELSE duration

\* Mutant: the length is cut to its low 16 bits, and 0 means forever.
ReplayWrapped(duration) ==
  IF duration = 0 THEN LongestReplay ELSE duration % (LongestReplay + 1)

\* replay.length of a request
Replay(duration) ==
  IF duration = 0 \/ duration > LongestReplay THEN LongestReplay ELSE duration

\* Mutant: every request uploads an effect of its own.
SlotAlwaysNew == {id \in Ids : ~effects[id].up}

\* The id EVIOCSFF takes or hands out: the one it is given, if the device
\* still knows it, or one that is free.
Slot == IF entry.effect_id >= 0 THEN Uploaded \cap {entry.effect_id}
        ELSE {id \in Ids : ~effects[id].up}

\* Mutant: an effect that was played before is not started again.
PlayedOnce(id, level, length) ==
  [effects EXCEPT ![id] = [up |-> TRUE, level |-> level,
                           left |-> IF @.up THEN @.left ELSE length]]

\* EVIOCSFF and the EV_FF write that starts the effect.
Played(id, level, length) ==
  [effects EXCEPT ![id] = [up |-> TRUE, level |-> level,
                           left |-> IF length = 0 THEN Forever ELSE length]]

\* A call the core answers from its own record.
RumbleSwallowed(level, duration) ==
  /\ Swallowed(device.sent, level, duration)
  /\ UNCHANGED <<effects, entry, device, promise>>
  /\ spent' = [spent EXCEPT !.calls = @ + 1]

\* Mutant: stop() forgets the effect and does not silence it.
StoppedForgotten == effects

\* stop(): nothing without an effect; a write to a pad that is gone is lost.
Stopped == IF entry.effect_id < 0 THEN effects
           ELSE [effects EXCEPT ![entry.effect_id].left = 0]

\* rumble() of nothing answers true whatever became of the write.
RumbleStops(duration) ==
  /\ ~Swallowed(device.sent, 0, duration)
  /\ effects' = Stopped
  /\ device' = [device EXCEPT !.sent = Sent(0, duration)]
  /\ promise' = Quiet
  /\ spent' = [spent EXCEPT !.calls = @ + 1]
  /\ UNCHANGED entry

RumblePlays(level, duration) ==
  /\ ~Swallowed(device.sent, level, duration)
  /\ level > 0 /\ Connected
  /\ \E id \in Slot :
       /\ \A other \in Slot : id <= other
       /\ effects' = Played(id, level, Replay(duration))
       /\ entry' = [entry EXCEPT !.effect_id = id]
  /\ device' = [device EXCEPT !.sent = Sent(level, duration)]
  /\ promise' = [level |-> level, duration |-> duration, age |-> 0]
  /\ spent' = [spent EXCEPT !.calls = @ + 1]

\* The upload is refused, because the pad is gone, holds no such effect or
\* no more of them, or because the driver has failed: the effect is
\* forgotten, and what it was playing before goes on.
RumbleRefused(level, duration) ==
  LET hopeless == ~Connected \/ Slot = {}
  IN
  /\ ~Swallowed(device.sent, level, duration)
  /\ level > 0
  /\ hopeless \/ spent.faults < MaxFaults
  /\ entry' = [entry EXCEPT !.effect_id = -1]
  /\ spent' = [spent EXCEPT !.calls = @ + 1, !.faults = IF hopeless THEN @ ELSE @ + 1]
  /\ UNCHANGED <<effects, device, promise>>

\* Context::rumble() and stop_rumble() of a pad that has motors.
RumbleCall(level, duration) ==
  /\ open /\ device.live /\ device.rumbles
  /\ spent.calls < MaxCalls
  /\ \/ RumbleSwallowed(level, duration)
     \/ level = 0 /\ RumbleStops(duration)
     \/ RumblePlays(level, duration)
     \/ RumbleRefused(level, duration)
  /\ UNCHANGED <<node, queue, first, open, lost>>

\* ~Impl(): a last rumble(0, 0), then shutdown().
Destroy ==
  /\ open
  /\ open' = FALSE
  /\ entry' = NoEntry
  /\ effects' = IF entry.open THEN EffectsClosed ELSE effects
  /\ queue' = <<>>
  /\ device' = [device EXCEPT !.live = FALSE]
  /\ promise' = Quiet
  /\ UNCHANGED <<node, first, spent, lost>>
-----------------------------------------------------------------------------
(* the kernel, the player and the clock *)

Plug(access, held) ==
  /\ node.pad = 0 /\ spent.pads < MaxPads
  /\ node' = [pad |-> spent.pads + 1, access |-> access, held |-> held]
  /\ spent' = [spent EXCEPT !.pads = @ + 1]
  /\ UNCHANGED <<queue, effects, entry, device, first, open, lost, promise>>

\* udev has set the permissions of the node.
Grant ==
  /\ node.pad # 0 /\ node.access = "none"
  /\ node' = [node EXCEPT !.access = "write"]
  /\ UNCHANGED <<queue, effects, entry, device, first, open, spent, lost, promise>>

Unplug ==
  /\ node.pad # 0
  /\ node' = Nowhere
  /\ queue' = <<>>
  /\ effects' = NoEffects
  /\ promise' = Quiet
  /\ UNCHANGED <<entry, device, first, open, spent, lost>>

\* An input changes; with its queue full, the kernel drops all that is in it
\* and leaves a note.
Move(code, value) ==
  LET full == Len(queue) >= QueueSize
  IN
  /\ node.pad # 0 /\ spent.moves < MaxMoves
  /\ value # node.held[code]
  /\ value = 2 /\ code = "key" => node.held.key = 1
  /\ node' = [node EXCEPT !.held[code] = value]
  /\ spent' = [spent EXCEPT !.moves = @ + 1]
  /\ IF ~Connected
     THEN UNCHANGED <<queue, lost>>
     ELSE /\ queue' = IF full THEN <<Dropped, Event(code, value)>>
                      ELSE Append(queue, Event(code, value))
          /\ lost' = (lost \cup {c \in Codes : full /\ \E i \in DOMAIN queue : queue[i].code = c})
                       \ {code}
  /\ UNCHANGED <<effects, entry, device, first, open, promise>>

\* A suspend, or a driver that drops its effects.
ForgetEffects ==
  /\ Uploaded # {}
  /\ effects' = NoEffects
  /\ promise' = Quiet
  /\ UNCHANGED <<node, queue, entry, device, first, open, spent, lost>>

Less(n) == IF n = 0 THEN 0 ELSE n - 1

\* Time goes by for a request until its own time and that of an effect are up.
Older(request) ==
  IF request.level > 0 /\ (request.age < request.duration \/ request.age < LongestReplay)
  THEN [request EXCEPT !.age = @ + 1]
  ELSE request

Tick ==
  /\ \/ \E id \in Ids : effects[id].left > 0
     \/ promise.level > 0 /\ promise.age < promise.duration
  /\ effects' = [id \in Ids |-> [effects[id] EXCEPT !.left = IF @ = Forever THEN @ ELSE Less(@)]]
  /\ promise' = Older(promise)
  /\ UNCHANGED <<node, queue, entry, device, first, open, spent, lost>>
-----------------------------------------------------------------------------
Init ==
  /\ node = Nowhere
  /\ queue = <<>>
  /\ effects = NoEffects
  /\ entry = NoEntry
  /\ device = NoDevice
  /\ first = TRUE /\ open = TRUE
  /\ spent = [pads |-> 0, moves |-> 0, calls |-> 0, faults |-> 0]
  /\ lost = {}
  /\ promise = Quiet

Next ==
  \/ Update \/ Destroy \/ Grant \/ Unplug \/ ForgetEffects \/ Tick
  \/ \E access \in Access, held \in Held : Plug(access, held)
  \/ \E code \in Codes : \E value \in Steps[code] : Move(code, value)
  \/ \E level \in Levels, duration \in Durations : RumbleCall(level, duration)

Spec == Init /\ [][Next]_vars

\* The game goes on calling update() while there is a Context, rescans come
\* round and a pad that stays is taken by one of them; time passes.
FairSpec ==
  /\ Spec
  /\ WF_vars(UpdateOpens) /\ WF_vars(UpdateReads) /\ WF_vars(UpdateDrops)
  /\ WF_vars(Tick)
-----------------------------------------------------------------------------
\* Every variable has its type; a descriptor that is closed has no events
\* waiting, and no effect is set to last longer than 16 bits can say.
TypeOK ==
  /\ node \in [pad : 0..MaxPads, access : Access, held : Inputs]
  /\ effects \in [Ids -> [up : BOOLEAN, level : Levels, left : {Forever} \cup 0..LongestReplay]]
  /\ entry \in [open : BOOLEAN, pad : 0..MaxPads, writable : BOOLEAN,
               effect_id : {-1} \cup Ids, x : HatX, y : HatY]
  /\ device \in [live : BOOLEAN, rumbles : BOOLEAN, sent : Records, key : BOOLEAN,
                hat : SUBSET {"up", "right", "down", "left"}]
  /\ Len(queue) <= QueueSize
  /\ ~entry.open => queue = <<>>
  /\ lost \subseteq Codes
  /\ promise \in [level : Levels, duration : Durations, age : Nat]
  /\ first \in BOOLEAN /\ open \in BOOLEAN
  /\ spent.pads <= MaxPads /\ spent.moves <= MaxMoves
  /\ spent.calls <= MaxCalls /\ spent.faults <= MaxFaults

\* A frame that read the pad leaves the Context with what the pad says, from
\* the first one on, whatever was held when it was opened; the only inputs
\* that may be stale are those whose latest change the kernel dropped
\* (read_events() does not ask again after SYN_DROPPED).
OnlyDroppedIsStale ==
  [][UpdateOpens \/ UpdateReads =>
       /\ "key" \in lost' \/ (device'.key <=> node.held.key # 0)
       /\ "x" \in lost' \/ /\ "left" \in device'.hat <=> node.held.x < 0
                           /\ "right" \in device'.hat <=> node.held.x > 0
       /\ "y" \in lost' \/ /\ "up" \in device'.hat <=> node.held.y < 0
                           /\ "down" \in device'.hat <=> node.held.y > 0]_vars

\* The pad plays the request it took last, also when later ones were refused,
\* until the next one it takes or the request's time is up; a request that asks
\* for longer than an effect can play, or that names no time, plays for as long
\* as an effect can.  That is less than gamepad.hpp:307 promises of the first
\* kind (see MCRumbleTime).
PlaysWhatItTook ==
  LET asked  == promise.duration
      played == IF asked \in 1..LongestReplay THEN asked ELSE LongestReplay
  IN promise.level > 0 /\ promise.age < played =>
       \E id \in Playing : /\ effects[id].level = promise.level
                           /\ effects[id].left = played - promise.age

\* Effects of a pad are few, "and leaking one per rumble exhausts the device"
\* (src/src/backend_evdev.cpp:66): besides the one the entry names, there is
\* at most one for each upload the driver has refused.
EffectsAreNotLeaked == Cardinality(Uploaded \ {entry.effect_id}) <= spent.faults

\* As long as no upload was refused, stop_rumble() stops the motors, also when
\* the core answers it from its record; motors it leaves on are weaker than
\* the tolerance of that record.
StopIsStop ==
  [][\A duration \in Durations :
       RumbleCall(0, duration) /\ spent.faults = 0 => Motor' < Tolerance]_vars

\* Once a pad is dropped or the Context destroyed it has no effects and nothing
\* plays, not even what the backend had forgotten.
QuietWhenClosed == ~entry.open => Uploaded = {} /\ Motor = 0

\* Once the game makes no more calls the motors come to rest, whatever was
\* refused, forgotten or asked for without a duration.
MotorsComeToRest == (spent.calls = MaxCalls) ~> (Motor = 0)

\* A pad that stays at a node the backend may open is found, also when it
\* took the path of another one before that was noticed.
PluggedIsFound ==
  <>[](open /\ node.pad # 0 /\ node.access # "none") => []<>Connected
=============================================================================
