---------------------------- MODULE EvdevPadProofs ----------------------------
(***************************************************************************)
(* What holds of a pad of the evdev backend for any intensities, times,    *)
(* number of effects, length of the kernel's queue and number of faults.   *)
(*                                                                         *)
(* The properties of the motors are proved together.  What they need       *)
(* besides each other: a descriptor of a pad that is gone has neither      *)
(* effects nor a promise (GoneIsQuiet); what plays is uploaded; and as     *)
(* long as the driver refused nothing, there is no effect but the one the  *)
(* entry names (OneEffect) and the core's record says what it plays        *)
(* (RecordIsTrue).                                                         *)
(***************************************************************************)
EXTENDS EvdevPad, Extremes, SequenceTheorems

Reports == [code : Codes \cup {"dropped"}, value : Int]

\* A report of an input is one the input can make.
ReportOK(event) == event \in Reports /\ (event.code \in Codes => event.value \in Steps[event.code])

HistoryTypes ==
  /\ queue \in Seq(Reports)
  /\ \A i \in DOMAIN queue : ReportOK(queue[i])
  /\ spent \in [pads : Nat, moves : Nat, calls : Nat, faults : Nat]

\* Pads are numbered as they are plugged in.
PadsInOrder ==
  /\ node.pad <= spent.pads
  /\ entry.open => entry.pad \in 1..spent.pads

GoneIsQuiet == ~Connected => effects = NoEffects /\ promise.level = 0

PlayingIsUploaded == \A id \in Ids : effects[id].left # 0 => effects[id].up

OneEffect == spent.faults = 0 => Uploaded \subseteq {entry.effect_id}

RecordIsTrue ==
  spent.faults = 0 =>
    \A id \in Playing : device.sent.has /\ device.sent.level = effects[id].level

MotorInv ==
  /\ GoneIsQuiet /\ PlayingIsUploaded /\ OneEffect /\ RecordIsTrue
  /\ PlaysWhatItTook /\ EffectsAreNotLeaked

Inv == TypeOK /\ HistoryTypes /\ PadsInOrder /\ MotorInv
-----------------------------------------------------------------------------
\* What the assumptions say of the constants.
LEMMA ConstantTypes ==
  /\ 0 \in Levels /\ Levels \subseteq Nat
  /\ 0 \in Durations /\ Durations \subseteq Nat
  /\ Tolerance \in Nat \ {0}
  /\ HatX \subseteq Int /\ 0 \in HatX /\ HatY \subseteq Int /\ 0 \in HatY
  /\ LongestReplay \in Nat \ {0} /\ EffectSlots \in Nat /\ QueueSize \in Nat \ {0, 1}
  /\ Held \subseteq [key : 0..1, x : HatX, y : HatY]
  /\ MaxPads \in Nat /\ MaxMoves \in Nat /\ MaxCalls \in Nat /\ MaxFaults \in Nat
BY RumbleAssumption, EvdevAssumption

Entries == [open : BOOLEAN, pad : 0..MaxPads, writable : BOOLEAN,
            effect_id : {-1} \cup Ids, x : HatX, y : HatY]
Devices == [live : BOOLEAN, rumbles : BOOLEAN, sent : Records, key : BOOLEAN,
            hat : SUBSET {"up", "right", "down", "left"}]
Promises == [level : Levels, duration : Durations, age : Nat]
EffectTable == [Ids -> [up : BOOLEAN, level : Levels, left : {Forever} \cup 0..LongestReplay]]

LEMMA NoEffectsType ==
  /\ NoEffects \in EffectTable
  /\ \A id \in Ids : NoEffects[id].left = 0 /\ ~NoEffects[id].up
BY ConstantTypes DEF NoEffects, NoEffect, EffectTable, Forever

\* Reading the queue keeps every input within what it can read.
LEMMA AllHeardType ==
  ASSUME HistoryTypes, NEW known, known["key"] \in 0..2, known["x"] \in HatX, known["y"] \in HatY
  PROVE  LET heard == AllHeard(known)
         IN heard.key \in 0..2 /\ heard.x \in HatX /\ heard.y \in HatY
<1>1. ASSUME NEW code \in Codes
      PROVE  \/ AllHeard(known)[code] = known[code]
             \/ AllHeard(known)[code] \in Steps[code]
  <2> DEFINE reports == {i \in DOMAIN queue : queue[i].code = code}
  <2>1. CASE reports = {}
    BY <2>1 DEF AllHeard
  <2>2. CASE reports # {}
    <3>1. Len(queue) \in Nat /\ DOMAIN queue = 1..Len(queue)
      BY LenProperties DEF HistoryTypes
    <3>2. PICK last \in reports : \A i \in reports : last >= i
      BY <2>2, <3>1, GreatestExists
    <3>3. Max(reports) \in reports
      BY <3>2 DEF Max
    <3>4. queue[Max(reports)].value \in Steps[code]
      BY <3>3 DEF HistoryTypes, ReportOK
    <3> QED BY <2>2, <3>4 DEF AllHeard
  <2> QED BY <2>1, <2>2
<1> QED BY <1>1, ConstantTypes DEF Codes, Steps

\* The core shows a key that is down or up and directions of a hat.
LEMMA ShownType ==
  ASSUME NEW d \in Devices, NEW inputs
  PROVE  /\ Shown(d, inputs) \in Devices
         /\ Shown(d, inputs).live = d.live /\ Shown(d, inputs).sent = d.sent
BY DEF Shown, KeyDown, HatMask, Devices

\* Where nothing is uploaded and nothing promised there is nothing to prove
\* of the motors.
LEMMA QuietMotors ==
  ASSUME effects' = NoEffects, promise'.level = 0, spent'.faults \in Nat
  PROVE  MotorInv'
<1>1. Uploaded' = {} /\ Playing' = {}
  BY NoEffectsType DEF Uploaded, Playing
<1>2. EffectsAreNotLeaked'
  <2>1. (Uploaded \ {entry.effect_id})' = {}
    BY <1>1
  <2>2. Cardinality({}) = 0
    BY FS_EmptySet
  <2> QED BY <2>1, <2>2 DEF EffectsAreNotLeaked
<1>3. PlayingIsUploaded'
  BY NoEffectsType DEF PlayingIsUploaded
<1> QED BY <1>1, <1>2, <1>3 DEF MotorInv, GoneIsQuiet, OneEffect, RecordIsTrue, PlaysWhatItTook

\* A step that leaves the effects alone, and what is known of them, keeps
\* what holds of the motors; so it does if it connects the descriptor.
LEMMA SameMotors ==
  ASSUME Inv, UNCHANGED <<effects, promise>>, entry'.effect_id = entry.effect_id,
         device'.sent = device.sent, spent'.faults = spent.faults,
         Connected => Connected'
  PROVE  MotorInv'
<1>1. Uploaded' = Uploaded /\ Playing' = Playing
  BY DEF Uploaded, Playing
<1> QED BY <1>1 DEF Inv, MotorInv, GoneIsQuiet, PlayingIsUploaded, OneEffect, RecordIsTrue,
                    PlaysWhatItTook, EffectsAreNotLeaked

\* A Context that was just made has no pad.
LEMMA InitInv == Init => Inv
<1> SUFFICES ASSUME Init PROVE Inv
  OBVIOUS
<1> USE ConstantTypes, NoEffectsType DEF Init
<1>1. TypeOK
  BY EmptySeq DEF TypeOK, Nowhere, Still, Access, Inputs, EffectTable, NoEntry, NoDevice,
         NothingSent, Records, Quiet
<1>2. HistoryTypes /\ PadsInOrder
  BY EmptySeq DEF HistoryTypes, PadsInOrder, Nowhere, NoEntry
<1>3. GoneIsQuiet /\ PlayingIsUploaded /\ OneEffect /\ RecordIsTrue /\ PlaysWhatItTook
  BY DEF GoneIsQuiet, PlayingIsUploaded, OneEffect, Uploaded, RecordIsTrue, Playing,
         PlaysWhatItTook, Quiet
<1>4. EffectsAreNotLeaked
  <2>1. Uploaded \ {entry.effect_id} = {} /\ spent.faults = 0
    BY DEF Uploaded
  <2>2. Cardinality({}) = 0
    BY FS_EmptySet
  <2> QED BY <2>1, <2>2 DEF EffectsAreNotLeaked
<1> QED BY <1>1, <1>2, <1>3, <1>4 DEF Inv, MotorInv

\* A pad is found and opened: its descriptor is new and has no effects.
LEMMA OpensInv ==
  ASSUME Inv, UpdateOpens
  PROVE  Inv'
<1> USE DEF Inv, UpdateOpens
<1>1. node \in [pad : 0..MaxPads, access : Access, held : Inputs] /\ node.held \in Inputs
  BY DEF TypeOK
<1>2. /\ entry' \in Entries /\ entry'.open /\ entry'.pad = node.pad
  BY <1>1 DEF Entries, Seeded, Inputs
<1>3. device' \in Devices
  <2>1. PICK rumbles \in BOOLEAN :
          device' = Shown([NoDevice EXCEPT !.live = TRUE, !.rumbles = rumbles], Seeded(node.held))
    OBVIOUS
  <2>2. [NoDevice EXCEPT !.live = TRUE, !.rumbles = rumbles] \in Devices
    BY ConstantTypes DEF NoDevice, NothingSent, Records, Devices
  <2> QED BY <2>1, <2>2, ShownType
<1>4. effects' = NoEffects /\ promise'.level = 0 /\ queue = <<>>
  BY DEF MotorInv, GoneIsQuiet, Connected, TypeOK
<1>5. TypeOK'
  BY <1>2, <1>3 DEF TypeOK, Entries, Devices
<1>6. HistoryTypes' /\ PadsInOrder'
  BY <1>1, <1>2 DEF HistoryTypes, PadsInOrder
<1>7. MotorInv'
  BY <1>4, QuietMotors DEF HistoryTypes
<1> QED BY <1>5, <1>6, <1>7

\* The queue is read; what the pad plays does not change.
LEMMA ReadsInv ==
  ASSUME Inv, UpdateReads
  PROVE  Inv'
<1> USE DEF Inv
<1> DEFINE known == AllHeard([key |-> IF device.key THEN 1 ELSE 0, x |-> entry.x, y |-> entry.y])
<1>1. /\ first' = FALSE /\ entry.open /\ queue' = <<>>
      /\ entry' = [entry EXCEPT !.x = known.x, !.y = known.y]
      /\ device' = Shown(device, known)
      /\ UNCHANGED <<node, effects, open, spent, lost, promise>>
  BY DEF UpdateReads
<1>2. entry \in Entries /\ device \in Devices
  BY DEF TypeOK, Entries, Devices
<1>3. known.x \in HatX /\ known.y \in HatY
  <2> DEFINE before == [key |-> IF device.key THEN 1 ELSE 0, x |-> entry.x, y |-> entry.y]
  <2>1. before["key"] \in 0..2 /\ before["x"] \in HatX /\ before["y"] \in HatY
    BY <1>2 DEF Entries
  <2> HIDE DEF before
  <2>2. AllHeard(before).x \in HatX /\ AllHeard(before).y \in HatY
    BY <2>1, AllHeardType
  <2> QED BY <2>2 DEF before
<1> HIDE DEF known
<1>4. /\ entry' \in Entries /\ entry'.open /\ entry'.pad = entry.pad
      /\ entry'.effect_id = entry.effect_id
  BY <1>1, <1>2, <1>3 DEF Entries
<1>5. device' \in Devices /\ device'.sent = device.sent
  BY <1>1, <1>2, ShownType
<1>6. TypeOK'
  <2>1. Len(queue') <= QueueSize
    BY <1>1, EmptySeq, ConstantTypes
  <2> QED BY <1>1, <1>4, <1>5, <2>1 DEF TypeOK, Entries, Devices
<1>7. HistoryTypes' /\ PadsInOrder'
  BY <1>1, <1>4, EmptySeq DEF HistoryTypes, PadsInOrder
<1>8. MotorInv'
  BY <1>1, <1>4, <1>5, SameMotors DEF Connected
<1> QED BY <1>6, <1>7, <1>8

\* A frame with nothing to read changes only that it was not the first.
LEMMA IdleInv ==
  ASSUME Inv, UpdateIdle
  PROVE  Inv'
<1> USE DEF Inv, UpdateIdle
<1>1. TypeOK' /\ HistoryTypes' /\ PadsInOrder'
  BY DEF TypeOK, HistoryTypes, PadsInOrder
<1>2. MotorInv'
  BY SameMotors DEF Connected
<1> QED BY <1>1, <1>2

\* A pad that is dropped: it was gone, so nothing was promised of it.
LEMMA DropsInv ==
  ASSUME Inv, UpdateDrops
  PROVE  Inv'
<1> USE DEF Inv, UpdateDrops
<1>1. entry' \in Entries /\ ~entry'.open
  BY ConstantTypes DEF NoEntry, Entries
<1>2. device' \in Devices
  BY DEF TypeOK, Devices
<1>3. effects' = NoEffects /\ promise'.level = 0
  BY DEF MotorInv, GoneIsQuiet, Gone, Connected, EffectsClosed
<1>4. TypeOK'
  <2>1. Len(queue') <= QueueSize
    BY EmptySeq, ConstantTypes
  <2>2. effects' \in EffectTable
    BY <1>3, NoEffectsType
  <2> QED BY <1>1, <1>2, <2>1, <2>2 DEF TypeOK, Entries, Devices, EffectTable
<1>5. HistoryTypes' /\ PadsInOrder'
  BY <1>1, EmptySeq DEF HistoryTypes, PadsInOrder
<1>6. MotorInv'
  BY <1>3, QuietMotors DEF HistoryTypes
<1> QED BY <1>4, <1>5, <1>6

\* The Context's end closes the descriptor, if it holds one.
LEMMA DestroyInv ==
  ASSUME Inv, Destroy
  PROVE  Inv'
<1> USE DEF Inv, Destroy
<1>1. entry' \in Entries /\ ~entry'.open
  BY ConstantTypes DEF NoEntry, Entries
<1>2. device' \in Devices
  BY DEF TypeOK, Devices
<1>3. effects' = NoEffects /\ promise' = Quiet /\ promise'.level = 0
  BY DEF MotorInv, GoneIsQuiet, Connected, EffectsClosed, Quiet
<1>4. TypeOK'
  <2>1. Len(queue') <= QueueSize
    BY EmptySeq, ConstantTypes
  <2>2. effects' \in EffectTable
    BY <1>3, NoEffectsType
  <2>3. promise' \in Promises
    BY <1>3, ConstantTypes DEF Quiet, Promises
  <2> QED BY <1>1, <1>2, <2>1, <2>2, <2>3 DEF TypeOK, Entries, Devices, EffectTable, Promises
<1>5. HistoryTypes' /\ PadsInOrder'
  BY <1>1, EmptySeq DEF HistoryTypes, PadsInOrder
<1>6. MotorInv'
  BY <1>3, QuietMotors DEF HistoryTypes
<1> QED BY <1>4, <1>5, <1>6

\* A request that the core answers itself changes nothing of the pad.
LEMMA SwallowedInv ==
  ASSUME Inv, NEW level \in Levels, NEW duration \in Durations,
         RumbleCall(level, duration), RumbleSwallowed(level, duration)
  PROVE  Inv'
<1> USE DEF Inv, RumbleCall, RumbleSwallowed
<1>1. /\ spent' \in [pads : Nat, moves : Nat, calls : Nat, faults : Nat]
      /\ spent'.pads = spent.pads /\ spent'.moves = spent.moves
      /\ spent'.calls <= MaxCalls /\ spent'.faults = spent.faults
  BY ConstantTypes DEF HistoryTypes
<1>2. TypeOK' /\ HistoryTypes' /\ PadsInOrder'
  BY <1>1 DEF TypeOK, HistoryTypes, PadsInOrder
<1>3. MotorInv'
  BY <1>1, SameMotors DEF Connected
<1> QED BY <1>2, <1>3

\* What stop() leaves: the same effects, none of them playing that did not
\* play before, and not the entry's.
LEMMA StoppedEffects ==
  ASSUME Inv
  PROVE  /\ Stopped \in EffectTable
         /\ \A id \in Ids : /\ Stopped[id].up = effects[id].up
                            /\ Stopped[id].level = effects[id].level
                            /\ Stopped[id].left # 0 =>
                                 Stopped[id].left = effects[id].left /\ id # entry.effect_id
         /\ effects = NoEffects => Stopped = NoEffects
<1>1. effects \in EffectTable /\ entry.effect_id \in {-1} \cup Ids
  BY DEF Inv, TypeOK, EffectTable
<1>2. CASE entry.effect_id < 0
  BY <1>1, <1>2, ConstantTypes DEF Stopped, Ids
<1>3. CASE ~(entry.effect_id < 0)
  <2>1. Stopped = [effects EXCEPT ![entry.effect_id].left = 0] /\ entry.effect_id \in Ids
    BY <1>1, <1>3 DEF Stopped
  <2>2. \A id \in Ids : Stopped[id] = IF id = entry.effect_id THEN [effects[id] EXCEPT !.left = 0]
                                                            ELSE effects[id]
    BY <1>1, <2>1 DEF EffectTable
  <2>3. Stopped \in EffectTable
    BY <1>1, <2>1, <2>2, ConstantTypes DEF EffectTable
  <2>4. ASSUME effects = NoEffects PROVE Stopped = NoEffects
    <3>1. \A id \in Ids : Stopped[id] = NoEffect
      BY <2>2, <2>4 DEF NoEffects, NoEffect
    <3>2. Stopped = [id \in Ids |-> Stopped[id]]
      BY <2>3 DEF EffectTable
    <3> QED BY <3>1, <3>2 DEF NoEffects
  <2> QED BY <1>1, <2>2, <2>3, <2>4 DEF EffectTable
<1> QED BY <1>2, <1>3

Counts == [pads : Nat, moves : Nat, calls : Nat, faults : Nat]

\* What a call that is taken leaves of the bounds.
LEMMA CallSpends ==
  ASSUME spent \in Counts, spent.calls < MaxCalls,
         spent' = [spent EXCEPT !.calls = @ + 1]
  PROVE  /\ spent' \in Counts
         /\ spent'.pads = spent.pads /\ spent'.moves = spent.moves
         /\ spent'.calls <= MaxCalls /\ spent'.faults = spent.faults
BY ConstantTypes DEF Counts

\* What a call that the driver failed leaves of them.
LEMMA FaultSpends ==
  ASSUME spent \in Counts, spent.calls < MaxCalls, spent.faults < MaxFaults,
         spent' = [spent EXCEPT !.calls = @ + 1, !.faults = @ + 1]
  PROVE  /\ spent' \in Counts
         /\ spent'.pads = spent.pads /\ spent'.moves = spent.moves
         /\ spent'.calls <= MaxCalls
         /\ spent'.faults = spent.faults + 1 /\ spent'.faults <= MaxFaults
<1>1. spent' = [pads |-> spent.pads, moves |-> spent.moves,
                calls |-> spent.calls + 1, faults |-> spent.faults + 1]
  BY DEF Counts
<1> QED BY <1>1, ConstantTypes DEF Counts

\* The effect the entry names is stopped, so that nothing plays that the
\* driver was not at fault for.
LEMMA StopsInv ==
  ASSUME Inv, NEW duration \in Durations, RumbleCall(0, duration), RumbleStops(duration)
  PROVE  Inv'
<1> USE DEF Inv
<1>1. /\ effects' = Stopped /\ promise' = Quiet
      /\ device' = [device EXCEPT !.sent = Sent(0, duration)]
      /\ spent.calls < MaxCalls /\ spent' = [spent EXCEPT !.calls = @ + 1]
      /\ UNCHANGED <<node, queue, entry, first, open, lost>>
  BY DEF RumbleCall, RumbleStops
<1>2. /\ spent' \in Counts
      /\ spent'.pads = spent.pads /\ spent'.moves = spent.moves
      /\ spent'.calls <= MaxCalls /\ spent'.faults = spent.faults
  BY <1>1, CallSpends DEF HistoryTypes, Counts
<1>3. device' \in Devices
  BY <1>1, ConstantTypes DEF TypeOK, Devices, Sent, Records
<1>4. promise' \in Promises /\ promise'.level = 0
  BY <1>1, ConstantTypes DEF Quiet, Promises
<1>5. TypeOK'
  <2>1. effects' \in EffectTable
    BY <1>1, StoppedEffects
  <2> QED BY <1>1, <1>2, <1>3, <1>4, <2>1 DEF TypeOK, Devices, EffectTable, Promises
<1>6. HistoryTypes' /\ PadsInOrder'
  BY <1>1, <1>2 DEF HistoryTypes, PadsInOrder, Counts
<1>7. MotorInv'
  <2>1. Uploaded' = Uploaded
    BY <1>1, StoppedEffects DEF Uploaded
  <2>2. Playing' \subseteq Playing \ {entry.effect_id}
    BY <1>1, StoppedEffects DEF Playing
  <2>3. GoneIsQuiet'
    BY <1>1, <1>4, StoppedEffects DEF MotorInv, GoneIsQuiet, Connected
  <2>4. PlayingIsUploaded'
    BY <1>1, StoppedEffects DEF MotorInv, PlayingIsUploaded
  <2>5. OneEffect' /\ EffectsAreNotLeaked'
    BY <1>1, <1>2, <2>1 DEF MotorInv, OneEffect, EffectsAreNotLeaked
  <2>6. RecordIsTrue'
    BY <1>2, <2>2 DEF MotorInv, RecordIsTrue, OneEffect, PlayingIsUploaded, Playing, Uploaded
  <2>7. PlaysWhatItTook'
    BY <1>4 DEF PlaysWhatItTook
  <2> QED BY <2>3, <2>4, <2>5, <2>6, <2>7 DEF MotorInv
<1> QED BY <1>5, <1>6, <1>7

\* The request is uploaded in place of the entry's effect, or as the first,
\* and started: it is what plays now.
LEMMA PlaysInv ==
  ASSUME Inv, NEW level \in Levels, NEW duration \in Durations,
         RumbleCall(level, duration), RumblePlays(level, duration)
  PROVE  Inv'
<1> USE DEF Inv
<1>1. /\ Connected
      /\ device' = [device EXCEPT !.sent = Sent(level, duration)]
      /\ promise' = [level |-> level, duration |-> duration, age |-> 0]
      /\ spent.calls < MaxCalls /\ spent' = [spent EXCEPT !.calls = @ + 1]
      /\ UNCHANGED <<node, queue, first, open, lost>>
  BY DEF RumbleCall, RumblePlays
<1>2. PICK id \in Slot : /\ effects' = Played(id, level, Replay(duration))
                         /\ entry' = [entry EXCEPT !.effect_id = id]
  BY DEF RumblePlays
<1>3. Replay(duration) \in 1..LongestReplay
  BY ConstantTypes DEF Replay
<1>4. /\ id \in Ids
      /\ \/ entry.effect_id = id /\ id \in Uploaded
         \/ entry.effect_id = -1 /\ id \notin Uploaded
  <2>1. entry.effect_id \in {-1} \cup Ids
    BY DEF TypeOK
  <2>2. CASE entry.effect_id = -1
    BY <1>2, <2>2 DEF Slot, Uploaded
  <2>3. CASE entry.effect_id \in Ids
    <3>1. entry.effect_id >= 0
      BY <2>3, ConstantTypes DEF Ids
    <3> QED BY <1>2, <3>1 DEF Slot, Uploaded
  <2> QED BY <2>1, <2>2, <2>3
<1>5. /\ effects' \in EffectTable
      /\ effects'[id] = [up |-> TRUE, level |-> level, left |-> Replay(duration)]
      /\ \A other \in Ids \ {id} : effects'[other] = effects[other]
  <2>1. effects \in EffectTable
    BY DEF TypeOK, EffectTable
  <2>2. effects' = [effects EXCEPT ![id] = [up |-> TRUE, level |-> level, left |-> Replay(duration)]]
    <3>1. Replay(duration) # 0
      BY <1>3
    <3> QED BY <1>2, <3>1 DEF Played
  <2> QED BY <1>3, <1>4, <2>1, <2>2 DEF EffectTable
<1>6. /\ spent' \in Counts
      /\ spent'.pads = spent.pads /\ spent'.moves = spent.moves
      /\ spent'.calls <= MaxCalls /\ spent'.faults = spent.faults
  BY <1>1, CallSpends DEF HistoryTypes, Counts
<1>7. device' \in Devices /\ device'.sent = Sent(level, duration)
  BY <1>1 DEF TypeOK, Devices, Sent, Records
<1>8. entry' \in Entries /\ entry'.effect_id = id /\ entry'.open = entry.open /\ entry'.pad = entry.pad
  BY <1>2, <1>4 DEF TypeOK, Entries
<1>9. TypeOK'
  <2>1. promise' \in Promises
    BY <1>1 DEF Promises
  <2> QED BY <1>1, <1>5, <1>6, <1>7, <1>8, <2>1
             DEF TypeOK, Entries, Devices, EffectTable, Promises
<1>10. HistoryTypes' /\ PadsInOrder'
  BY <1>1, <1>6, <1>8 DEF HistoryTypes, PadsInOrder, Counts
<1>11. MotorInv'
  <2>1. Uploaded' = Uploaded \cup {id}
    BY <1>4, <1>5 DEF Uploaded
  <2>2. GoneIsQuiet'
    BY <1>1, <1>8 DEF GoneIsQuiet, Connected
  <2>3. PlayingIsUploaded'
    BY <1>4, <1>5 DEF MotorInv, PlayingIsUploaded
  <2>4. OneEffect'
    BY <1>4, <1>6, <1>8, <2>1, ConstantTypes DEF MotorInv, OneEffect, Ids, Uploaded
  <2>5. RecordIsTrue'
    <3>1. spent'.faults = 0 => Playing' \subseteq {id}
      BY <1>8, <2>3, <2>4 DEF PlayingIsUploaded, OneEffect, Playing, Uploaded
    <3> QED BY <1>5, <1>7, <3>1 DEF RecordIsTrue, Sent
  <2>6. PlaysWhatItTook'
    <3>1. Replay(duration) = IF duration \in 1..LongestReplay THEN duration ELSE LongestReplay
      BY ConstantTypes DEF Replay
    <3>2. promise'.level = level /\ promise'.duration = duration /\ promise'.age = 0
      BY <1>1
    <3>3. id \in Playing' /\ effects'[id].level = level /\ effects'[id].left = Replay(duration) - 0
      BY <1>3, <1>4, <1>5 DEF Playing
    <3> QED BY <3>1, <3>2, <3>3 DEF PlaysWhatItTook
  <2>7. EffectsAreNotLeaked'
    <3>1. (Uploaded \ {entry.effect_id})' = Uploaded \ {entry.effect_id}
      BY <1>4, <1>8, <2>1, ConstantTypes DEF Uploaded, Ids
    <3> QED BY <1>6, <3>1 DEF MotorInv, EffectsAreNotLeaked
  <2> QED BY <2>2, <2>3, <2>4, <2>5, <2>6, <2>7 DEF MotorInv
<1> QED BY <1>9, <1>10, <1>11

\* The entry forgets its effect: one more that no entry names if the driver
\* was at fault, and none otherwise.
LEMMA RefusedInv ==
  ASSUME Inv, NEW level \in Levels, NEW duration \in Durations,
         RumbleCall(level, duration), RumbleRefused(level, duration)
  PROVE  Inv'
<1> USE DEF Inv
<1> DEFINE hopeless == ~Connected \/ Slot = {}
<1>1. /\ entry' = [entry EXCEPT !.effect_id = -1]
      /\ spent.calls < MaxCalls
      /\ spent' = [spent EXCEPT !.calls = @ + 1, !.faults = IF hopeless THEN @ ELSE @ + 1]
      /\ hopeless \/ spent.faults < MaxFaults
      /\ UNCHANGED <<node, queue, effects, device, first, open, lost, promise>>
  BY DEF RumbleCall, RumbleRefused
<1>2. /\ spent' \in Counts
      /\ spent'.pads = spent.pads /\ spent'.moves = spent.moves
      /\ spent'.calls <= MaxCalls /\ spent'.faults <= MaxFaults
      /\ spent'.faults = IF hopeless THEN spent.faults ELSE spent.faults + 1
  <2>1. spent \in Counts /\ spent.faults <= MaxFaults
    BY DEF HistoryTypes, Counts, TypeOK
  <2> HIDE DEF hopeless
  <2>2. CASE hopeless
    <3>1. spent' = [spent EXCEPT !.calls = @ + 1]
      BY <1>1, <2>1, <2>2 DEF Counts
    <3> QED BY <1>1, <2>1, <2>2, <3>1, CallSpends
  <2>3. CASE ~hopeless
    <3>1. spent.faults < MaxFaults /\ spent' = [spent EXCEPT !.calls = @ + 1, !.faults = @ + 1]
      BY <1>1, <2>3
    <3> QED BY <1>1, <2>1, <2>3, <3>1, FaultSpends
  <2> QED BY <2>2, <2>3
<1>3. entry \in Entries /\ entry' \in Entries /\ entry'.effect_id = -1
      /\ entry'.open = entry.open /\ entry'.pad = entry.pad
  BY <1>1 DEF TypeOK, Entries
<1>4. TypeOK'
  BY <1>1, <1>2, <1>3 DEF TypeOK, Entries
<1>5. HistoryTypes' /\ PadsInOrder'
  BY <1>1, <1>2, <1>3 DEF HistoryTypes, PadsInOrder, Counts
<1>6. Uploaded' = Uploaded /\ Playing' = Playing
  BY <1>1 DEF Uploaded, Playing
<1>7. hopeless => entry.effect_id = -1 \/ entry.effect_id \notin Uploaded
  <2>1. ASSUME ~Connected PROVE entry.effect_id \notin Uploaded
    BY <2>1, NoEffectsType DEF MotorInv, GoneIsQuiet, Uploaded
  <2>2. ASSUME Slot = {}, entry.effect_id # -1 PROVE entry.effect_id \notin Uploaded
    <3>1. entry.effect_id \in Ids /\ entry.effect_id >= 0
      BY <1>3, <2>2, ConstantTypes DEF Entries, Ids
    <3> QED BY <2>2, <3>1 DEF Slot
  <2> QED BY <2>1, <2>2
<1>8. -1 \notin Uploaded
  BY ConstantTypes DEF Uploaded, Ids
<1>9. GoneIsQuiet' /\ PlayingIsUploaded' /\ PlaysWhatItTook'
  BY <1>1, <1>3, <1>6
     DEF MotorInv, GoneIsQuiet, Connected, PlayingIsUploaded, PlaysWhatItTook
<1>10. spent'.faults = 0 => hopeless /\ spent.faults = 0
  <2> HIDE DEF hopeless
  <2> QED BY <1>2 DEF HistoryTypes
<1>11. OneEffect' /\ RecordIsTrue'
  <2>1. OneEffect'
    BY <1>3, <1>6, <1>7, <1>10 DEF MotorInv, OneEffect
  <2>2. RecordIsTrue'
    BY <1>1, <1>6, <1>10 DEF MotorInv, RecordIsTrue
  <2> QED BY <2>1, <2>2
<1>12. EffectsAreNotLeaked'
  <2> DEFINE unnamed == Uploaded \ {entry.effect_id}
  <2>1. (Uploaded \ {entry.effect_id})' = Uploaded
    BY <1>3, <1>6, <1>8
  <2>2. IsFiniteSet(unnamed) /\ Cardinality(unnamed) \in Nat
    <3>1. IsFiniteSet(Ids)
      BY FS_Interval, ConstantTypes DEF Ids
    <3>2. unnamed \in SUBSET Ids
      BY DEF Uploaded
    <3>3. IsFiniteSet(unnamed)
      BY <3>1, <3>2, FS_Subset
    <3> QED BY <3>3, FS_CardinalityType
  <2>3. Cardinality(unnamed) <= spent.faults
    BY DEF MotorInv, EffectsAreNotLeaked
  <2>4. CASE hopeless
    <3>1. Uploaded = unnamed
      BY <1>7, <1>8, <2>4
    <3> HIDE DEF unnamed, hopeless
    <3> QED BY <1>2, <2>1, <2>3, <2>4, <3>1 DEF EffectsAreNotLeaked
  <2>5. CASE ~hopeless
    <3>1. Cardinality(Uploaded) <= Cardinality(unnamed) + 1
      <4>1. CASE entry.effect_id \in Uploaded
        <5>1. Uploaded = unnamed \cup {entry.effect_id} /\ entry.effect_id \notin unnamed
          BY <4>1
        <5>2. Cardinality(unnamed \cup {entry.effect_id}) = Cardinality(unnamed) + 1
          <6> HIDE DEF unnamed
          <6> QED BY <2>2, <5>1, FS_AddElement
        <5> HIDE DEF unnamed
        <5> QED BY <2>2, <5>1, <5>2
      <4>2. CASE entry.effect_id \notin Uploaded
        <5>1. Uploaded = unnamed
          BY <4>2
        <5> HIDE DEF unnamed
        <5> QED BY <2>2, <5>1
      <4> QED BY <4>1, <4>2
    <3>2. spent.faults \in Nat /\ (Uploaded \ {entry.effect_id})' = Uploaded
      BY <2>1 DEF HistoryTypes
    <3>3. Cardinality(Uploaded) \in Int
      <4>1. IsFiniteSet(Ids)
        BY FS_Interval, ConstantTypes DEF Ids
      <4>2. Uploaded \in SUBSET Ids
        BY DEF Uploaded
      <4>3. IsFiniteSet(Uploaded)
        BY <4>1, <4>2, FS_Subset
      <4> QED BY <4>3, FS_CardinalityType
    <3> HIDE DEF unnamed, hopeless
    <3>4. Cardinality(Uploaded) <= spent'.faults
      BY <1>2, <2>2, <2>3, <2>5, <3>1, <3>2, <3>3
    <3> QED BY <3>2, <3>4 DEF EffectsAreNotLeaked
  <2> QED BY <2>4, <2>5
<1> QED BY <1>4, <1>5, <1>9, <1>11, <1>12 DEF MotorInv

\* A call, in its four cases.
LEMMA CallInv ==
  ASSUME Inv, NEW level \in Levels, NEW duration \in Durations, RumbleCall(level, duration)
  PROVE  Inv'
<1>1. CASE RumbleSwallowed(level, duration)
  BY <1>1, SwallowedInv
<1>2. CASE level = 0 /\ RumbleStops(duration)
  BY <1>2, StopsInv
<1>3. CASE RumblePlays(level, duration)
  BY <1>3, PlaysInv
<1>4. CASE RumbleRefused(level, duration)
  BY <1>4, RefusedInv
<1> QED BY <1>1, <1>2, <1>3, <1>4 DEF RumbleCall

\* A pad that is plugged in has a number no descriptor has.
LEMMA PlugInv ==
  ASSUME Inv, NEW access \in Access, NEW held \in Held, Plug(access, held)
  PROVE  Inv'
<1> USE DEF Inv, Plug
<1>1. /\ spent' \in Counts /\ spent'.pads = spent.pads + 1 /\ spent.pads + 1 \in 0..MaxPads
      /\ spent'.moves = spent.moves /\ spent'.calls = spent.calls
      /\ spent'.faults = spent.faults
  <2>1. spent \in Counts /\ spent.pads < MaxPads /\ spent' = [spent EXCEPT !.pads = @ + 1]
    BY DEF HistoryTypes, Counts
  <2> QED BY <2>1, ConstantTypes DEF Counts
<1>2. node' \in [pad : 0..MaxPads, access : Access, held : Inputs] /\ node'.pad = spent'.pads
  BY <1>1, ConstantTypes DEF Inputs
<1>3. TypeOK'
  BY <1>1, <1>2 DEF TypeOK
<1>4. HistoryTypes' /\ PadsInOrder'
  <2>1. spent.pads \in Nat
    BY DEF HistoryTypes
  <2> QED BY <1>1, <1>2, <2>1 DEF HistoryTypes, PadsInOrder, Counts
<1>5. MotorInv'
  <2>1. ~Connected
    BY DEF PadsInOrder, Connected
  <2>2. effects' = NoEffects /\ promise'.level = 0
    BY <2>1 DEF MotorInv, GoneIsQuiet
  <2>3. spent'.faults \in Nat
    BY <1>1 DEF Counts
  <2> QED BY <2>2, <2>3, QuietMotors
<1> QED BY <1>3, <1>4, <1>5

\* Permissions that are set.
LEMMA GrantInv ==
  ASSUME Inv, Grant
  PROVE  Inv'
<1> USE DEF Inv, Grant
<1>1. /\ node' \in [pad : 0..MaxPads, access : Access, held : Inputs]
      /\ node'.pad = node.pad
  BY DEF TypeOK, Access
<1>2. TypeOK' /\ HistoryTypes' /\ PadsInOrder'
  BY <1>1 DEF TypeOK, HistoryTypes, PadsInOrder
<1>3. MotorInv'
  BY <1>1, SameMotors DEF Connected
<1> QED BY <1>2, <1>3

\* With the pad go its effects.
LEMMA UnplugInv ==
  ASSUME Inv, Unplug
  PROVE  Inv'
<1> USE DEF Inv, Unplug
<1>1. node' \in [pad : 0..MaxPads, access : Access, held : Inputs] /\ node'.pad = 0
  BY ConstantTypes DEF Nowhere, Still, Inputs, Access
<1>2. promise' \in Promises /\ promise'.level = 0
  BY ConstantTypes DEF Quiet, Promises
<1>3. Len(queue') <= QueueSize
  BY EmptySeq, ConstantTypes
<1>4. TypeOK'
  BY <1>1, <1>2, <1>3, NoEffectsType DEF TypeOK, EffectTable, Promises
<1>5. HistoryTypes' /\ PadsInOrder'
  BY <1>1, EmptySeq DEF HistoryTypes, PadsInOrder
<1>6. MotorInv'
  BY <1>2, QuietMotors DEF HistoryTypes
<1> QED BY <1>4, <1>5, <1>6

\* The pad forgets its effects, and what was promised with them.
LEMMA ForgetInv ==
  ASSUME Inv, ForgetEffects
  PROVE  Inv'
<1> USE DEF Inv, ForgetEffects
<1>1. promise' \in Promises /\ promise'.level = 0
  BY ConstantTypes DEF Quiet, Promises
<1>2. TypeOK' /\ HistoryTypes' /\ PadsInOrder'
  BY <1>1, NoEffectsType DEF TypeOK, EffectTable, Promises, HistoryTypes, PadsInOrder
<1>3. MotorInv'
  BY <1>1, QuietMotors DEF HistoryTypes
<1> QED BY <1>2, <1>3

\* An input that changes is reported, or everything before it is dropped.
LEMMA MoveInv ==
  ASSUME Inv, NEW code \in Codes, NEW value \in Steps[code], Move(code, value)
  PROVE  Inv'
<1> USE DEF Inv
<1>1. /\ node' = [node EXCEPT !.held[code] = value]
      /\ spent.moves < MaxMoves /\ spent' = [spent EXCEPT !.moves = @ + 1]
      /\ UNCHANGED <<effects, entry, device, first, open, promise>>
  BY DEF Move
<1>2. /\ spent' \in Counts /\ spent'.moves \in 0..MaxMoves
      /\ spent'.pads = spent.pads /\ spent'.calls = spent.calls
      /\ spent'.faults = spent.faults
  <2>1. spent \in Counts
    BY DEF HistoryTypes, Counts
  <2> QED BY <1>1, <2>1, ConstantTypes DEF Counts
<1>3. node' \in [pad : 0..MaxPads, access : Access, held : Inputs] /\ node'.pad = node.pad
  <2>1. node \in [pad : 0..MaxPads, access : Access, held : Inputs]
    BY DEF TypeOK
  <2>2. CASE code = "key"
    BY <1>1, <2>1, <2>2 DEF Inputs, Steps
  <2>3. CASE code = "x"
    BY <1>1, <2>1, <2>3 DEF Inputs, Steps
  <2>4. CASE code = "y"
    BY <1>1, <2>1, <2>4 DEF Inputs, Steps
  <2> QED BY <2>2, <2>3, <2>4 DEF Codes
<1>4. /\ queue' \in Seq(Reports) /\ Len(queue') <= QueueSize
      /\ \A i \in DOMAIN queue' : ReportOK(queue'[i])
      /\ ~entry.open => queue' = <<>>
      /\ lost' \subseteq Codes
  <2>1. Event(code, value) \in Reports /\ ReportOK(Event(code, value))
    <3>1. code \in Codes /\ code \in Codes \cup {"dropped"}
      OBVIOUS
    <3>2. Steps[code] \subseteq Int
      <4>1. Steps["key"] \subseteq Int /\ Steps["x"] \subseteq Int /\ Steps["y"] \subseteq Int
        BY ConstantTypes DEF Steps
      <4> QED BY <4>1 DEF Codes
    <3>3. Event(code, value).code = code /\ Event(code, value).value = value
      BY DEF Event
    <3>4. Event(code, value) \in Reports
      BY <3>1, <3>2 DEF Event, Reports
    <3> QED BY <3>3, <3>4 DEF ReportOK
  <2>2. Dropped \in Reports /\ ReportOK(Dropped)
    BY DEF Dropped, Event, Reports, ReportOK, Codes
  <2>3. CASE ~Connected
    BY <2>3 DEF Move, HistoryTypes, TypeOK
  <2>4. CASE Connected /\ Len(queue) >= QueueSize
    <3>1. queue' = <<Dropped, Event(code, value)>>
      BY <2>4 DEF Move
    <3>2. queue' \in Seq(Reports) /\ Len(queue') = 2
      BY <2>1, <2>2, <3>1
    <3>3. lost' \subseteq Codes
      BY <2>4 DEF Move, TypeOK
    <3>4. QueueSize >= 2
      BY ConstantTypes
    <3> QED BY <2>1, <2>2, <2>4, <3>1, <3>2, <3>3, <3>4 DEF Connected
  <2>5. CASE Connected /\ ~(Len(queue) >= QueueSize)
    <3>1. queue' = Append(queue, Event(code, value)) /\ queue \in Seq(Reports)
      BY <2>5 DEF Move, HistoryTypes
    <3>2. /\ queue' \in Seq(Reports) /\ Len(queue') = Len(queue) + 1
          /\ \A i \in 1..Len(queue) : queue'[i] = queue[i]
          /\ queue'[Len(queue) + 1] = Event(code, value)
      BY <2>1, <3>1, AppendProperties
    <3>3. Len(queue) \in Nat /\ DOMAIN queue = 1..Len(queue) /\ DOMAIN queue' = 1..(Len(queue) + 1)
      BY <3>1, <3>2, LenProperties
    <3>4. \A i \in DOMAIN queue' : ReportOK(queue'[i])
      BY <2>1, <3>2, <3>3 DEF HistoryTypes
    <3>5. lost' \subseteq Codes
      BY <2>5 DEF Move, TypeOK
    <3> QED BY <2>5, <3>2, <3>3, <3>4, <3>5, ConstantTypes DEF Connected
  <2> QED BY <2>3, <2>4, <2>5
<1>5. TypeOK'
  BY <1>1, <1>2, <1>3, <1>4 DEF TypeOK
<1>6. HistoryTypes' /\ PadsInOrder'
  BY <1>1, <1>2, <1>3, <1>4 DEF HistoryTypes, PadsInOrder, Counts
<1>7. MotorInv'
  BY <1>1, <1>2, <1>3, SameMotors DEF Connected
<1> QED BY <1>5, <1>6, <1>7

\* What is left after a tick.
LEMMA LessType ==
  ASSUME NEW n \in 0..LongestReplay
  PROVE  Less(n) \in 0..LongestReplay /\ n # Forever /\ Less(0) = 0
BY ConstantTypes DEF Less, Forever

\* What a tick makes of one effect.
LEMMA TickedEffect ==
  ASSUME effects \in EffectTable, Tick, NEW id \in Ids
  PROVE  /\ effects'[id] \in [up : BOOLEAN, level : Levels, left : {Forever} \cup 0..LongestReplay]
         /\ effects'[id].up = effects[id].up /\ effects'[id].level = effects[id].level
         /\ effects[id].left = 0 => effects'[id].left = 0
         /\ effects[id].left # Forever => effects'[id].left = Less(effects[id].left)
<1>1. /\ effects[id] \in [up : BOOLEAN, level : Levels, left : {Forever} \cup 0..LongestReplay]
      /\ effects'[id] = [effects[id] EXCEPT !.left = IF @ = Forever THEN @ ELSE Less(@)]
  BY DEF Tick, EffectTable
<1>2. CASE effects[id].left = Forever
  BY <1>1, <1>2 DEF Forever
<1>3. CASE effects[id].left # Forever
  <2>1. effects[id].left \in 0..LongestReplay
    BY <1>1, <1>3
  <2>2. Less(effects[id].left) \in 0..LongestReplay /\ Less(0) = 0
    BY <2>1, LessType
  <2>3. effects'[id] = [effects[id] EXCEPT !.left = Less(effects[id].left)]
    BY <1>1, <1>3
  <2> QED BY <1>1, <1>3, <2>2, <2>3
<1> QED BY <1>2, <1>3

\* A request is a tick older, or was over.
LEMMA OlderType ==
  ASSUME NEW p \in Promises
  PROVE  /\ Older(p) \in Promises
         /\ Older(p).level = p.level /\ Older(p).duration = p.duration
         /\ Older(p).age = p.age \/ Older(p).age = p.age + 1
         /\ p.level > 0 /\ p.age < LongestReplay => Older(p).age = p.age + 1
BY DEF Older, Promises

\* Effects run down as the promise grows old.
LEMMA TickInv ==
  ASSUME Inv, Tick
  PROVE  Inv'
<1> USE DEF Inv
<1>1. effects \in EffectTable
  BY DEF TypeOK, EffectTable
<1>2. /\ \A id \in Ids : effects'[id].up = effects[id].up
      /\ \A id \in Ids : effects'[id].level = effects[id].level
      /\ \A id \in Ids : effects[id].left = 0 => effects'[id].left = 0
      /\ \A id \in Ids : effects[id].left # Forever =>
                           effects'[id].left = Less(effects[id].left)
  BY <1>1, TickedEffect
<1>3. /\ effects' \in EffectTable
      /\ promise' \in Promises
      /\ promise \in Promises /\ promise' = Older(promise)
  <2>1. effects' = [id \in Ids |-> effects'[id]]
    BY DEF Tick
  <2>2. effects' \in EffectTable
    BY <1>1, <2>1, TickedEffect DEF EffectTable
  <2>3. promise \in Promises
    BY DEF TypeOK, Promises
  <2>4. promise' = Older(promise) /\ promise' \in Promises
    BY <2>3, OlderType DEF Tick
  <2> QED BY <2>2, <2>3, <2>4
<1>4. TypeOK' /\ HistoryTypes' /\ PadsInOrder'
  BY <1>3 DEF TypeOK, EffectTable, Promises, HistoryTypes, PadsInOrder, Tick
<1>5. Uploaded' = Uploaded /\ Playing' \subseteq Playing
  BY <1>2 DEF Uploaded, Playing
<1>6. GoneIsQuiet'
  <2>1. effects = NoEffects /\ promise.level = 0 => ~Tick
    BY NoEffectsType DEF Tick
  <2> QED BY <2>1 DEF MotorInv, GoneIsQuiet, Tick, Connected
<1>7. PlayingIsUploaded' /\ RecordIsTrue'
  <2>1. PlayingIsUploaded'
    BY <1>5 DEF MotorInv, PlayingIsUploaded, Playing, Uploaded
  <2>2. \A id \in Ids : effects'[id].level = effects[id].level
    BY <1>2
  <2>3. UNCHANGED <<device, spent>>
    BY DEF Tick
  <2>4. RecordIsTrue'
    BY <1>5, <2>2, <2>3 DEF MotorInv, RecordIsTrue, Playing
  <2> QED BY <2>1, <2>4
<1>8. OneEffect' /\ EffectsAreNotLeaked'
  BY <1>5 DEF MotorInv, OneEffect, EffectsAreNotLeaked, Tick
<1>9. PlaysWhatItTook'
  <2> DEFINE played == IF promise.duration \in 1..LongestReplay THEN promise.duration ELSE LongestReplay
  <2>1. promise.age \in Nat /\ played \in 1..LongestReplay
    BY <1>3, ConstantTypes DEF Promises
  <2>2. /\ promise'.level = promise.level /\ promise'.duration = promise.duration
        /\ promise'.age = promise.age \/ promise'.age = promise.age + 1
        /\ promise.level > 0 /\ promise.age < LongestReplay => promise'.age = promise.age + 1
    BY <1>3, OlderType
  <2> SUFFICES ASSUME promise.level > 0, promise'.age < played
               PROVE  \E id \in Playing' : /\ effects'[id].level = promise.level
                                           /\ effects'[id].left = played - promise'.age
    BY <2>2 DEF PlaysWhatItTook
  <2>3. promise.age < played
    BY <2>1, <2>2
  <2>4. PICK id \in Playing : /\ effects[id].level = promise.level
                             /\ effects[id].left = played - promise.age
    BY <2>3 DEF MotorInv, PlaysWhatItTook
  <2> HIDE DEF played
  <2>5. promise'.age = promise.age + 1
    BY <2>1, <2>2, <2>3, ConstantTypes
  <2>6. effects[id].left # Forever /\ effects[id].left # 0
    BY <2>1, <2>3, <2>4 DEF Forever
  <2>7. /\ effects'[id].level = promise.level
        /\ effects'[id].left = played - promise'.age
    <3>1. id \in Ids /\ effects'[id].left = Less(effects[id].left)
      BY <1>2, <2>6 DEF Playing
    <3>2. Less(effects[id].left) = effects[id].left - 1
      BY <2>6 DEF Less
    <3>3. effects'[id].left = played - promise.age - 1
      BY <2>4, <3>1, <3>2
    <3>4. effects'[id].left = played - promise'.age
      BY <2>1, <2>5, <3>3, ConstantTypes
    <3> QED BY <1>2, <2>4, <3>1, <3>4
  <2>8. id \in Playing'
    <3>1. played - promise'.age # 0
      BY <2>1, <2>5, ConstantTypes
    <3> QED BY <2>7, <3>1 DEF Playing
  <2> QED BY <2>7, <2>8
<1> QED BY <1>4, <1>6, <1>7, <1>8, <1>9 DEF MotorInv

\* Every step keeps the invariant.
LEMMA NextInv == Inv /\ [Next]_vars => Inv'
<1> SUFFICES ASSUME Inv, [Next]_vars PROVE Inv'
  OBVIOUS
<1>1. CASE Update
  BY <1>1, OpensInv, IdleInv, ReadsInv, DropsInv DEF Update
<1>2. CASE Destroy
  BY <1>2, DestroyInv
<1>3. CASE Grant
  BY <1>3, GrantInv
<1>4. CASE Unplug
  BY <1>4, UnplugInv
<1>5. CASE ForgetEffects
  BY <1>5, ForgetInv
<1>6. CASE Tick
  BY <1>6, TickInv
<1>7. ASSUME NEW access \in Access, NEW held \in Held, Plug(access, held) PROVE Inv'
  BY <1>7, PlugInv
<1>8. ASSUME NEW code \in Codes, NEW value \in Steps[code], Move(code, value) PROVE Inv'
  BY <1>8, MoveInv
<1>9. ASSUME NEW level \in Levels, NEW duration \in Durations, RumbleCall(level, duration) PROVE Inv'
  BY <1>9, CallInv
<1>10. CASE UNCHANGED vars
  <2>1. TypeOK' /\ HistoryTypes' /\ PadsInOrder'
    BY <1>10 DEF Inv, TypeOK, HistoryTypes, PadsInOrder, vars
  <2>2. MotorInv'
    BY <1>10, SameMotors DEF vars, Connected
  <2> QED BY <2>1, <2>2 DEF Inv
<1> QED BY <1>1, <1>2, <1>3, <1>4, <1>5, <1>6, <1>7, <1>8, <1>9, <1>10 DEF Next

\* The invariant holds of every state of the pad.
THEOREM InvHolds == Spec => []Inv
BY InitInv, NextInv, PTL DEF Spec

\* Every variable keeps its type: no bound is overrun, a closed descriptor has
\* no events waiting, and no effect's time leaves 16 bits.
THEOREM TypesHold == Spec => []TypeOK
<1>1. Inv => TypeOK
  BY DEF Inv
<1> QED BY <1>1, InvHolds, PTL

\* A pad goes on playing the last request it took until that is over or an
\* effect can play no longer, whatever is refused later, however effects are
\* handed out.
THEOREM AlwaysPlaysWhatItTook == Spec => []PlaysWhatItTook
<1>1. Inv => PlaysWhatItTook
  BY DEF Inv, MotorInv
<1> QED BY <1>1, InvHolds, PTL

\* The backend leaves no more effects behind than uploads were refused.
THEOREM EffectsNeverLeak == Spec => []EffectsAreNotLeaked
<1>1. Inv => EffectsAreNotLeaked
  BY DEF Inv, MotorInv
<1> QED BY <1>1, InvHolds, PTL

\* A pad that was dropped, or outlived the Context, has no effects and is silent.
THEOREM AlwaysQuietWhenClosed == Spec => []QuietWhenClosed
<1>1. Inv => QuietWhenClosed
  <2>1. effects = NoEffects => Playing = {} /\ Uploaded = {}
    BY NoEffectsType DEF Playing, Uploaded
  <2> QED BY <2>1 DEF Inv, MotorInv, GoneIsQuiet, Connected, QuietWhenClosed, Motor
<1> QED BY <1>1, InvHolds, PTL

\* Where one effect at most plays, the motors run at its intensity.
LEMMA MotorBelow ==
  ASSUME effects \in EffectTable, NEW e, Playing \subseteq {e},
         \A id \in Playing : effects[id].level < Tolerance
  PROVE  Motor < Tolerance
<1>1. CASE Playing = {}
  BY <1>1, ConstantTypes DEF Motor
<1>2. CASE Playing # {}
  <2>1. e \in Playing /\ e \in Ids
    BY <1>2 DEF Playing
  <2>2. effects[e].level \in Levels /\ effects[e].level <= effects[e].level
    <3>1. effects[e] \in [up : BOOLEAN, level : Levels, left : {Forever} \cup 0..LongestReplay]
      BY <2>1 DEF EffectTable
    <3>2. effects[e].level \in Levels
      BY <3>1
    <3>3. Levels \subseteq Int
      BY ConstantTypes
    <3> DEFINE level == effects[e].level
    <3>4. level \in Levels
      BY <3>2
    <3> HIDE DEF level
    <3>5. level <= level
      BY <3>3, <3>4
    <3> QED BY <3>4, <3>5 DEF level
  <2> DEFINE Loudest(l) == /\ \E id \in Playing : effects[id].level = l
                           /\ \A id \in Playing : effects[id].level <= l
  <2>3. Loudest(effects[e].level)
    BY <2>1, <2>2
  <2>4. Motor = CHOOSE l \in Levels : Loudest(l)
    BY <1>2 DEF Motor
  <2> HIDE DEF Loudest
  <2>5. Loudest(Motor)
    BY <2>2, <2>3, <2>4
  <2> QED BY <2>5 DEF Loudest
<1> QED BY <1>1, <1>2

\* stop_rumble() of a pad whose driver refused nothing: either nothing plays
\* afterwards, or what plays is what the core's record took for silence.
THEOREM StopAlwaysStops == Spec => StopIsStop
<1>1. ASSUME Inv, NEW duration \in Durations, RumbleCall(0, duration), spent.faults = 0
      PROVE  Motor' < Tolerance
  <2>1. effects \in EffectTable
    BY <1>1 DEF Inv, TypeOK, EffectTable
  <2>2. Playing \subseteq {entry.effect_id}
    BY <1>1 DEF Inv, MotorInv, OneEffect, PlayingIsUploaded, Playing, Uploaded
  <2>3. CASE RumbleSwallowed(0, duration)
    <3>1. \A id \in Playing : effects[id].level < Tolerance
      <4> SUFFICES ASSUME NEW id \in Playing PROVE effects[id].level < Tolerance
        OBVIOUS
      <4>1. device.sent.level = effects[id].level /\ effects[id].level \in Nat
        BY <1>1, <2>1, ConstantTypes
           DEF Inv, MotorInv, RecordIsTrue, Playing, EffectTable
      <4>2. Near(device.sent.level, 0)
        BY <2>3 DEF RumbleSwallowed, Swallowed
      <4> QED BY <4>1, <4>2, ConstantTypes DEF Near
    <3>2. Motor < Tolerance
      BY <2>1, <2>2, <3>1, MotorBelow
    <3>3. Motor' = Motor
      BY <2>3 DEF RumbleSwallowed, Motor, Playing
    <3> QED BY <3>2, <3>3
  <2>4. CASE RumbleStops(duration)
    <3>1. Playing' = {}
      BY <1>1, <2>2, <2>4, StoppedEffects DEF RumbleStops, Playing
    <3>2. Motor' = 0
      BY <3>1 DEF Motor
    <3> QED BY <3>2, ConstantTypes
  <2>5. ~RumblePlays(0, duration) /\ ~RumbleRefused(0, duration)
    BY DEF RumblePlays, RumbleRefused
  <2> QED BY <1>1, <2>3, <2>4, <2>5 DEF RumbleCall
<1>2. Inv /\ [Next]_vars =>
        [\A duration \in Durations :
           RumbleCall(0, duration) /\ spent.faults = 0 => Motor' < Tolerance]_vars
  BY <1>1
<1> QED BY <1>2, InvHolds, PTL DEF Spec, StopIsStop
-----------------------------------------------------------------------------
(* the view of the pad *)

\* What the backend and the core keep of an input is what the pad says of it.
Matches(code) ==
  /\ code = "key" => (device.key <=> node.held.key # 0)
  /\ code = "x" => entry.x = node.held.x
  /\ code = "y" => entry.y = node.held.y

LastReport(i, code) ==
  /\ i \in DOMAIN queue /\ queue[i].code = code
  /\ \A j \in DOMAIN queue : queue[j].code = code => j <= i

\* An input of a pad that is read is told by its last report, or is known; the
\* exceptions are the ones whose latest change the kernel dropped.
ReportsAreTrue ==
  Connected =>
    \A code \in Codes \ lost :
      \/ \E i \in DOMAIN queue : LastReport(i, code) /\ queue[i].value = node.held[code]
      \/ (\A i \in DOMAIN queue : queue[i].code # code) /\ Matches(code)

\* Steps that touch neither the pad's inputs nor what is known of them.
LEMMA UntouchedReports ==
  ASSUME ReportsAreTrue, Connected' => Connected,
         queue' = queue, lost' = lost, node'.held = node.held,
         entry'.x = entry.x, entry'.y = entry.y, device'.key = device.key
  PROVE  ReportsAreTrue'
BY DEF ReportsAreTrue, LastReport, Matches

\* The last report of an input is what reading the queue leaves of it.
LEMMA HeardProperties ==
  ASSUME HistoryTypes, NEW known, NEW code \in Codes
  PROVE  /\ \A i \in DOMAIN queue : LastReport(i, code) => AllHeard(known)[code] = queue[i].value
         /\ (\A i \in DOMAIN queue : queue[i].code # code) => AllHeard(known)[code] = known[code]
<1> DEFINE reports == {i \in DOMAIN queue : queue[i].code = code}
<1>1. AllHeard(known)[code] = IF reports = {} THEN known[code] ELSE queue[Max(reports)].value
  BY DEF AllHeard
<1>2. ASSUME NEW i \in DOMAIN queue, LastReport(i, code)
      PROVE  AllHeard(known)[code] = queue[i].value
  <2>1. DOMAIN queue = 1..Len(queue) /\ Len(queue) \in Nat
    BY LenProperties DEF HistoryTypes
  <2>2. i \in reports /\ \A j \in reports : i >= j
    BY <1>2, <2>1 DEF LastReport
  <2>3. Max(reports) \in reports /\ \A j \in reports : Max(reports) >= j
    BY <2>2 DEF Max
  <2>4. Max(reports) = i
    BY <2>1, <2>2, <2>3
  <2> QED BY <1>1, <2>2, <2>4
<1> QED BY <1>1, <1>2

\* A frame that reads passes on what the pad says.
LEMMA ReadMatches ==
  ASSUME Inv, ReportsAreTrue, UpdateReads
  PROVE  /\ queue' = <<>> /\ lost' = lost /\ node' = node /\ open
         /\ \A code \in Codes \ lost : Matches(code)'
         /\ device'.hat = HatMask(entry'.x, entry'.y)
<1> DEFINE known == [key |-> IF device.key THEN 1 ELSE 0, x |-> entry.x, y |-> entry.y]
           heard == AllHeard(known)
<1>1. /\ queue' = <<>> /\ lost' = lost /\ node' = node /\ open /\ Connected
      /\ entry' = [entry EXCEPT !.x = heard.x, !.y = heard.y]
      /\ device' = Shown(device, heard)
  BY DEF UpdateReads, Gone, Connected
<1>2. HistoryTypes /\ entry \in Entries /\ device \in Devices
  BY DEF Inv, TypeOK, Entries, Devices
<1>3. ASSUME NEW code \in Codes \ lost
      PROVE  \/ heard[code] = node.held[code]
             \/ heard[code] = known[code] /\ Matches(code)
  <2> HIDE DEF known
  <2> QED BY <1>1, <1>2, HeardProperties DEF ReportsAreTrue
<1>4. known["key"] = (IF device.key THEN 1 ELSE 0) /\ known["x"] = entry.x /\ known["y"] = entry.y
  OBVIOUS
<1>5. entry'.x = heard.x /\ entry'.y = heard.y
  <2> HIDE DEF heard
  <2> QED BY <1>1, <1>2 DEF Entries
<1>6. (device'.key <=> heard.key # 0) /\ device'.hat = HatMask(heard.x, heard.y)
  <2> HIDE DEF heard
  <2> QED BY <1>1, <1>2 DEF Devices, Shown, KeyDown
<1> HIDE DEF heard, known
<1>7. "key" \notin lost => (device'.key <=> node'.held.key # 0)
  <2>1. CASE heard.key = node.held.key
    BY <1>1, <1>6, <2>1
  <2>2. CASE heard.key = known.key /\ Matches("key")
    <3>1. device.key <=> node.held.key # 0
      BY <2>2 DEF Matches
    <3>2. heard.key # 0 <=> device.key
      BY <1>4, <2>2
    <3> QED BY <1>1, <1>6, <3>1, <3>2
  <2> QED BY <1>3, <2>1, <2>2 DEF Codes
<1>8. "x" \notin lost => entry'.x = node'.held.x
  BY <1>1, <1>3, <1>4, <1>5 DEF Codes, Matches
<1>9. "y" \notin lost => entry'.y = node'.held.y
  BY <1>1, <1>3, <1>4, <1>5 DEF Codes, Matches
<1>10. \A code \in Codes \ lost : Matches(code)'
  BY <1>7, <1>8, <1>9 DEF Matches
<1> QED BY <1>1, <1>5, <1>6, <1>10

\* Taking a pad asks the kernel for what is held.
LEMMA OpenMatches ==
  ASSUME Inv, UpdateOpens
  PROVE  /\ queue' = <<>> /\ lost' = {} /\ node' = node
         /\ \A code \in Codes : Matches(code)'
         /\ device'.hat = HatMask(entry'.x, entry'.y)
<1>1. /\ queue' = queue /\ ~entry.open /\ lost' = {} /\ node' = node
      /\ entry'.x = node.held.x /\ entry'.y = node.held.y
  BY DEF UpdateOpens, Seeded
<1>2. queue' = <<>>
  BY <1>1 DEF Inv, TypeOK
<1>3. PICK rumbles \in BOOLEAN :
        device' = Shown([NoDevice EXCEPT !.live = TRUE, !.rumbles = rumbles], node.held)
  BY DEF UpdateOpens, Seeded
<1>4. [NoDevice EXCEPT !.live = TRUE, !.rumbles = rumbles] \in Devices
  BY ConstantTypes DEF NoDevice, NothingSent, Records, Devices
<1>5. device'.key = (node.held.key # 0) /\ device'.hat = HatMask(node.held.x, node.held.y)
  BY <1>3, <1>4 DEF Devices, Shown, KeyDown
<1> QED BY <1>1, <1>2, <1>5 DEF Matches

\* A change of an input is the last report of it; a full queue loses the
\* reports of the others, and they are noted as lost.
LEMMA MoveReports ==
  ASSUME Inv, ReportsAreTrue, NEW code \in Codes, NEW value \in Steps[code], Move(code, value)
  PROVE  ReportsAreTrue'
<1>1. /\ node' = [node EXCEPT !.held[code] = value] /\ UNCHANGED <<entry, device>>
      /\ node.held \in Inputs
      /\ node \in [pad : 0..MaxPads, access : Access, held : Inputs]
  BY DEF Move, Inv, TypeOK
<1>2. /\ node'.pad = node.pad /\ node'.held[code] = value
      /\ \A c \in Codes \ {code} : node'.held[c] = node.held[c]
      /\ \A c \in Codes \ {code} : Matches(c) => Matches(c)'
  <2>1. node'.pad = node.pad /\ node'.held = [node.held EXCEPT ![code] = value]
    BY <1>1
  <2>2. DOMAIN node.held = Codes
    BY <1>1 DEF Inputs, Codes
  <2>3. node'.held[code] = value /\ \A c \in Codes \ {code} : node'.held[c] = node.held[c]
    BY <2>1, <2>2
  <2>4. ASSUME NEW c \in Codes \ {code}, Matches(c)
        PROVE  Matches(c)'
    <3>1. node'.held[c] = node.held[c]
      BY <2>3
    <3> QED BY <1>1, <2>4, <3>1 DEF Matches
  <2> QED BY <2>1, <2>3, <2>4
<1>3. CASE ~Connected
  BY <1>1, <1>2, <1>3 DEF Connected, ReportsAreTrue
<1>4. CASE Connected /\ ~(Len(queue) >= QueueSize)
  <2> DEFINE e == Event(code, value)
  <2>1. /\ queue' = Append(queue, e) /\ queue \in Seq(Reports) /\ lost' = lost \ {code}
    BY <1>4 DEF Move, Inv, HistoryTypes
  <2>2. e.code = code /\ e.value = value
    BY DEF Event
  <2>3. e \in Reports
    <3>1. Steps["key"] \subseteq Int /\ Steps["x"] \subseteq Int /\ Steps["y"] \subseteq Int
      BY ConstantTypes DEF Steps
    <3>2. value \in Int
      BY <3>1 DEF Codes
    <3> QED BY <3>2 DEF Event, Reports
  <2> HIDE DEF e
  <2>4. /\ Len(queue') = Len(queue) + 1 /\ queue' \in Seq(Reports)
        /\ \A i \in 1..Len(queue) : queue'[i] = queue[i]
        /\ queue'[Len(queue) + 1] = e
    BY <2>1, <2>3, AppendProperties
  <2>5. Len(queue) \in Nat /\ DOMAIN queue = 1..Len(queue) /\ DOMAIN queue' = 1..(Len(queue) + 1)
    BY <2>1, <2>4, LenProperties
  <2>6. PICK last : last = Len(queue) + 1
    OBVIOUS
  <2>7. LastReport(last, code)' /\ queue'[last].value = node'.held[code] /\ last \in DOMAIN queue'
    <3>1. last \in DOMAIN queue' /\ queue'[last] = e /\ \A j \in DOMAIN queue' : j <= last
      BY <2>4, <2>5, <2>6
    <3> QED BY <1>2, <2>2, <3>1 DEF LastReport
  <2>8. ASSUME NEW c \in Codes \ lost', c # code
        PROVE  \/ \E i \in DOMAIN queue' : LastReport(i, c)' /\ queue'[i].value = node'.held[c]
               \/ (\A i \in DOMAIN queue' : queue'[i].code # c) /\ Matches(c)'
    <3>1. /\ \A i \in DOMAIN queue : i \in DOMAIN queue' /\ queue'[i] = queue[i]
          /\ \A i \in DOMAIN queue' :
               queue'[i].code = c => i \in DOMAIN queue /\ queue'[i] = queue[i]
      <4>1. \A i \in DOMAIN queue' : i \in DOMAIN queue \/ queue'[i] = e
        BY <2>4, <2>5
      <4>2. \A i \in DOMAIN queue : i \in DOMAIN queue' /\ queue'[i] = queue[i]
        BY <2>4, <2>5
      <4> QED BY <2>2, <2>8, <4>1, <4>2
    <3>2. c \in Codes \ lost /\ node'.held[c] = node.held[c] /\ (Matches(c) => Matches(c)')
      BY <1>2, <2>1, <2>8
    <3>3. CASE \E i \in DOMAIN queue : LastReport(i, c) /\ queue[i].value = node.held[c]
      BY <3>1, <3>2, <3>3 DEF LastReport
    <3>4. CASE (\A i \in DOMAIN queue : queue[i].code # c) /\ Matches(c)
      BY <3>1, <3>2, <3>4
    <3> QED BY <1>4, <3>2, <3>3, <3>4 DEF ReportsAreTrue
  <2> QED BY <2>7, <2>8 DEF ReportsAreTrue
<1>5. CASE Connected /\ Len(queue) >= QueueSize
  <2>1. /\ queue' = <<Dropped, Event(code, value)>>
        /\ lost' = (lost \cup {c \in Codes : \E i \in DOMAIN queue : queue[i].code = c}) \ {code}
    BY <1>5 DEF Move
  <2>2. DOMAIN queue' = {1, 2} /\ queue'[1] = Dropped /\ queue'[2] = Event(code, value)
    BY <2>1
  <2>3. /\ queue'[1].code = "dropped" /\ queue'[2].code = code /\ queue'[2].value = value
        /\ "dropped" \notin Codes
    BY <2>2 DEF Dropped, Event, Codes
  <2>4. LastReport(2, code)' /\ queue'[2].value = node'.held[code]
    BY <1>2, <2>2, <2>3 DEF LastReport
  <2>5. ASSUME NEW c \in Codes \ lost', c # code
        PROVE  (\A i \in DOMAIN queue' : queue'[i].code # c) /\ Matches(c)'
    <3>1. c \in Codes \ lost /\ \A i \in DOMAIN queue : queue[i].code # c
      BY <2>1, <2>5
    <3>2. Matches(c)
      BY <1>5, <3>1 DEF ReportsAreTrue, LastReport
    <3> QED BY <1>2, <2>2, <2>3, <2>5, <3>2
  <2> QED BY <2>2, <2>4, <2>5 DEF ReportsAreTrue
<1> QED BY <1>3, <1>4, <1>5

LEMMA NextReports == Inv /\ ReportsAreTrue /\ [Next]_vars => ReportsAreTrue'
<1> SUFFICES ASSUME Inv, ReportsAreTrue, [Next]_vars PROVE ReportsAreTrue'
  OBVIOUS
<1>1. /\ entry.open => entry.pad \in Nat \ {0} /\ entry.pad <= spent.pads
      /\ spent.pads \in Nat
      /\ entry \in Entries /\ device \in Devices
  BY DEF Inv, HistoryTypes, PadsInOrder, TypeOK, Entries, Devices
<1>2. CASE UpdateOpens
  BY <1>2, OpenMatches DEF ReportsAreTrue
<1>3. CASE UpdateReads
  BY <1>3, ReadMatches DEF ReportsAreTrue
<1>4. CASE UpdateIdle
  BY <1>4, UntouchedReports DEF UpdateIdle, Connected
<1>5. CASE UpdateDrops \/ Destroy
  BY <1>5 DEF UpdateDrops, Destroy, NoEntry, ReportsAreTrue, Connected
<1>6. CASE Grant
  <2>1. node'.pad = node.pad /\ node'.held = node.held
    BY <1>6 DEF Grant, Inv, TypeOK
  <2> QED BY <1>6, <2>1, UntouchedReports DEF Grant, Connected
<1>7. CASE Unplug
  <2>1. node'.pad = 0 /\ entry' = entry
    BY <1>7 DEF Unplug, Nowhere
  <2> QED BY <1>1, <2>1 DEF ReportsAreTrue, Connected
<1>8. CASE ForgetEffects \/ Tick
  BY <1>8, UntouchedReports DEF ForgetEffects, Tick, Connected
<1>9. CASE \E access \in Access, held \in Held : Plug(access, held)
  <2>1. node'.pad = spent.pads + 1 /\ entry' = entry
    BY <1>9 DEF Plug
  <2> QED BY <1>1, <2>1 DEF ReportsAreTrue, Connected
<1>10. CASE \E code \in Codes : \E value \in Steps[code] : Move(code, value)
  BY <1>10, MoveReports
<1>11. CASE \E level \in Levels, duration \in Durations : RumbleCall(level, duration)
  <2>1. PICK level \in Levels, duration \in Durations : RumbleCall(level, duration)
    BY <1>11
  <2>2. UNCHANGED <<node, queue, lost>>
    BY <2>1 DEF RumbleCall
  <2>3. \/ entry' = entry \/ entry' = [entry EXCEPT !.effect_id = -1]
        \/ \E id : entry' = [entry EXCEPT !.effect_id = id]
    BY <2>1 DEF RumbleCall, RumbleSwallowed, RumbleStops, RumblePlays, RumbleRefused
  <2>4. entry'.open = entry.open /\ entry'.pad = entry.pad /\ entry'.x = entry.x /\ entry'.y = entry.y
    BY <1>1, <2>3 DEF Entries
  <2>5. device' = device \/ \E sent : device' = [device EXCEPT !.sent = sent]
    BY <2>1 DEF RumbleCall, RumbleSwallowed, RumbleStops, RumblePlays, RumbleRefused
  <2>6. device'.key = device.key
    BY <1>1, <2>5 DEF Devices
  <2> QED BY <2>2, <2>4, <2>6, UntouchedReports DEF Connected
<1>12. CASE UNCHANGED vars
  BY <1>12, UntouchedReports DEF vars, Connected
<1> QED BY <1>2, <1>3, <1>4, <1>5, <1>6, <1>7, <1>8, <1>9, <1>10, <1>11, <1>12 DEF Next, Update

\* Every frame that reads a pad leaves the Context with what the pad says, but
\* for inputs whose latest change the kernel dropped.
THEOREM OnlyDroppedIsEverStale == Spec => OnlyDroppedIsStale
<1>1. Init => Inv /\ ReportsAreTrue
  BY InitInv DEF Init, ReportsAreTrue, Connected, NoEntry
<1>2. Inv /\ ReportsAreTrue /\ [Next]_vars => (Inv /\ ReportsAreTrue)'
  BY NextInv, NextReports
<1>3. ASSUME Inv, ReportsAreTrue, UpdateOpens \/ UpdateReads
      PROVE  /\ "key" \in lost' \/ (device'.key <=> node.held.key # 0)
             /\ "x" \in lost' \/ /\ "left" \in device'.hat <=> node.held.x < 0
                                 /\ "right" \in device'.hat <=> node.held.x > 0
             /\ "y" \in lost' \/ /\ "up" \in device'.hat <=> node.held.y < 0
                                 /\ "down" \in device'.hat <=> node.held.y > 0
  <2>1. /\ node' = node /\ device'.hat = HatMask(entry'.x, entry'.y)
        /\ \A code \in Codes \ lost' : Matches(code)'
    BY <1>3, OpenMatches, ReadMatches
  <2>2. "key" \in lost' \/ (device'.key <=> node.held.key # 0)
    BY <2>1 DEF Codes, Matches
  <2>3. "x" \in lost' \/ entry'.x = node.held.x
    BY <2>1 DEF Codes, Matches
  <2>4. "y" \in lost' \/ entry'.y = node.held.y
    BY <2>1 DEF Codes, Matches
  <2>5. /\ "left" \in device'.hat <=> entry'.x < 0
        /\ "right" \in device'.hat <=> entry'.x > 0
        /\ "up" \in device'.hat <=> entry'.y < 0
        /\ "down" \in device'.hat <=> entry'.y > 0
    BY <2>1 DEF HatMask
  <2> QED BY <2>2, <2>3, <2>4, <2>5
<1>4. Inv /\ ReportsAreTrue =>
        [UpdateOpens \/ UpdateReads =>
           /\ "key" \in lost' \/ (device'.key <=> node.held.key # 0)
           /\ "x" \in lost' \/ /\ "left" \in device'.hat <=> node.held.x < 0
                               /\ "right" \in device'.hat <=> node.held.x > 0
           /\ "y" \in lost' \/ /\ "up" \in device'.hat <=> node.held.y < 0
                               /\ "down" \in device'.hat <=> node.held.y > 0]_vars
  BY <1>3
<1> QED BY <1>1, <1>2, <1>4, PTL DEF Spec, OnlyDroppedIsStale
=============================================================================
