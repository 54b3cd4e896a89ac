--------------------------- MODULE VirtualPadsProofs ---------------------------
(***************************************************************************)
(* The virtual backend and the core, for any number of pads, Contexts and  *)
(* mapping lines.                                                          *)
(*                                                                         *)
(* The registry outlives the Context.  While its announced pads are those  *)
(* of the Context that polls now, it is Settled; a Context that was just   *)
(* made has no devices, and what is announced is LeftOver from the one     *)
(* before: as remove_all() was called in between, those pads are all gone, *)
(* come before every new one, and are told to leave before the first new   *)
(* one is announced.  Without remove_all() that is false, which the run    *)
(* virtual_left_over shows, so the theorems about pads and their devices   *)
(* assume RemoveAllFirst.                                                  *)
(***************************************************************************)
EXTENDS VirtualPads, GamepadContextProofs

\* The device in the slot of a pad is the pad's, and only input 1 was written.
Matched(pad) ==
  /\ pad.slot \in LiveSlots /\ slots[pad.slot].id = pad.device_id
  /\ slots[pad.slot].backend_mapped = pad.spec.backend_mapped
  /\ \A r \in Raws : r # 1 => slots[pad.slot].raw[r] = 0

Settled ==
  /\ \A i \in DOMAIN pads : pads[i].announced => Matched(pads[i])
  /\ \A i, j \in DOMAIN pads :
       pads[i].announced /\ pads[j].announced /\ pads[i].slot = pads[j].slot => i = j

LeftOver ==
  /\ LiveSlots = {}
  /\ \A i \in DOMAIN pads :
       pads[i].announced => /\ ~pads[i].present /\ cursor <= i
                            /\ \A j \in DOMAIN pads : pads[j].present => i < j

Owned == \A s \in LiveSlots : \E i \in DOMAIN pads : pads[i].announced /\ pads[i].slot = s

\* Its device shows what a pad reads.
Shows(pad) ==
  IF pad.spec.backend_mapped THEN slots[pad.slot].out[1] = pad.input
  ELSE slots[pad.slot].raw[1] = pad.input

\* What poll() has seen to once it has passed a pad.
Served(pad) ==
  IF pad.present
  THEN /\ pad.announced \/ ~Welcome(pad)
       /\ pad.announced => Shows(pad)
  ELSE ~pad.announced

\* Whose the slots are.
Tenancy == (Settled \/ LeftOver) /\ Owned

PollProgress ==
  /\ current_backend = 1 => \A i \in DOMAIN pads : i < cursor => Served(pads[i])
  /\ current_backend = 2 => \A i \in DOMAIN pads : pads[i].present /\ Served(pads[i])

PadsInv == PadsTypeOK /\ Tenancy /\ PollProgress
-----------------------------------------------------------------------------
(* the Context behind the registry *)

\* Each pad of the registry is one, and the cursor is at one or past the last.
LEMMA PadsArePads ==
  ASSUME PadsTypeOK
  PROVE  /\ pads \in Seq(Pads) /\ Len(pads) \in Nat /\ DOMAIN pads = 1..Len(pads)
         /\ \A i \in DOMAIN pads : pads[i] \in Pads
         /\ cursor \in Nat
BY ElementOfSeq, LenProperties DEF PadsTypeOK

\* The constructor establishes the invariant of the core, whenever it runs.
LEMMA NewContextInv == NewContext => Inv'
<1>1. NewContext => Init'
  BY DEF NewContext, Init
<1>2. Init' => Inv'
  BY InitInv, PTL
<1> QED BY <1>1, <1>2

\* Each step is one of the Context, leaves it alone or makes another.
LEMMA PadsStepIsStep ==
  ASSUME PadsTypeOK, [PadsNext]_padVars
  PROVE  [Next]_vars \/ NewContext
<1>1. CASE TestCall
  BY <1>1 DEF TestCall, AddPad, RemovePad, SetInput, RemakeContext
<1>2. CASE VisitLeaving
  <2>1. UNCHANGED vars \/ RemoveDevice(pads[cursor].slot)
    BY <1>2 DEF VisitLeaving
  <2>2. RemoveDevice(pads[cursor].slot) => pads[cursor].slot \in DOMAIN slots
    BY DEF RemoveDevice, Holds, Live
  <2> QED BY <2>1, <2>2 DEF Next, HostCall
<1>3. CASE VisitArriving
  <2>1. AddDevice(pads[cursor].spec) /\ pads[cursor].spec \in Descriptions
    BY <1>3, PadsArePads DEF VisitArriving, Visited, Pads
  <2> QED BY <2>1 DEF Next, HostCall
<1>4. CASE VisitPresent
  <2> DEFINE pad == pads[cursor]
  <2>1. \/ UNCHANGED vars
        \/ SetOutput(pad.slot, 1, pad.input)
        \/ SetRaw(pad.slot, 1, pad.input)
    BY <1>4 DEF VisitPresent
  <2>2. pad.input \in Values /\ 1 \in Outputs /\ 1 \in Raws
    BY <1>4, PadsArePads, VirtualAssumption DEF VisitPresent, Visited, Pads
  <2>3. SetOutput(pad.slot, 1, pad.input) \/ SetRaw(pad.slot, 1, pad.input)
          => pad.slot \in DOMAIN slots
    BY DEF SetOutput, SetRaw, Holds, Live
  <2> HIDE DEF pad
  <2> QED BY <2>1, <2>2, <2>3 DEF Next, HostCall
<1>5. CASE VisitAbsent \/ UNCHANGED padVars
  BY <1>5 DEF VisitAbsent, padVars
<1>6. CASE Sweep \/ BeginFrame \/ EndUpdate \/ GameCall
  BY <1>6 DEF Sweep, BeginFrame, Next
<1> QED
  BY <1>1, <1>2, <1>3, <1>4, <1>5, <1>6 DEF PadsNext, Visit

LEMMA ContextInvKept ==
  ASSUME Inv, PadsTypeOK, [PadsNext]_padVars
  PROVE  Inv'
BY PadsStepIsStep, NextInv, NewContextInv
-----------------------------------------------------------------------------
(* the registry *)

\* The pads that stay are as many as they are, and the sequence Sweep makes of
\* them is one of pads.
LEMMA SweptPads ==
  ASSUME PadsTypeOK, Sweep
  PROVE  \E n, kept :
           /\ n \in Nat /\ kept \in [1..n -> Staying]
           /\ \A i \in Staying : \E j \in 1..n : kept[j] = i
           /\ \A j, k \in 1..n : j < k => kept[j] < kept[k]
           /\ pads' \in Seq(Pads) /\ DOMAIN pads' = 1..n /\ Len(pads') = n
           /\ \A j \in 1..n : pads'[j] = pads[kept[j]]
<1> DEFINE n == Cardinality(Staying)
<1>1. n \in Nat
  <2>1. IsFiniteSet(1..Len(pads)) /\ Staying \subseteq 1..Len(pads)
    BY PadsArePads, FS_Interval DEF Staying
  <2> QED BY <2>1, FS_Subset, FS_CardinalityType
<1>2. PICK kept \in Bijection(1..n, Staying) :
        /\ \A j, k \in DOMAIN kept : j < k => kept[j] < kept[k]
        /\ pads' = [j \in DOMAIN kept |-> pads[kept[j]]]
  BY DEF Sweep
<1> HIDE DEF n
<1>3. /\ kept \in [1..n -> Staying] /\ DOMAIN kept = 1..n
      /\ \A i \in Staying : \E j \in 1..n : kept[j] = i
  BY <1>2 DEF Bijection, Injection, Surjection
<1>4. pads' \in [1..n -> Pads]
  BY <1>2, <1>3, PadsArePads DEF Staying
<1>5. pads' \in Seq(Pads)
  BY <1>1, <1>4, SeqDef
<1>6. DOMAIN pads' = 1..n /\ Len(pads') = n
  <2>1. DOMAIN pads' = 1..n
    BY <1>4
  <2>2. DOMAIN pads' = 1..Len(pads') /\ Len(pads') \in Nat
    BY <1>5, LenProperties
  <2> QED BY <1>1, <2>1, <2>2
<1> QED BY <1>1, <1>2, <1>3, <1>5, <1>6

\* A pad changed in place leaves the registry a registry of pads.
LEMMA ChangedPad ==
  ASSUME PadsTypeOK, NEW i \in DOMAIN pads, NEW pad \in Pads
  PROVE  /\ [pads EXCEPT ![i] = pad] \in Seq(Pads)
         /\ DOMAIN [pads EXCEPT ![i] = pad] = DOMAIN pads
         /\ Len([pads EXCEPT ![i] = pad]) = Len(pads)
<1> DEFINE f == [pads EXCEPT ![i] = pad]
<1>1. f \in [DOMAIN pads -> Pads] /\ pads \in Seq(Pads)
  BY PadsArePads
<1> HIDE DEF f
<1>2. f \in Seq(Pads) /\ DOMAIN f = DOMAIN pads /\ Len(f) = Len(pads)
  BY <1>1, MapIsSeq
<1> QED BY <1>2 DEF f

\* What the steps make of one pad.
LEMMA PadChanges ==
  ASSUME Inv, NEW pad \in Pads
  PROVE  /\ Forgotten(pad) \in Pads
         /\ \A id \in Nat : Announced(pad, id) \in Pads
         /\ [pad EXCEPT !.present = FALSE] \in Pads
         /\ \A v \in Values : [pad EXCEPT !.input = v] \in Pads
<1>1. Forgotten(pad) \in Pads
  BY DEF Forgotten, Pads
<1>2. [pad EXCEPT !.present = FALSE] \in Pads
  BY DEF Pads
<1>3. \A v \in Values : [pad EXCEPT !.input = v] \in Pads
  BY DEF Pads
<1>4. ASSUME NEW id \in Nat PROVE Announced(pad, id) \in Pads
  <2>1. FreeSlot \in Nat
    BY FreeSlotProperties, LenProperties DEF Inv, TableTypeOK
  <2>2. [pad EXCEPT !.announced = TRUE, !.slot = FreeSlot, !.device_id = id] \in Pads
    BY <2>1 DEF Pads
  <2> QED BY <2>2 DEF Announced
<1> QED BY <1>1, <1>2, <1>3, <1>4

\* Only the one backend is ever polled, and a visit is part of its poll().
LEMMA VisitIsPolling ==
  ASSUME Inv, PadsTypeOK, Visit
  PROVE  /\ current_backend = 1 /\ current_backend' = 1
         /\ cursor \in DOMAIN pads /\ pads[cursor] \in Pads
<1>1. Visited /\ current_backend' = current_backend
  BY DEF Visit, VisitLeaving, VisitArriving, VisitPresent, VisitAbsent, RemoveDevice, AddDevice,
         SetOutput, SetRaw, vars
<1>2. current_backend = 1
  BY <1>1, VirtualAssumption DEF Visited, Polling
<1> QED BY <1>1, <1>2, PadsArePads DEF Visited

\* What a visit makes of the pad it is at.
LEMMA VisitEffect ==
  ASSUME Inv, PadsTypeOK, Visit
  PROVE  \E pad \in Pads :
           /\ pads' = [pads EXCEPT ![cursor] = pad]
           /\ pad.announced <=> pad.slot # 0 /\ pad.device_id # 0
           /\ cursor' \in {cursor, cursor + 1}
<1> DEFINE was == pads[cursor]
<1>1. cursor \in DOMAIN pads /\ was \in Pads
  BY VisitIsPolling
<1>2. was.announced <=> was.slot # 0 /\ was.device_id # 0
  BY <1>1 DEF PadsTypeOK
<1>3. pads = [pads EXCEPT ![cursor] = was]
  BY <1>1, PadsArePads
<1>4. CASE VisitLeaving
  <2>1. pads' = [pads EXCEPT ![cursor] = Forgotten(was)] /\ cursor' = cursor + 1
    BY <1>4 DEF VisitLeaving
  <2>2. Forgotten(was) \in Pads /\ Forgotten(was).announced = FALSE /\ Forgotten(was).slot = 0
    <3> HIDE DEF was
    <3> QED BY <1>1, PadChanges DEF Forgotten, Pads
  <2> QED BY <2>1, <2>2
<1>5. CASE VisitArriving
  <2> DEFINE id == IF slots'[FreeSlot].live THEN next_id ELSE 0
  <2>1. pads' = [pads EXCEPT ![cursor] = Announced(was, id)] /\ cursor' \in {cursor, cursor + 1}
    BY <1>5 DEF VisitArriving, AfterArrival
  <2>2. id \in Nat /\ FreeSlot # 0
    BY FreeSlotProperties, LenProperties DEF Inv, TableTypeOK
  <2> HIDE DEF id, was
  <2>3. Announced(was, id) \in Pads
    BY <1>1, <2>2, PadChanges
  <2>4. Announced(was, id).announced <=> Announced(was, id).slot # 0 /\ Announced(was, id).device_id # 0
    <3>1. CASE id = 0
      BY <1>2, <3>1 DEF Announced, was
    <3>2. CASE id # 0
      <4>1. Announced(was, id) = [was EXCEPT !.announced = TRUE, !.slot = FreeSlot, !.device_id = id]
        BY <3>2 DEF Announced
      <4>2. /\ Announced(was, id).announced = TRUE /\ Announced(was, id).slot = FreeSlot
            /\ Announced(was, id).device_id = id
        BY <1>1, <4>1 DEF Pads
      <4> QED BY <2>2, <3>2, <4>2
    <3> QED BY <3>1, <3>2
  <2> QED BY <2>1, <2>3, <2>4
<1>6. CASE VisitPresent \/ VisitAbsent
  <2>1. pads' = pads /\ cursor' = cursor + 1
    BY <1>6 DEF VisitPresent, VisitAbsent
  <2> QED BY <1>1, <1>2, <1>3, <2>1
<1> QED BY <1>4, <1>5, <1>6 DEF Visit

\* Every step keeps the types of the registry.
LEMMA RegistryTypesKept ==
  ASSUME Inv, PadsTypeOK, [PadsNext]_padVars
  PROVE  PadsTypeOK'
<1>1. /\ pads \in Seq(Pads) /\ Len(pads) \in Nat /\ DOMAIN pads = 1..Len(pads)
      /\ \A i \in DOMAIN pads : pads[i] \in Pads
      /\ cursor \in 1..(Len(pads) + 1)
      /\ current_backend # 1 => cursor = 1
      /\ \A i \in DOMAIN pads :
           pads[i].announced <=> pads[i].slot # 0 /\ pads[i].device_id # 0
  BY PadsArePads DEF PadsTypeOK
<1>2. CASE pads' = pads /\ cursor' = cursor /\ (current_backend' # 1 => current_backend # 1)
  BY <1>1, <1>2 DEF PadsTypeOK
<1>3. CASE TestCall
  <2>1. current_backend = 0 /\ current_backend' = 0 /\ cursor' = cursor
    BY <1>3 DEF TestCall, AddPad, RemovePad, SetInput, RemakeContext, NewContext, vars
  <2>2. ASSUME NEW spec \in Descriptions, AddPad(spec) PROVE PadsTypeOK'
    <3>1. NewPad(spec) \in Pads /\ NewPad(spec).announced = FALSE /\ NewPad(spec).slot = 0
      BY ContextAssumption DEF NewPad, Pads
    <3>2. /\ pads' \in Seq(Pads) /\ Len(pads') = Len(pads) + 1
          /\ \A i \in 1..Len(pads) : pads'[i] = pads[i]
          /\ pads'[Len(pads) + 1] = NewPad(spec)
      BY <1>1, <2>2, <3>1, AppendProperties DEF AddPad
    <3>3. \A i \in DOMAIN pads' : i \in 1..Len(pads) \/ i = Len(pads) + 1
      BY <1>1, <3>2, LenProperties
    <3>4. \A i \in DOMAIN pads' : pads'[i].announced <=> pads'[i].slot # 0 /\ pads'[i].device_id # 0
      BY <1>1, <3>1, <3>2, <3>3
    <3> QED BY <1>1, <2>1, <3>2, <3>4 DEF PadsTypeOK
  <2>3. ASSUME NEW i \in DOMAIN pads, NEW pad \in Pads, pads' = [pads EXCEPT ![i] = pad],
               pad.announced = pads[i].announced, pad.slot = pads[i].slot,
               pad.device_id = pads[i].device_id
        PROVE  PadsTypeOK'
    <3>1. pads' \in Seq(Pads) /\ DOMAIN pads' = DOMAIN pads /\ Len(pads') = Len(pads)
      BY <2>3, ChangedPad
    <3>2. \A j \in DOMAIN pads' : pads'[j].announced <=> pads'[j].slot # 0 /\ pads'[j].device_id # 0
      BY <1>1, <2>3, <3>1
    <3> QED BY <1>1, <2>1, <3>1, <3>2 DEF PadsTypeOK
  <2>4. ASSUME NEW i \in DOMAIN pads, RemovePad(i) PROVE PadsTypeOK'
    <3> DEFINE pad == [pads[i] EXCEPT !.present = FALSE]
    <3>1. pad \in Pads /\ pad.announced = pads[i].announced /\ pad.slot = pads[i].slot
          /\ pad.device_id = pads[i].device_id
      BY <1>1 DEF Pads
    <3>2. pads' = [pads EXCEPT ![i] = pad]
      BY <2>4 DEF RemovePad
    <3> HIDE DEF pad
    <3> QED BY <2>3, <3>1, <3>2
  <2>5. ASSUME NEW i \in DOMAIN pads, NEW v \in Values, SetInput(i, v) PROVE PadsTypeOK'
    <3> DEFINE pad == [pads[i] EXCEPT !.input = v]
    <3>1. pad \in Pads /\ pad.announced = pads[i].announced /\ pad.slot = pads[i].slot
          /\ pad.device_id = pads[i].device_id
      BY <1>1 DEF Pads
    <3>2. pads' = [pads EXCEPT ![i] = pad]
      BY <2>5 DEF SetInput
    <3> HIDE DEF pad
    <3> QED BY <2>3, <3>1, <3>2
  <2>6. CASE RemakeContext
    <3>1. CASE RemoveAllFirst
      <4>1. pads' = [i \in DOMAIN pads |-> [pads[i] EXCEPT !.present = FALSE]]
        BY <2>6, <3>1 DEF RemakeContext, AllRemoved
      <4>2. /\ pads' \in [DOMAIN pads -> Pads]
            /\ \A i \in DOMAIN pads : /\ pads'[i].announced = pads[i].announced
                                      /\ pads'[i].slot = pads[i].slot
                                      /\ pads'[i].device_id = pads[i].device_id
        BY <1>1, <4>1 DEF Pads
      <4>3. pads' \in Seq(Pads) /\ DOMAIN pads' = DOMAIN pads /\ Len(pads') = Len(pads)
        BY <1>1, <4>2, MapIsSeq
      <4> QED BY <1>1, <2>1, <4>2, <4>3 DEF PadsTypeOK
    <3>2. CASE ~RemoveAllFirst
      BY <1>2, <2>1, <2>6, <3>2 DEF RemakeContext
    <3> QED BY <3>1, <3>2
  <2> QED BY <1>3, <2>2, <2>4, <2>5, <2>6 DEF TestCall
<1>4. CASE Visit
  <2>1. PICK pad \in Pads : /\ pads' = [pads EXCEPT ![cursor] = pad]
                            /\ pad.announced <=> pad.slot # 0 /\ pad.device_id # 0
                            /\ cursor' \in {cursor, cursor + 1}
    BY <1>4, VisitEffect
  <2>2. current_backend' = 1 /\ cursor \in 1..Len(pads)
    BY <1>1, <1>4, VisitIsPolling
  <2>3. pads' \in Seq(Pads) /\ DOMAIN pads' = DOMAIN pads /\ Len(pads') = Len(pads)
    BY <1>1, <2>1, <2>2, ChangedPad
  <2>4. \A j \in DOMAIN pads' : pads'[j].announced <=> pads'[j].slot # 0 /\ pads'[j].device_id # 0
    BY <1>1, <2>1, <2>2, <2>3
  <2>5. cursor' \in 1..(Len(pads) + 1)
    BY <1>1, <2>1, <2>2
  <2> QED BY <2>2, <2>3, <2>4, <2>5 DEF PadsTypeOK
<1>5. CASE Sweep
  <2>1. PICK n, kept :
           /\ n \in Nat /\ kept \in [1..n -> Staying]
           /\ pads' \in Seq(Pads) /\ DOMAIN pads' = 1..n /\ Len(pads') = n
           /\ \A j \in 1..n : pads'[j] = pads[kept[j]]
    BY <1>5, SweptPads
  <2>2. \A j \in DOMAIN pads' : pads'[j].announced <=> pads'[j].slot # 0 /\ pads'[j].device_id # 0
    BY <1>1, <2>1 DEF Staying
  <2>3. cursor' = 1
    BY <1>5 DEF Sweep
  <2>4. cursor' \in 1..(Len(pads') + 1)
    BY <2>1, <2>3
  <2> QED BY <2>1, <2>2, <2>3, <2>4 DEF PadsTypeOK
<1>6. CASE (BeginFrame \/ EndUpdate \/ GameCall) /\ UNCHANGED <<registry, cursor>>
  <2>1. current_backend' = 1 \/ current_backend # 1
    <3>1. BeginFrame => current_backend' = 1
      BY DEF BeginFrame, BeginUpdate
    <3>2. EndUpdate => current_backend = 2
      BY VirtualAssumption DEF EndUpdate
    <3>3. GameCall => current_backend = 0
      BY DEF GameCall, AddMappings, SetConfig
    <3> QED BY <1>6, <3>1, <3>2, <3>3
  <2> QED BY <1>2, <1>6, <2>1 DEF registry
<1>7. CASE UNCHANGED padVars
  BY <1>2, <1>7 DEF padVars, vars
<1> QED BY <1>3, <1>4, <1>5, <1>6, <1>7 DEF PadsNext
-----------------------------------------------------------------------------
(* whose the slots are *)

\* The occupants of the slots stay what they are, but for input 1.
Keeps ==
  /\ LiveSlots' = LiveSlots
  /\ \A s \in LiveSlots :
       /\ slots'[s].id = slots[s].id
       /\ slots'[s].backend_mapped = slots[s].backend_mapped
       /\ \A r \in Raws : r # 1 => slots'[s].raw[r] = slots[s].raw[r]

\* A frame's begin and end and the game's calls keep the occupants.
LEMMA FrameKeeps ==
  ASSUME Inv, BeginUpdate \/ NextBackend \/ EndUpdate \/ GameCall \/ UNCHANGED vars
  PROVE  Keeps
<1>1. LiveSlots' = LiveSlots
  <2>1. OtherStep
    BY DEF OtherStep
  <2> QED BY <2>1, OthersKeepRoster, SameOccupantsSameIds
<1>2. LiveSlots \subseteq DOMAIN slots /\ \A s \in DOMAIN slots : slots[s] \in Devices
  BY SlotsAreDevices DEF LiveSlots
<1>3. \A d \in Devices : /\ Remembered(d).id = d.id /\ Remembered(d).backend_mapped = d.backend_mapped
                         /\ Remembered(d).raw = d.raw
  BY DEF Remembered, Devices
<1>4. \A d \in Devices : /\ Applied(d).id = d.id /\ Applied(d).backend_mapped = d.backend_mapped
                         /\ Applied(d).raw = d.raw
  BY DEF Applied, Devices
<1>5. \A tbl : \A d \in Devices :
        /\ Resolved(d, tbl).id = d.id /\ Resolved(d, tbl).raw = d.raw
        /\ Resolved(d, tbl).backend_mapped = d.backend_mapped
  BY DEF Resolved, Devices
<1>6. CASE BeginUpdate
  <2>1. slots' = [s \in DOMAIN slots |-> IF slots[s].live THEN Remembered(slots[s]) ELSE slots[s]]
    BY <1>6 DEF BeginUpdate
  <2> QED BY <1>1, <1>2, <1>3, <2>1 DEF Keeps
<1>7. CASE EndUpdate
  <2>1. slots' = [s \in DOMAIN slots |-> Applied(slots[s])]
    BY <1>7 DEF EndUpdate
  <2> QED BY <1>1, <1>2, <1>4, <2>1 DEF Keeps
<1>8. ASSUME NEW text \in Texts, AddMappings(text) PROVE Keeps
  <2> DEFINE tbl == AddMany(table, text)
  <2>1. slots' = [s \in DOMAIN slots |-> IF slots[s].live THEN Resolved(slots[s], tbl) ELSE slots[s]]
    BY <1>8 DEF AddMappings, Refreshed
  <2> HIDE DEF tbl
  <2> QED BY <1>1, <1>2, <1>5, <2>1 DEF Keeps
<1>9. CASE slots' = slots
  BY <1>1, <1>9 DEF Keeps
<1>10. NextBackend \/ UNCHANGED vars \/ (\E c \in Configs : SetConfig(c)) => slots' = slots
  BY DEF NextBackend, SetConfig, vars
<1> QED BY <1>6, <1>7, <1>8, <1>9, <1>10 DEF GameCall

\* With the same occupants and each pad as it was announced, the slots are
\* whose they were.
LEMMA SameTenancy ==
  ASSUME PadsTypeOK, Tenancy, Keeps, DOMAIN pads' = DOMAIN pads,
         \A i \in DOMAIN pads : /\ pads'[i].announced = pads[i].announced
                                /\ pads'[i].slot = pads[i].slot
                                /\ pads'[i].device_id = pads[i].device_id
                                /\ pads'[i].spec = pads[i].spec
                                /\ pads'[i].present => pads[i].present,
         LeftOver => \A i \in DOMAIN pads : pads[i].announced => cursor' <= i
  PROVE  Tenancy'
<1>1. Owned'
  BY DEF Tenancy, Owned, Keeps
<1>2. CASE Settled
  <2>1. \A i \in DOMAIN pads : Matched(pads[i]) => Matched(pads[i])'
    BY DEF Matched, Keeps
  <2> QED BY <1>1, <1>2, <2>1 DEF Tenancy, Settled
<1>3. CASE LeftOver
  <2>1. LeftOver'
    BY <1>3 DEF LeftOver, Keeps
  <2> QED BY <1>1, <2>1 DEF Tenancy
<1> QED BY <1>2, <1>3 DEF Tenancy

\* A visit to a pad that is there or was never announced.
LEMMA PresentAbsentTenancy ==
  ASSUME Inv, PadsTypeOK, Tenancy, Visit, VisitPresent \/ VisitAbsent
  PROVE  Tenancy'
<1>1. /\ cursor \in DOMAIN pads /\ pads[cursor] \in Pads
      /\ pads' = pads /\ cursor' = cursor + 1 /\ cursor \in Nat /\ DOMAIN pads \subseteq Nat
  BY VisitIsPolling, PadsArePads DEF VisitPresent, VisitAbsent
<1>2. \A s \in DOMAIN slots : slots[s] \in Devices
  BY SlotsAreDevices
<1>3. LeftOver => \A i \in DOMAIN pads : pads[i].announced => cursor' <= i
  <2>1. LeftOver => ~pads[cursor].announced
    BY <1>1 DEF LeftOver, VisitPresent, VisitAbsent, Leaves
  <2> QED BY <1>1, <2>1 DEF LeftOver
<1>4. Keeps
  <2>1. CASE UNCHANGED vars
    BY <2>1 DEF Keeps, vars, LiveSlots
  <2>2. ASSUME NEW s, NEW v, SetOutput(s, 1, v) \/ SetRaw(s, 1, v) PROVE Keeps
    <3>1. s \in DOMAIN slots
      BY <2>2 DEF SetOutput, SetRaw, Holds, Live
    <3>2. DOMAIN slots' = DOMAIN slots /\ \A r \in DOMAIN slots :
            /\ slots'[r].live = slots[r].live /\ slots'[r].id = slots[r].id
            /\ slots'[r].backend_mapped = slots[r].backend_mapped
            /\ \A k \in Raws : k # 1 => slots'[r].raw[k] = slots[r].raw[k]
      <4>1. CASE SetOutput(s, 1, v)
        BY <1>2, <3>1, <4>1 DEF SetOutput, Devices
      <4>2. CASE SetRaw(s, 1, v)
        BY <1>2, <3>1, <4>2 DEF SetRaw, Devices
      <4> QED BY <2>2, <4>1, <4>2
    <3> QED BY <3>2 DEF Keeps, LiveSlots
  <2> QED BY <2>1, <2>2 DEF VisitPresent, VisitAbsent
<1> QED BY <1>1, <1>3, <1>4, SameTenancy

\* A visit to a pad that has to leave: it gives up its slot.
LEMMA LeavingTenancy ==
  ASSUME Inv, PadsTypeOK, Tenancy, Visit, VisitLeaving
  PROVE  Tenancy'
<1> DEFINE s == pads[cursor].slot
<1>1. /\ cursor \in DOMAIN pads /\ pads[cursor] \in Pads
      /\ pads' = [pads EXCEPT ![cursor] = Forgotten(pads[cursor])]
      /\ cursor' = cursor + 1 /\ cursor \in Nat /\ DOMAIN pads \subseteq Nat
      /\ pads[cursor].announced
  BY VisitIsPolling, PadsArePads DEF VisitLeaving, Leaves
<1>2. /\ DOMAIN pads' = DOMAIN pads
      /\ \A i \in DOMAIN pads : i # cursor => pads'[i] = pads[i]
      /\ ~pads'[cursor].announced /\ ~(pads'[cursor].present /\ ~pads[cursor].present)
  BY <1>1, PadsArePads DEF Forgotten, Pads
<1>3. CASE Live(s)
  <2>1. RemoveDevice(s) /\ s \in DOMAIN slots
    BY <1>3 DEF VisitLeaving, Live
  <2>2. LiveSlots' = LiveSlots \ {s} /\ \A r \in LiveSlots' : slots'[r] = slots[r]
    <3> HIDE DEF s
    <3> QED BY <2>1, DepartureProperties
  <2>3. Settled
    BY <1>3 DEF Tenancy, LeftOver, Live, LiveSlots
  <2>4. \A i \in DOMAIN pads : i # cursor /\ pads[i].announced => pads[i].slot # s
    BY <1>1, <2>3 DEF Settled
  <2>5. \A i \in DOMAIN pads' : pads'[i].announced => i # cursor /\ Matched(pads[i])'
    <3> TAKE i \in DOMAIN pads'
    <3> HAVE pads'[i].announced
    <3>1. i # cursor /\ pads'[i] = pads[i] /\ Matched(pads[i])
      BY <1>2, <2>3 DEF Settled
    <3>2. pads[i].slot \in LiveSlots' /\ slots'[pads[i].slot] = slots[pads[i].slot]
      BY <1>2, <2>2, <2>4, <3>1 DEF Matched
    <3> QED BY <3>1, <3>2 DEF Matched
  <2>6. Settled'
    BY <1>2, <2>3, <2>5 DEF Settled
  <2>7. Owned'
    <3> SUFFICES ASSUME NEW r \in LiveSlots'
                 PROVE  \E i \in DOMAIN pads' : pads'[i].announced /\ pads'[i].slot = r
      BY DEF Owned
    <3>1. PICK i \in DOMAIN pads : pads[i].announced /\ pads[i].slot = r
      BY <2>2 DEF Tenancy, Owned
    <3>2. i # cursor
      BY <2>2, <3>1
    <3> QED BY <1>2, <3>1, <3>2
  <2> QED BY <2>6, <2>7 DEF Tenancy
<1>4. CASE ~Live(s)
  <2>1. slots' = slots /\ LiveSlots' = LiveSlots
    BY <1>4 DEF VisitLeaving, vars, LiveSlots
  <2>2. ~Settled
    BY <1>1, <1>4 DEF Settled, Matched, Live, LiveSlots
  <2>3. LeftOver /\ LiveSlots = {}
    BY <2>2 DEF Tenancy, LeftOver
  <2>4. Owned'
    BY <2>1, <2>3 DEF Owned
  <2>5. \A i \in DOMAIN pads' : pads'[i].announced =>
          /\ ~pads'[i].present /\ cursor' <= i
          /\ \A j \in DOMAIN pads' : pads'[j].present => i < j
    <3> TAKE i \in DOMAIN pads'
    <3> HAVE pads'[i].announced
    <3>1. i # cursor /\ i \in DOMAIN pads /\ pads'[i] = pads[i] /\ pads[i].announced
      BY <1>2
    <3>2. ~pads[i].present /\ cursor <= i /\ \A j \in DOMAIN pads : pads[j].present => i < j
      BY <2>3, <3>1 DEF LeftOver
    <3>3. \A j \in DOMAIN pads' : pads'[j].present => pads[j].present
      BY <1>2
    <3> QED BY <1>1, <1>2, <3>1, <3>2, <3>3
  <2>6. LeftOver'
    BY <2>1, <2>3, <2>5 DEF LeftOver
  <2> QED BY <2>4, <2>6 DEF Tenancy
<1> QED BY <1>3, <1>4

\* A pad that is there is nobody's left-over, so nothing announced is.
LEMMA PresentIsSettled ==
  ASSUME PadsTypeOK, Tenancy, NEW i \in DOMAIN pads, pads[i].present, i <= cursor
  PROVE  Settled
<1>1. CASE LeftOver
  <2>1. \A j \in DOMAIN pads : ~pads[j].announced
    BY <1>1, PadsArePads DEF LeftOver
  <2> QED BY <2>1 DEF Settled
<1> QED BY <1>1 DEF Tenancy

\* A visit to a new pad: it gets a slot that was nobody's, or none.
LEMMA ArrivingTenancy ==
  ASSUME Inv, PadsTypeOK, Tenancy, Visit, VisitArriving
  PROVE  Settled' /\ Owned'
<1> DEFINE pad == pads[cursor]
<1>1. /\ cursor \in DOMAIN pads /\ pad \in Pads /\ DOMAIN pads = 1..Len(pads)
      /\ cursor \in Nat /\ DOMAIN pads \subseteq Nat
      /\ pad.present /\ ~pad.announced /\ AddDevice(pad.spec) /\ pad.spec \in Descriptions
      /\ next_id \in Nat \ {0}
  BY VisitIsPolling, PadsArePads DEF VisitArriving, Pads, Inv, TableTypeOK
<1>2. /\ FreeSlot \notin LiveSlots
      /\ \A s \in LiveSlots : s \in LiveSlots' /\ slots'[s] = slots[s]
      /\ Wanted(pad.spec) => /\ LiveSlots' = LiveSlots \cup {FreeSlot}
                             /\ slots'[FreeSlot] = NewDevice(pad.spec)
      /\ ~Wanted(pad.spec) => LiveSlots' = LiveSlots
      /\ slots'[FreeSlot].live <=> Wanted(pad.spec)
  BY <1>1, AdmittedProperties
<1>3. pads' = [pads EXCEPT ![cursor] = Announced(pad, IF slots'[FreeSlot].live THEN next_id ELSE 0)]
  BY DEF VisitArriving
<1>4. Settled /\ Owned
  BY <1>1, PresentIsSettled DEF Tenancy
<1>5. CASE ~Wanted(pad.spec)
  <2>1. pads' = pads
    BY <1>1, <1>2, <1>3, <1>5, PadsArePads DEF Announced
  <2>2. \A i \in DOMAIN pads : Matched(pads[i]) => Matched(pads[i])'
    BY <1>2, <2>1 DEF Matched
  <2> QED BY <1>2, <1>4, <1>5, <2>1, <2>2 DEF Settled, Owned
<1>6. CASE Wanted(pad.spec)
  <2> DEFINE new == [pad EXCEPT !.announced = TRUE, !.slot = FreeSlot, !.device_id = next_id]
  <2>1. pads' = [pads EXCEPT ![cursor] = new]
    BY <1>1, <1>2, <1>3, <1>6 DEF Announced
  <2>2. new.announced /\ new.slot = FreeSlot /\ new.device_id = next_id /\ new.spec = pad.spec
    BY <1>1 DEF Pads
  <2> HIDE DEF new
  <2>3. /\ DOMAIN pads' = DOMAIN pads /\ pads'[cursor] = new
        /\ \A i \in DOMAIN pads : i # cursor => pads'[i] = pads[i]
    BY <1>1, <2>1
  <2>4. /\ FreeSlot \in LiveSlots' /\ slots'[FreeSlot].id = next_id
        /\ slots'[FreeSlot].backend_mapped = pad.spec.backend_mapped
        /\ \A r \in Raws : slots'[FreeSlot].raw[r] = 0
    <3>1. NewDevice(pad.spec).id = next_id
      BY <1>1, NewDeviceProperties DEF AddDevice
    <3> QED BY <1>1, <1>2, <1>6, <3>1, NewDeviceFields
  <2>5. ASSUME NEW i \in DOMAIN pads, i = cursor PROVE Matched(pads[i])'
    BY <2>2, <2>3, <2>4, <2>5 DEF Matched
  <2>6. ASSUME NEW i \in DOMAIN pads, i # cursor, pads[i].announced
        PROVE  Matched(pads[i])' /\ pads'[i].slot # FreeSlot
    BY <1>2, <1>4, <2>3, <2>6 DEF Matched, Settled
  <2>7. Settled'
    <3>1. \A i \in DOMAIN pads' : pads'[i].announced => Matched(pads[i])'
      <4> SUFFICES ASSUME NEW i \in DOMAIN pads', pads'[i].announced PROVE Matched(pads[i])'
        OBVIOUS
      <4> QED BY <2>3, <2>5, <2>6
    <3>2. ASSUME NEW i \in DOMAIN pads', NEW j \in DOMAIN pads', pads'[i].announced,
                 pads'[j].announced, pads'[i].slot = pads'[j].slot
          PROVE  i = j
      BY <1>4, <2>2, <2>3, <2>6, <3>2 DEF Settled
    <3> QED BY <3>1, <3>2 DEF Settled
  <2>8. Owned'
    <3> SUFFICES ASSUME NEW s \in LiveSlots'
                 PROVE  \E i \in DOMAIN pads' : pads'[i].announced /\ pads'[i].slot = s
      BY DEF Owned
    <3>1. CASE s = FreeSlot
      BY <1>1, <2>2, <2>3, <3>1
    <3>2. CASE s # FreeSlot
      <4>1. PICK i \in DOMAIN pads : pads[i].announced /\ pads[i].slot = s
        BY <1>2, <1>4, <1>6, <3>2 DEF Owned
      <4> QED BY <1>1, <2>3, <4>1
    <3> QED BY <3>1, <3>2
  <2> QED BY <2>7, <2>8
<1> QED BY <1>5, <1>6

\* The sweep finds nothing left over, and who stays keeps its slot.
LEMMA SweepTenancy ==
  ASSUME Inv, PadsTypeOK, Tenancy, Sweep
  PROVE  Settled' /\ Owned'
<1>1. slots' = slots /\ LiveSlots' = LiveSlots
  BY DEF Sweep, NextBackend, LiveSlots
<1>2. PICK n, kept :
        /\ n \in Nat /\ kept \in [1..n -> Staying]
        /\ \A i \in Staying : \E j \in 1..n : kept[j] = i
        /\ \A j, k \in 1..n : j < k => kept[j] < kept[k]
        /\ DOMAIN pads' = 1..n
        /\ \A j \in 1..n : pads'[j] = pads[kept[j]]
  BY SweptPads
<1>3. \A j \in 1..n : kept[j] \in DOMAIN pads /\ kept[j] \in Nat
  BY <1>2, PadsArePads DEF Staying
<1>4. \A j, k \in 1..n : kept[j] = kept[k] => j = k
  <2> SUFFICES ASSUME NEW j \in 1..n, NEW k \in 1..n, kept[j] = kept[k] PROVE j = k
    OBVIOUS
  <2>1. ~(j < k) /\ ~(k < j)
    BY <1>2, <1>3
  <2> QED BY <1>2, <2>1
<1>5. Settled
  <2>1. CASE LeftOver
    <3>1. \A i \in DOMAIN pads : ~pads[i].announced
      BY <2>1, PadsArePads DEF LeftOver, Sweep
    <3> QED BY <3>1 DEF Settled
  <2> QED BY <2>1 DEF Tenancy
<1>6. \A j \in 1..n : pads'[j].announced => Matched(pads[j])'
  <2> SUFFICES ASSUME NEW j \in 1..n, pads'[j].announced PROVE Matched(pads[j])'
    OBVIOUS
  <2>1. Matched(pads[kept[j]])
    BY <1>2, <1>3, <1>5 DEF Settled
  <2> QED BY <1>1, <1>2, <2>1 DEF Matched
<1>7. Settled'
  <2>1. \A j, k \in 1..n :
          pads'[j].announced /\ pads'[k].announced /\ pads'[j].slot = pads'[k].slot => j = k
    <3> SUFFICES ASSUME NEW j \in 1..n, NEW k \in 1..n, pads'[j].announced, pads'[k].announced,
                        pads'[j].slot = pads'[k].slot
                 PROVE  j = k
      OBVIOUS
    <3>1. kept[j] = kept[k]
      BY <1>2, <1>3, <1>5 DEF Settled
    <3> QED BY <1>4, <3>1
  <2> QED BY <1>2, <1>6, <2>1 DEF Settled
<1>8. Owned'
  <2> SUFFICES ASSUME NEW s \in LiveSlots'
               PROVE  \E j \in DOMAIN pads' : pads'[j].announced /\ pads'[j].slot = s
    BY DEF Owned
  <2>1. PICK i \in DOMAIN pads : pads[i].announced /\ pads[i].slot = s
    BY <1>1 DEF Tenancy, Owned
  <2>2. PICK j \in 1..n : kept[j] = i
    BY <1>2, <2>1 DEF Staying
  <2> QED BY <1>2, <2>1, <2>2
<1> QED BY <1>7, <1>8

\* What a test does between two frames.
LEMMA TestTenancy ==
  ASSUME Inv, PadsTypeOK, Tenancy, RemoveAllFirst, TestCall
  PROVE  Tenancy'
<1>1. /\ pads \in Seq(Pads) /\ Len(pads) \in Nat /\ DOMAIN pads = 1..Len(pads)
      /\ \A i \in DOMAIN pads : pads[i] \in Pads
      /\ cursor = 1
  BY PadsArePads DEF PadsTypeOK, TestCall
<1>2. CASE UNCHANGED vars /\ cursor' = cursor /\ \E i \in DOMAIN pads, pad \in Pads :
             /\ pads' = [pads EXCEPT ![i] = pad] /\ pad.announced = pads[i].announced
             /\ pad.slot = pads[i].slot /\ pad.device_id = pads[i].device_id
             /\ pad.spec = pads[i].spec /\ (pad.present => pads[i].present)
  <2>1. Keeps
    BY <1>2, FrameKeeps
  <2>2. LeftOver => \A i \in DOMAIN pads : pads[i].announced => cursor' <= i
    BY <1>2 DEF LeftOver
  <2>3. /\ DOMAIN pads' = DOMAIN pads
        /\ \A i \in DOMAIN pads : /\ pads'[i].announced = pads[i].announced
                                  /\ pads'[i].slot = pads[i].slot
                                  /\ pads'[i].device_id = pads[i].device_id
                                  /\ pads'[i].spec = pads[i].spec
                                  /\ pads'[i].present => pads[i].present
    BY <1>1, <1>2
  <2> QED BY <2>1, <2>2, <2>3, SameTenancy
<1>3. ASSUME NEW spec \in Descriptions, AddPad(spec) PROVE Tenancy'
  <2>1. NewPad(spec) \in Pads /\ NewPad(spec).announced = FALSE
    BY ContextAssumption DEF NewPad, Pads
  <2>2. /\ pads' \in Seq(Pads) /\ Len(pads') = Len(pads) + 1
        /\ \A i \in 1..Len(pads) : pads'[i] = pads[i]
        /\ pads'[Len(pads) + 1] = NewPad(spec)
    BY <1>1, <1>3, <2>1, AppendProperties DEF AddPad
  <2>3. DOMAIN pads' = 1..(Len(pads) + 1)
    BY <2>2, LenProperties
  <2>4. \A i \in DOMAIN pads' : pads'[i].announced => i \in DOMAIN pads /\ pads'[i] = pads[i]
    BY <1>1, <2>1, <2>2, <2>3
  <2>5. slots' = slots /\ LiveSlots' = LiveSlots /\ cursor' = cursor
    BY <1>3 DEF AddPad, vars, LiveSlots
  <2>6. Owned'
    BY <1>1, <2>2, <2>3, <2>5 DEF Tenancy, Owned
  <2>7. CASE Settled
    <3>1. \A i \in DOMAIN pads' : pads'[i].announced => Matched(pads[i])'
      <4> SUFFICES ASSUME NEW i \in DOMAIN pads', pads'[i].announced PROVE Matched(pads[i])'
        OBVIOUS
      <4>1. Matched(pads[i]) /\ pads'[i] = pads[i]
        BY <2>4, <2>7 DEF Settled
      <4> QED BY <2>5, <4>1 DEF Matched
    <3>2. Settled'
      BY <2>4, <2>7, <3>1 DEF Settled
    <3> QED BY <2>6, <3>2 DEF Tenancy
  <2>8. CASE LeftOver
    <3>1. ASSUME NEW i \in DOMAIN pads', pads'[i].announced
          PROVE  /\ ~pads'[i].present /\ cursor' <= i
                 /\ \A j \in DOMAIN pads' : pads'[j].present => i < j
      <4>1. i \in DOMAIN pads /\ pads'[i] = pads[i]
        BY <2>4, <3>1
      <4>2. ~pads[i].present /\ cursor <= i /\ \A j \in DOMAIN pads : pads[j].present => i < j
        BY <2>8, <3>1, <4>1 DEF LeftOver
      <4>3. \A j \in DOMAIN pads' : (j \in DOMAIN pads /\ pads'[j] = pads[j]) \/ j = Len(pads) + 1
        BY <1>1, <2>2, <2>3
      <4> QED BY <1>1, <2>5, <4>1, <4>2, <4>3
    <3>2. LeftOver'
      BY <2>5, <2>8, <3>1 DEF LeftOver
    <3> QED BY <2>6, <3>2 DEF Tenancy
  <2> QED BY <2>7, <2>8 DEF Tenancy
<1>4. ASSUME NEW i \in DOMAIN pads, RemovePad(i) PROVE Tenancy'
  <2> DEFINE pad == [pads[i] EXCEPT !.present = FALSE]
  <2>1. /\ pad \in Pads /\ pad.announced = pads[i].announced /\ pad.slot = pads[i].slot
        /\ pad.device_id = pads[i].device_id /\ pad.spec = pads[i].spec /\ ~pad.present
    BY <1>1 DEF Pads
  <2>2. pads' = [pads EXCEPT ![i] = pad] /\ UNCHANGED vars /\ cursor' = cursor
    BY <1>4 DEF RemovePad
  <2> HIDE DEF pad
  <2> QED BY <1>2, <2>1, <2>2
<1>5. ASSUME NEW i \in DOMAIN pads, NEW v \in Values, SetInput(i, v) PROVE Tenancy'
  <2> DEFINE pad == [pads[i] EXCEPT !.input = v]
  <2>1. /\ pad \in Pads /\ pad.announced = pads[i].announced /\ pad.slot = pads[i].slot
        /\ pad.device_id = pads[i].device_id /\ pad.spec = pads[i].spec
        /\ pad.present = pads[i].present
    BY <1>1 DEF Pads
  <2>2. pads' = [pads EXCEPT ![i] = pad] /\ UNCHANGED vars /\ cursor' = cursor
    BY <1>5 DEF SetInput
  <2> HIDE DEF pad
  <2> QED BY <1>2, <2>1, <2>2
<1>6. CASE RemakeContext
  <2>1. pads' = [i \in DOMAIN pads |-> [pads[i] EXCEPT !.present = FALSE]] /\ cursor' = 1
    BY <1>1, <1>6 DEF RemakeContext, AllRemoved
  <2>2. DOMAIN pads' = DOMAIN pads /\ \A i \in DOMAIN pads' : ~pads'[i].present /\ cursor' <= i
    BY <1>1, <2>1 DEF Pads
  <2>3. LiveSlots' = {}
    BY <1>6 DEF RemakeContext, NewContext, LiveSlots
  <2>4. LeftOver' /\ Owned'
    BY <2>2, <2>3 DEF LeftOver, Owned
  <2> QED BY <2>4 DEF Tenancy
<1> QED BY <1>3, <1>4, <1>5, <1>6 DEF TestCall

\* Every step keeps the slots with their pads.
LEMMA TenancyKept ==
  ASSUME Inv, PadsTypeOK, Tenancy, RemoveAllFirst, [PadsNext]_padVars
  PROVE  Tenancy'
<1>1. CASE Visit
  BY <1>1, PresentAbsentTenancy, LeavingTenancy, ArrivingTenancy DEF Visit, Tenancy
<1>2. CASE UNCHANGED <<pads, cursor>> /\
           (BeginUpdate \/ NextBackend \/ EndUpdate \/ GameCall \/ UNCHANGED vars)
  <2>1. Keeps
    BY <1>2, FrameKeeps
  <2>2. LeftOver => \A i \in DOMAIN pads : pads[i].announced => cursor' <= i
    BY <1>2 DEF LeftOver
  <2> QED BY <1>2, <2>1, <2>2, SameTenancy
<1>3. (BeginFrame \/ EndUpdate \/ GameCall) /\ UNCHANGED <<registry, cursor>> => Tenancy'
  BY <1>2 DEF BeginFrame, registry
<1>4. UNCHANGED padVars => Tenancy'
  BY <1>2 DEF padVars
<1> QED BY <1>1, <1>3, <1>4, TestTenancy, SweepTenancy DEF PadsNext, Tenancy
-----------------------------------------------------------------------------
(* what poll() has seen to *)

\* A visit leaves the device of every pad it has passed as it is.
LEMMA PassedSlots ==
  ASSUME Inv, PadsTypeOK, Tenancy, Visit,
         NEW i \in DOMAIN pads, i < cursor, pads[i].announced
  PROVE  Matched(pads[i]) /\ slots'[pads[i].slot] = slots[pads[i].slot]
<1>1. cursor \in DOMAIN pads /\ pads[cursor] \in Pads /\ cursor \in Nat /\ DOMAIN pads \subseteq Nat
  BY VisitIsPolling, PadsArePads
<1>2. Settled
  BY <1>1 DEF Tenancy, LeftOver
<1>3. /\ Matched(pads[i]) /\ pads[i].slot \in LiveSlots
      /\ pads[cursor].announced => pads[i].slot # pads[cursor].slot
  BY <1>1, <1>2 DEF Settled, Matched
<1>4. LiveSlots \subseteq DOMAIN slots
  BY DEF LiveSlots
<1>5. CASE VisitLeaving
  <2>1. CASE UNCHANGED vars
    BY <1>3, <2>1 DEF vars
  <2>2. CASE RemoveDevice(pads[cursor].slot)
    <3>1. pads[cursor].announced
      BY <1>5 DEF VisitLeaving, Leaves
    <3>2. slots' = [slots EXCEPT ![pads[cursor].slot].live = FALSE, ![pads[cursor].slot].backend = 0]
      BY <2>2 DEF RemoveDevice
    <3> QED BY <1>3, <1>4, <3>1, <3>2
  <2> QED BY <1>5, <2>1, <2>2 DEF VisitLeaving
<1>6. CASE VisitArriving
  <2>1. AddDevice(pads[cursor].spec) /\ pads[cursor].spec \in Descriptions
    BY <1>1, <1>6 DEF VisitArriving, Pads
  <2> QED BY <1>3, <2>1, AdmittedProperties
<1>7. CASE VisitPresent
  <2>1. pads[cursor].announced
    BY <1>7 DEF VisitPresent
  <2>2. \/ UNCHANGED vars
        \/ SetOutput(pads[cursor].slot, 1, pads[cursor].input)
        \/ SetRaw(pads[cursor].slot, 1, pads[cursor].input)
    BY <1>7 DEF VisitPresent
  <2> QED BY <1>3, <1>4, <2>1, <2>2 DEF SetOutput, SetRaw, vars
<1>8. CASE VisitAbsent
  BY <1>3, <1>8 DEF VisitAbsent, vars
<1> QED BY <1>3, <1>5, <1>6, <1>7, <1>8 DEF Visit

\* No call of poll() changes what the Context would keep.
LEMMA VisitKeepsWelcome ==
  ASSUME Visit
  PROVE  table' = table /\ config' = config
BY DEF Visit, VisitLeaving, VisitArriving, VisitPresent, VisitAbsent, RemoveDevice, AddDevice,
       SetOutput, SetRaw, vars

\* A pad that was served stays so while the others are.
LEMMA PassedStaysServed ==
  ASSUME Inv, PadsTypeOK, Tenancy, Visit,
         NEW i \in DOMAIN pads, i < cursor, Served(pads[i])
  PROVE  pads'[i] = pads[i] /\ Served(pads[i])'
<1>1. pads'[i] = pads[i]
  <2>1. PICK pad \in Pads : pads' = [pads EXCEPT ![cursor] = pad]
    BY VisitEffect
  <2>2. i # cursor
    BY PadsArePads
  <2> QED BY <2>1, <2>2
<1>2. Welcome(pads[i])' <=> Welcome(pads[i])
  BY <1>1, VisitKeepsWelcome DEF Welcome
<1>3. pads[i].announced => (Shows(pads[i]) => Shows(pads[i])')
  BY <1>1, PassedSlots DEF Shows
<1> QED BY <1>1, <1>2, <1>3 DEF Served

\* The pad a visit is at is served when the cursor moves on.
LEMMA VisitServes ==
  ASSUME Inv, PadsTypeOK, Tenancy, Visit, NEW i \in DOMAIN pads, i = cursor, cursor' = cursor + 1
  PROVE  Served(pads[i])'
<1> DEFINE pad == pads[i]
<1>1. i \in Nat /\ pad \in Pads
  BY PadsArePads
<1>2. CASE VisitLeaving
  <2>1. pads'[i] = Forgotten(pad) /\ ~pad.present
    BY <1>2 DEF VisitLeaving, Leaves
  <2>2. ~Forgotten(pad).announced /\ Forgotten(pad).present = pad.present
    BY <1>1 DEF Forgotten, Pads
  <2> QED BY <2>1, <2>2 DEF Served
<1>3. CASE VisitArriving
  <2>1. /\ AddDevice(pad.spec) /\ pad.spec \in Descriptions /\ pad.present /\ ~pad.announced
        /\ pads'[i] = Announced(pad, IF slots'[FreeSlot].live THEN next_id ELSE 0)
        /\ cursor' = IF slots'[FreeSlot].live THEN cursor ELSE cursor + 1
    BY <1>1, <1>3 DEF VisitArriving, Pads, AfterArrival
  <2>2. ~slots'[FreeSlot].live
    BY <1>1, <2>1
  <2>3. ~Wanted(pad.spec)
    BY <2>1, <2>2, AdmittedProperties
  <2>4. pads'[i] = pad
    BY <2>1, <2>2 DEF Announced
  <2>5. ~Welcome(pads[i])'
    BY <2>3, <2>4, VisitKeepsWelcome DEF Wanted, Welcome
  <2> QED BY <2>1, <2>4, <2>5 DEF Served
<1>4. CASE VisitPresent
  <2>1. pad.present /\ pad.announced /\ pads' = pads
    BY <1>4 DEF VisitPresent
  <2>2. Settled
    BY <1>1, <2>1, PresentIsSettled
  <2>3. /\ pad.slot \in LiveSlots /\ pad.slot \in DOMAIN slots
        /\ slots[pad.slot].backend_mapped = pad.spec.backend_mapped
        /\ slots[pad.slot] \in Devices
    BY <2>1, <2>2, SlotsAreDevices DEF Settled, Matched, LiveSlots
  <2>4. IF pad.spec.backend_mapped THEN SetOutput(pad.slot, 1, pad.input)
        ELSE SetRaw(pad.slot, 1, pad.input)
    BY <1>4, <2>3 DEF VisitPresent, Live, LiveSlots
  <2>5. Shows(pads[i])'
    BY <2>1, <2>3, <2>4, VirtualAssumption DEF SetOutput, SetRaw, Shows, Devices
  <2> QED BY <2>1, <2>5 DEF Served
<1>5. CASE VisitAbsent
  BY <1>5 DEF VisitAbsent, Leaves, Served
<1> QED BY <1>2, <1>3, <1>4, <1>5 DEF Visit

\* Every step keeps count of what poll() has seen to.
LEMMA PollProgressKept ==
  ASSUME Inv, PadsTypeOK, Tenancy, PollProgress, [PadsNext]_padVars
  PROVE  PollProgress'
<1>1. DOMAIN pads = 1..Len(pads) /\ Len(pads) \in Nat /\ cursor \in 1..(Len(pads) + 1)
  BY PadsArePads DEF PadsTypeOK
<1>2. CASE current_backend' = 0
  BY <1>2 DEF PollProgress
<1>3. TestCall \/ EndUpdate \/ GameCall => current_backend' = 0
  BY DEF TestCall, AddPad, RemovePad, SetInput, RemakeContext, NewContext, EndUpdate, GameCall,
         AddMappings, SetConfig, vars
<1>4. CASE Visit
  <2>1. current_backend = 1 /\ current_backend' = 1 /\ cursor \in DOMAIN pads
    BY <1>4, VisitIsPolling
  <2>2. PICK pad \in Pads : pads' = [pads EXCEPT ![cursor] = pad] /\ cursor' \in {cursor, cursor + 1}
    BY <1>4, VisitEffect
  <2>3. DOMAIN pads' = DOMAIN pads
    BY <1>1, <2>2
  <2>4. ASSUME NEW i \in DOMAIN pads', i < cursor' PROVE Served(pads[i])'
    <3>1. CASE i < cursor
      <4>1. Served(pads[i])
        BY <2>1, <2>3, <3>1 DEF PollProgress
      <4> QED BY <1>4, <2>3, <3>1, <4>1, PassedStaysServed
    <3>2. CASE i >= cursor
      <4>1. i = cursor /\ cursor' = cursor + 1
        BY <1>1, <2>2, <2>3, <2>4, <3>2
      <4> QED BY <1>4, <2>3, <4>1, VisitServes
    <3> QED BY <1>1, <2>3, <3>1, <3>2
  <2> QED BY <2>1, <2>4 DEF PollProgress
<1>5. CASE Sweep
  <2>1. current_backend = 1 /\ current_backend' = 2
    BY <1>5, VirtualAssumption DEF Sweep, NextBackend, Polling
  <2>2. PICK n, kept :
          /\ n \in Nat /\ kept \in [1..n -> Staying] /\ DOMAIN pads' = 1..n
          /\ \A j \in 1..n : pads'[j] = pads[kept[j]]
    BY <1>5, SweptPads
  <2>3. UNCHANGED <<slots, table, config>> /\ cursor = Len(pads) + 1
    BY <1>5 DEF Sweep, NextBackend
  <2>4. ASSUME NEW j \in DOMAIN pads' PROVE pads'[j].present /\ Served(pads[j])'
    <3>1. kept[j] \in DOMAIN pads /\ kept[j] < cursor /\ pads'[j] = pads[kept[j]]
          /\ (pads[kept[j]].present \/ pads[kept[j]].announced)
      BY <1>1, <2>2, <2>3 DEF Staying
    <3>2. Served(pads[kept[j]])
      BY <2>1, <3>1 DEF PollProgress
    <3>3. pads'[j].present
      BY <3>1, <3>2 DEF Served
    <3>4. Served(pads[j])'
      BY <2>3, <3>1, <3>2 DEF Served, Shows, Welcome
    <3> QED BY <3>3, <3>4
  <2> QED BY <2>1, <2>4 DEF PollProgress
<1>6. CASE BeginFrame /\ UNCHANGED <<registry, cursor>>
  <2>1. current_backend' = 1 /\ cursor' = 1 /\ pads' = pads
    BY <1>6 DEF BeginFrame, BeginUpdate, registry, PadsTypeOK
  <2> QED BY <1>1, <2>1 DEF PollProgress
<1>7. CASE UNCHANGED padVars
  <2>1. \A i \in DOMAIN pads : Served(pads[i]) => Served(pads[i])'
    BY <1>7 DEF padVars, vars, Served, Shows, Welcome
  <2> QED BY <1>7, <2>1 DEF padVars, vars, PollProgress
<1> QED BY <1>2, <1>3, <1>4, <1>5, <1>6, <1>7 DEF PadsNext
-----------------------------------------------------------------------------
(* the theorems *)

\* An empty registry beside a new Context.
LEMMA InitPads == PadsInit => Inv /\ PadsInv
<1> SUFFICES ASSUME PadsInit PROVE Inv /\ PadsInv
  OBVIOUS
<1>1. Inv
  BY InitInv DEF PadsInit
<1>2. pads = <<>> /\ pads \in Seq(Pads) /\ DOMAIN pads = {} /\ Len(pads) = 0 /\ cursor = 1
      /\ current_backend = 0 /\ slots = <<>>
  BY DEF PadsInit, Init
<1>3. LiveSlots = {}
  BY <1>2 DEF LiveSlots
<1>4. PadsTypeOK
  BY <1>2 DEF PadsTypeOK
<1>5. Tenancy
  BY <1>2, <1>3 DEF Tenancy, Settled, Owned
<1>6. PollProgress
  BY <1>2 DEF PollProgress
<1> QED BY <1>1, <1>4, <1>5, <1>6 DEF PadsInv

\* The registry keeps its types whatever the tests and the frames do, and
\* device_id() is no device for exactly the pads that were not announced or
\* were told to leave; also when a Context finds pads of the one before.
THEOREM PadsAreWellTyped == PadsSpec => []PadsTypeOK
<1>1. PadsInit => Inv /\ PadsTypeOK
  BY InitPads DEF PadsInv
<1>2. Inv /\ PadsTypeOK /\ [PadsNext]_padVars => Inv' /\ PadsTypeOK'
  BY ContextInvKept, RegistryTypesKept
<1> QED BY <1>1, <1>2, PTL DEF PadsSpec

\* Where every Context starts after remove_all(), the slots are their pads'
\* and poll() serves the pads one by one.
THEOREM PadsInvHolds == RemoveAllFirst => (PadsSpec => [](Inv /\ PadsInv))
<1> SUFFICES ASSUME RemoveAllFirst PROVE PadsSpec => [](Inv /\ PadsInv)
  OBVIOUS
<1>1. PadsInit => Inv /\ PadsInv
  BY InitPads
<1>2. Inv /\ PadsInv /\ [PadsNext]_padVars => Inv' /\ PadsInv'
  BY ContextInvKept, RegistryTypesKept, TenancyKept, PollProgressKept DEF PadsInv
<1> QED BY <1>1, <1>2, PTL DEF PadsSpec

\* Tenancy is what a test relies on: device_id() of a pad that is there names
\* the device it drives, and no device is without a pad.
THEOREM PadsKnowTheirDevices == RemoveAllFirst => (PadsSpec => []PadsAreDevices)
<1> SUFFICES ASSUME RemoveAllFirst PROVE PadsSpec => []PadsAreDevices
  OBVIOUS
<1>1. Tenancy => PadsAreDevices
  <2> SUFFICES ASSUME Tenancy PROVE PadsAreDevices
    OBVIOUS
  <2>1. CASE Settled
    BY <2>1 DEF Tenancy, Settled, Matched, Owned, PadsAreDevices, Live, LiveSlots
  <2>2. CASE LeftOver
    BY <2>2 DEF LeftOver, PadsAreDevices
  <2> QED BY <2>1, <2>2 DEF Tenancy
<1> QED BY <1>1, PadsInvHolds, PTL DEF PadsInv

\* A device leaves only in poll() and only because its own pad was removed,
\* however its slot was used before.
THEOREM RemovalIsUnplug == RemoveAllFirst => (PadsSpec => RemoveIsUnplug)
<1> SUFFICES ASSUME RemoveAllFirst PROVE PadsSpec => RemoveIsUnplug
  OBVIOUS
<1>1. ASSUME Inv, PadsInv, [PadsNext]_padVars, NEW s \in LiveSlots, RemoveDevice(s)
      PROVE  \E i \in DOMAIN pads : pads[i].device_id = slots[s].id /\ ~pads[i].present
  <2>1. s \in DOMAIN slots /\ Polling /\ current_backend = 1
    BY <1>1, VirtualAssumption DEF RemoveDevice, Holds, Live, Polling
  <2>2. LiveSlots' = LiveSlots \ {s} /\ s \notin LiveSlots' /\ current_backend' = 1
    BY <1>1, <2>1, DepartureProperties DEF RemoveDevice
  <2>3. ~TestCall /\ ~EndUpdate /\ ~GameCall /\ ~BeginFrame
    BY <2>1, VirtualAssumption DEF TestCall, EndUpdate, GameCall, AddMappings, SetConfig,
       BeginFrame, BeginUpdate
  <2>4. ~Sweep /\ ~(UNCHANGED vars)
    BY <1>1, <2>2 DEF Sweep, NextBackend, LiveSlots, vars
  <2>5. Visit
    BY <1>1, <2>3, <2>4 DEF PadsNext, padVars, vars
  <2>6. cursor \in DOMAIN pads /\ pads[cursor] \in Pads
    BY <1>1, <2>5, VisitIsPolling DEF PadsInv
  <2>7. ~VisitArriving
    <3>1. VisitArriving => \E desc \in Descriptions : AddDevice(desc)
      BY <2>6 DEF VisitArriving, Pads
    <3> QED BY <1>1, <2>2, <3>1, AdmittedProperties
  <2>8. ~VisitPresent
    <3>1. VisitPresent => \/ SetOutput(pads[cursor].slot, 1, pads[cursor].input)
                          \/ SetRaw(pads[cursor].slot, 1, pads[cursor].input)
      BY <2>4 DEF VisitPresent
    <3>2. ASSUME NEW r, NEW v, SetOutput(r, 1, v) \/ SetRaw(r, 1, v)
          PROVE  s \in LiveSlots'
      <4>1. \A k \in DOMAIN slots : slots[k] \in Devices
        BY <1>1, SlotsAreDevices
      <4>2. r \in DOMAIN slots
        BY <3>2 DEF SetOutput, SetRaw, Holds, Live
      <4>3. s \in DOMAIN slots' /\ slots'[s].live = slots[s].live
        BY <2>1, <3>2, <4>1, <4>2 DEF SetOutput, SetRaw, Devices
      <4> QED BY <1>1, <4>3 DEF LiveSlots
    <3> QED BY <2>2, <3>1, <3>2
  <2>9. VisitLeaving
    BY <2>4, <2>5, <2>7, <2>8 DEF Visit, VisitAbsent
  <2> DEFINE t == pads[cursor].slot
  <2>10. RemoveDevice(t) /\ t \in DOMAIN slots /\ pads[cursor].announced /\ ~pads[cursor].present
    BY <2>4, <2>9 DEF VisitLeaving, Leaves, Live
  <2>11. s = t
    <3>1. LiveSlots' = LiveSlots \ {t} /\ t \in LiveSlots
      BY <1>1, <2>10, DepartureProperties
    <3> QED BY <1>1, <2>2, <3>1
  <2>12. Settled
    BY <1>1 DEF PadsInv, Tenancy, LeftOver
  <2> QED BY <2>6, <2>10, <2>11, <2>12 DEF Settled, Matched
<1>2. Inv /\ PadsInv /\ [PadsNext]_padVars =>
        [\A s \in LiveSlots :
           RemoveDevice(s) => \E i \in DOMAIN pads :
                                pads[i].device_id = slots[s].id /\ ~pads[i].present]_padVars
  BY <1>1
<1> QED BY <1>2, PadsInvHolds, PTL DEF PadsSpec, RemoveIsUnplug

\* When the backends are through, every pad is there, was served and is settled.
LEMMA PolledPads ==
  ASSUME Inv, PadsInv, EndUpdate
  PROVE  /\ Settled
         /\ \A i \in DOMAIN pads : pads[i] \in Pads /\ pads[i].present /\ Served(pads[i])
<1>1. \A i \in DOMAIN pads : pads[i].present /\ Served(pads[i])
  BY VirtualAssumption DEF EndUpdate, PadsInv, PollProgress
<1>2. LeftOver => Settled
  BY <1>1 DEF LeftOver, Settled
<1> QED BY <1>1, <1>2, PadsArePads DEF PadsInv, Tenancy

\* add() and remove() take effect with the next update(), for every pad at
\* once, however often pads were turned away before.
THEOREM UpdateListsThePads == RemoveAllFirst => (PadsSpec => PadsComeAndGo)
<1> SUFFICES ASSUME RemoveAllFirst PROVE PadsSpec => PadsComeAndGo
  OBVIOUS
<1> DEFINE Kept == {k \in DOMAIN pads : pads[k].present /\ (pads[k].announced \/ Welcome(pads[k]))}
<1>1. ASSUME Inv, PadsInv, EndUpdate
      PROVE  ConnectedIds = {pads[i].device_id : i \in Kept}
  <2>1. /\ Settled
        /\ \A i \in DOMAIN pads : pads[i].present /\ Served(pads[i])
    BY <1>1, PolledPads
  <2>2. \A i \in Kept : i \in DOMAIN pads /\ pads[i].announced /\ Matched(pads[i])
    BY <2>1 DEF Settled, Served
  <2>3. ASSUME NEW s \in LiveSlots
        PROVE  \E i \in Kept : pads[i].device_id = slots[s].id
    <3>1. PICK i \in DOMAIN pads : pads[i].announced /\ pads[i].slot = s
      BY <1>1 DEF PadsInv, Tenancy, Owned
    <3>2. i \in Kept
      BY <2>1, <3>1
    <3> QED BY <2>2, <3>1, <3>2 DEF Matched
  <2>4. \A i \in Kept : \E s \in LiveSlots : pads[i].device_id = slots[s].id
    BY <2>2 DEF Matched
  <2> HIDE DEF Kept
  <2> QED BY <2>3, <2>4 DEF ConnectedIds
<1>2. Inv /\ PadsInv =>
        [EndUpdate => ConnectedIds = {pads[i].device_id : i \in Kept}]_padVars
  BY <1>1
<1> QED BY <1>2, PadsInvHolds, PTL DEF PadsSpec, PadsComeAndGo

\* The mapped view of a device after an update() is what its pad reads and
\* nothing else: no input of another pad that had the slot is left in it.
THEOREM UpdateShowsThePads == RemoveAllFirst => (PadsSpec => DevicesShowTheirPads)
<1> SUFFICES ASSUME RemoveAllFirst PROVE PadsSpec => DevicesShowTheirPads
  OBVIOUS
<1> DEFINE Shown(i) ==
             LET s == pads[i].slot
             IN slots'[s].out[1] =
                  (IF slots[s].backend_mapped THEN pads[i].input
                   ELSE IF slots[s].mapping = NoMapping THEN 0
                   ELSE Mapped(table[slots[s].mapping],
                               [r \in Raws |-> IF r = 1 THEN pads[i].input ELSE 0])[1])
<1>1. ASSUME Inv, PadsInv, EndUpdate, NEW i \in DOMAIN pads, pads[i].announced
      PROVE  Shown(i)
  <2> DEFINE s == pads[i].slot
             d == slots[s]
             pad == pads[i]
  <2>1. /\ s \in DOMAIN slots /\ d \in Devices /\ d.live
        /\ d.backend_mapped = pad.spec.backend_mapped
        /\ \A r \in Raws : r # 1 => d.raw[r] = 0
        /\ Shows(pad)
    BY <1>1, PolledPads, SlotsAreDevices DEF Settled, Matched, LiveSlots, Served
  <2>2. slots'[s] = Applied(d)
    BY <1>1, <2>1 DEF EndUpdate
  <2>3. CASE d.backend_mapped
    BY <2>1, <2>2, <2>3 DEF Applied, Shows
  <2>4. CASE ~d.backend_mapped
    <3>1. d.raw[1] = pad.input
      BY <2>1, <2>4 DEF Shows
    <3>2. d.raw = [r \in Raws |-> IF r = 1 THEN pad.input ELSE 0]
      <4>1. d.raw \in [Raws -> Values]
        BY <2>1 DEF Devices
      <4> QED BY <2>1, <3>1, <4>1
    <3>3. Applied(d).out = IF d.mapping = NoMapping THEN AtRest ELSE Mapped(table[d.mapping], d.raw)
      BY <2>1, <2>4 DEF Applied, Devices
    <3>4. AtRest[1] = 0
      BY VirtualAssumption DEF AtRest
    <3> HIDE DEF d, pad, s
    <3>5. (Applied(d).out)[1] = (IF d.mapping = NoMapping THEN 0
            ELSE Mapped(table[d.mapping], [r \in Raws |-> IF r = 1 THEN pad.input ELSE 0])[1])
      BY <3>2, <3>3, <3>4
    <3> QED BY <2>2, <2>4, <3>5 DEF d, pad, s
  <2> QED BY <2>3, <2>4
<1>2. Inv /\ PadsInv =>
        [EndUpdate => \A i \in DOMAIN pads : pads[i].present /\ pads[i].announced => Shown(i)]_padVars
  BY <1>1
<1> QED BY <1>2, PadsInvHolds, PTL DEF PadsSpec, DevicesShowTheirPads
=============================================================================
