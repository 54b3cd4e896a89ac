------------------------------ MODULE VirtualPads ------------------------------
(***************************************************************************)
(* The virtual backend of src/src/backend_virtual.cpp, driving the core.   *)
(* Synthetic pads live in a registry of the process: a test adds, presses  *)
(* and removes them between frames, and whichever Context polls next makes *)
(* devices of them.  A Context may be destroyed and another one made; the  *)
(* registry stays.                                                         *)
(*                                                                         *)
(* poll() goes through the registry pad by pad (cursor), each Host call    *)
(* being a step of GamepadContext, and then erases what is gone.  A pad    *)
(* has one input: output 1 if the backend maps it, raw input 1 if not.     *)
(***************************************************************************)
EXTENDS GamepadContext

CONSTANTS RemoveAllFirst,  \* tests call remove_all() before they make a Context
          MaxPads,         \* bound: pads added
          MaxContexts      \* bound: Contexts made

\* No other backend of the build has a pad, and this one needs no rescan.
ASSUME VirtualAssumption ==
  /\ NBackends = 1 /\ Scanning = {}
  /\ 1 \in Outputs /\ 1 \in Raws
  /\ RemoveAllFirst \in BOOLEAN
  /\ MaxPads \in Nat /\ MaxContexts \in Nat \ {0}

VARIABLES
  pads,      \* the registry, oldest first
  cursor,    \* where poll() is in it
  added,     \* pads ever added
  contexts   \* Contexts ever made

registry == <<pads, added, contexts>>
padVars  == <<vars, pads, cursor, added, contexts>>
-----------------------------------------------------------------------------
Pads == [spec : Descriptions, present : BOOLEAN, announced : BOOLEAN,
         slot : Nat, device_id : Nat, input : Values]

NewPad(spec) == [spec |-> spec, present |-> TRUE, announced |-> FALSE,
                 slot |-> 0, device_id |-> 0, input |-> 0]

(* what a test does between frames *)

AddPad(spec) ==
  /\ added < MaxPads
  /\ added' = added + 1
  /\ pads' = Append(pads, NewPad(spec))
  /\ UNCHANGED <<vars, cursor, contexts>>

\* remove(): the pad stays until a Context was told.
RemovePad(i) ==
  /\ pads[i].present
  /\ pads' = [pads EXCEPT ![i].present = FALSE]
  /\ UNCHANGED <<vars, cursor, added, contexts>>

AllRemoved == [i \in DOMAIN pads |-> [pads[i] EXCEPT !.present = FALSE]]

SetInput(i, v) ==
  /\ pads[i].input # v
  /\ pads' = [pads EXCEPT ![i].input = v]
  /\ UNCHANGED <<vars, cursor, added, contexts>>

\* The constructor of another Context, as GamepadContext!Init has it.
NewContext ==
  /\ config' \in Configs
  /\ \E text \in Texts \cup {{}} : table' = AddMany(EmptyTable, text)
  /\ slots' = <<>> /\ live_ids' = <<>> /\ events' = <<>>
  /\ next_id' = 1 /\ current_backend' = 0
  /\ first_update' = TRUE /\ rescan' = FALSE

\* One Context is destroyed, which leaves the registry alone, and another is
\* made.
RemakeContext ==
  /\ contexts < MaxContexts
  /\ contexts' = contexts + 1
  /\ NewContext
  /\ pads' = IF RemoveAllFirst THEN AllRemoved ELSE pads
  /\ UNCHANGED <<cursor, added>>

TestCall ==
  /\ current_backend = 0
  /\ \/ \E spec \in Descriptions : AddPad(spec)
     \/ \E i \in DOMAIN pads : RemovePad(i)
     \/ \E i \in DOMAIN pads, v \in Values : SetInput(i, v)
     \/ RemakeContext
-----------------------------------------------------------------------------
(* poll() *)

Visited == Polling /\ cursor \in DOMAIN pads

\* Mutant: the pad keeps its slot after it was told to leave.
ForgottenFlagOnly(pad) == [pad EXCEPT !.announced = FALSE]

Forgotten(pad) == [pad EXCEPT !.announced = FALSE, !.slot = 0, !.device_id = 0]

\* Mutant: a pad that was turned away counts as announced.
AnnouncedAnyway(pad, id) ==
  [pad EXCEPT !.announced = TRUE, !.slot = FreeSlot, !.device_id = id]

\* announce(): device_id_for_slot() is the id add_device() just gave.
Announced(pad, id) ==
  IF id = 0 THEN pad
  ELSE [pad EXCEPT !.announced = TRUE, !.slot = FreeSlot, !.device_id = id]

\* Mutant: the Context is never told of a removed pad.
NeverLeaves(pad) == FALSE

Leaves(pad) == ~pad.present /\ pad.announced

\* remove_device() of the slot the pad was given, by whichever Context.
VisitLeaving ==
  /\ Visited /\ Leaves(pads[cursor])
  /\ IF Live(pads[cursor].slot) THEN RemoveDevice(pads[cursor].slot) ELSE UNCHANGED vars
  /\ pads' = [pads EXCEPT ![cursor] = Forgotten(@)]
  /\ cursor' = cursor + 1

\* Mutant: what a new pad reads is left to the next frame.
NextPad(admitted) == cursor + 1

\* A pad that was admitted is read at once.
AfterArrival(admitted) == IF admitted THEN cursor ELSE cursor + 1

\* A pad that is turned away is offered again in every frame.
VisitArriving ==
  /\ Visited /\ pads[cursor].present /\ ~pads[cursor].announced
  /\ AddDevice(pads[cursor].spec)
  /\ LET admitted == slots'[FreeSlot].live
     IN /\ pads' = [pads EXCEPT ![cursor] = Announced(@, IF admitted THEN next_id ELSE 0)]
        /\ cursor' = AfterArrival(admitted)

\* Writes what the pad reads into its slot; a call on a dead slot or of a kind
\* the device there does not have changes nothing that is ever read.
VisitPresent ==
  LET pad == pads[cursor]
  IN /\ Visited /\ pad.present /\ pad.announced
     /\ IF ~Live(pad.slot) \/ slots[pad.slot].backend_mapped # pad.spec.backend_mapped
        THEN UNCHANGED vars
        ELSE IF pad.spec.backend_mapped
        THEN SetOutput(pad.slot, 1, pad.input)
        ELSE SetRaw(pad.slot, 1, pad.input)
     /\ cursor' = cursor + 1
     /\ UNCHANGED pads

VisitAbsent ==
  /\ Visited /\ ~pads[cursor].present /\ ~Leaves(pads[cursor])
  /\ cursor' = cursor + 1
  /\ UNCHANGED <<vars, pads>>

Visit ==
  /\ VisitLeaving \/ VisitArriving \/ VisitPresent \/ VisitAbsent
  /\ UNCHANGED <<added, contexts>>

Staying == {i \in DOMAIN pads : pads[i].present \/ pads[i].announced}

\* The end of poll(): pads that are gone and were said to be are erased, and
\* the others close up in their order.
Sweep ==
  /\ Polling /\ cursor = Len(pads) + 1
  /\ \E kept \in Bijection(1..Cardinality(Staying), Staying) :
       /\ \A j, k \in DOMAIN kept : j < k => kept[j] < kept[k]
       /\ pads' = [j \in DOMAIN kept |-> pads[kept[j]]]
  /\ cursor' = 1
  /\ NextBackend
  /\ UNCHANGED <<added, contexts>>

\* A frame begins only where the bound leaves an id for every pad.
BeginFrame == next_id + Len(pads) <= MaxId + 1 /\ BeginUpdate

PadsInit == Init /\ pads = <<>> /\ cursor = 1 /\ added = 0 /\ contexts = 1

PadsNext ==
  \/ TestCall
  \/ Visit
  \/ Sweep
  \/ (BeginFrame \/ EndUpdate \/ GameCall) /\ UNCHANGED <<registry, cursor>>

PadsSpec == PadsInit /\ [][PadsNext]_padVars
-----------------------------------------------------------------------------
\* Every variable of the registry has its type; device_id() is no device
\* before the update() that admits a pad and after the one that drops it.
PadsTypeOK ==
  /\ pads \in Seq(Pads)
  /\ cursor \in 1..(Len(pads) + 1)
  /\ current_backend # 1 => cursor = 1
  /\ \A i \in DOMAIN pads :
       pads[i].announced <=> pads[i].slot # 0 /\ pads[i].device_id # 0

\* A pad and its device know each other: device_id() of an announced pad names
\* the device in its slot, and no device is without its pad.
PadsAreDevices ==
  /\ \A i \in DOMAIN pads :
       pads[i].present /\ pads[i].announced =>
         Live(pads[i].slot) /\ slots[pads[i].slot].id = pads[i].device_id
  /\ \A s \in LiveSlots :
       \E i \in DOMAIN pads :
         pads[i].announced /\ pads[i].slot = s /\ pads[i].device_id = slots[s].id

\* Whether a Context would keep this pad if it were offered now.
Welcome(pad) ==
  pad.spec.backend_mapped \/ Find(table, pad.spec.guid) # NoMapping \/ config.report_unmapped

\* A pad is there after the update() that follows add(), "the way a real
\* plug-in does" (src/include/gpplus/virtual.hpp:47), also when it was turned
\* away before and the game has learned its mapping since; and it is gone after
\* the update() that follows remove().
PadsComeAndGo ==
  [][EndUpdate =>
       ConnectedIds = {pads[i].device_id :
                         i \in {k \in DOMAIN pads :
                                 pads[k].present /\ (pads[k].announced \/ Welcome(pads[k]))}}
    ]_padVars

\* After an update() a device shows what its own pad reads, whichever pads
\* shared its slot before: nothing is left of them in its other inputs.
DevicesShowTheirPads ==
  [][EndUpdate => \A i \in DOMAIN pads :
       pads[i].present /\ pads[i].announced =>
         LET s == pads[i].slot
         IN slots'[s].out[1] =
              (IF slots[s].backend_mapped THEN pads[i].input
               ELSE IF slots[s].mapping = NoMapping THEN 0
               ELSE Mapped(table[slots[s].mapping],
                           [r \in Raws |-> IF r = 1 THEN pads[i].input ELSE 0])[1])
     ]_padVars

\* "remove() during a frame behaves like an unplug rather than a dangling slot"
\* (src/src/backend_virtual.cpp:114): a device leaves only because its own pad
\* was removed.
RemoveIsUnplug ==
  [][\A s \in LiveSlots :
       RemoveDevice(s) => \E i \in DOMAIN pads :
                            pads[i].device_id = slots[s].id /\ ~pads[i].present]_padVars
=============================================================================
