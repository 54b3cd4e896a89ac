--------------------------- MODULE WindowsPadsProofs ---------------------------
(***************************************************************************)
(* The two Windows backends on one core, for any number of pads, Xbox pads *)
(* and hotplug events.                                                     *)
(*                                                                         *)
(* Every step of the two poll()s is a step of GamepadContext or leaves the *)
(* Context alone, so what is proved of the core holds here.  The slots are *)
(* accounted for by Tenants: each backend holds live slots of its own, no  *)
(* slot and no pad twice, and no device is without its holder.  That a     *)
(* device leaves only when its pad has left needs Departures: what is      *)
(* known of a pad that is missing while an enumeration is under way.       *)
(***************************************************************************)
EXTENDS WindowsPads, GamepadContextProofs

Entries == [pad : Pads, slot : Nat, acquired : BOOLEAN, seen : BOOLEAN]

WorldTypeOK ==
  /\ attached \subseteq Pads /\ todo \subseteq Pads /\ lost \subseteq Pads
  /\ left \subseteq Pads /\ unread \subseteq XboxPads
  /\ reading \in [Pads -> Values] /\ fetched \in Values
  /\ locked \in BOOLEAN /\ changes \in 0..MaxChanges
  /\ step \in {"start", "write", "enumerate", "read"}
  /\ cursor \in Nat \ {0}
  /\ connected \in [DOMAIN Users -> Nat]
  /\ entries \in Seq(Entries)

\* Which slot is whose.
Tenants ==
  /\ \A u \in DOMAIN Users :
       connected[u] # 0 => connected[u] \in LiveSlots /\ slots[connected[u]].backend = XInput
  /\ \A u, w \in DOMAIN Users : connected[u] # 0 /\ connected[u] = connected[w] => u = w
  /\ \A i \in DOMAIN entries :
       /\ entries[i].slot \in LiveSlots /\ slots[entries[i].slot].backend = DirectInput
       /\ entries[i].pad \in XboxPads => entries[i].pad \in unread
  /\ \A i, j \in DOMAIN entries :
       entries[i].slot = entries[j].slot \/ entries[i].pad = entries[j].pad => i = j
  /\ \A s \in LiveSlots : \/ \E u \in DOMAIN Users : connected[u] = s
                          \/ \E i \in DOMAIN entries : entries[i].slot = s

\* A pad with a device that is not there has left since; in an enumeration,
\* one that was not seen has left or is still to come.
Departures ==
  /\ \A u \in DOMAIN Users : connected[u] # 0 /\ Users[u] \notin attached => Users[u] \in left
  /\ \A i \in DOMAIN entries : entries[i].pad \notin attached => entries[i].pad \in left
  /\ step = "enumerate" =>
       \A i \in DOMAIN entries : ~entries[i].seen => entries[i].pad \in todo \cup left

PadsInv == Inv /\ WorldTypeOK /\ Tenants /\ Departures
-----------------------------------------------------------------------------
(* the Context behind the two backends *)

\* What DirectInput and XInput say of a pad is a description.
LEMMA PadDescription ==
  ASSUME NEW pad \in Pads, NEW by \in BOOLEAN
  PROVE  [guid |-> PadGuid[pad], backend_mapped |-> by] \in Descriptions
BY WindowsAssumption DEF Descriptions

\* The user indices are those of pads.
LEMMA UserIsPad ==
  /\ DOMAIN Users \subseteq Nat \ {0}
  /\ \A u \in DOMAIN Users : Users[u] \in XboxPads /\ Users[u] \in Pads
<1>1. Users \in Seq(Pads)
  BY WindowsAssumption
<1>2. DOMAIN Users = 1..Len(Users) /\ Len(Users) \in Nat /\ \A u \in DOMAIN Users : Users[u] \in Pads
  BY <1>1, LenProperties, ElementOfSeq
<1> QED BY <1>2 DEF XboxPads

\* Each entry is one.
LEMMA EntriesAreEntries ==
  ASSUME WorldTypeOK
  PROVE  \A i \in DOMAIN entries : entries[i] \in Entries
BY ElementOfSeq, LenProperties DEF WorldTypeOK

\* The steps that neither add nor remove a device.
CalmStep ==
  \/ Frame \/ XInputSkips \/ XInputWrites \/ XInputDone
  \/ StartPoll \/ EnumerationDone \/ ReadEntry \/ DirectInputDone
  \/ WorldMoves \/ UNCHANGED padVars

LEMMA CalmStepIsOther ==
  ASSUME WorldTypeOK, CalmStep
  PROVE  OtherStep
<1>1. CASE Frame
  BY <1>1 DEF Frame, OtherStep
<1>2. CASE XInputSkips \/ StartPoll \/ EnumerationDone \/ WorldMoves \/ UNCHANGED padVars
  BY <1>2 DEF XInputSkips, StartPoll, EnumerationDone, WorldMoves, Lock, Unlock, Plug, Unplug,
              Move, padVars, OtherStep
<1>3. CASE XInputWrites
  <2>1. SetOutput(connected[cursor], 1, fetched)
    BY <1>3 DEF XInputWrites
  <2>2. connected[cursor] \in DOMAIN slots /\ fetched \in Values /\ 1 \in Outputs
    BY <2>1, WindowsAssumption DEF SetOutput, Holds, Live, WorldTypeOK
  <2> QED BY <2>1, <2>2 DEF OtherStep
<1>4. CASE XInputDone \/ DirectInputDone
  BY <1>4 DEF XInputDone, DirectInputDone, OtherStep
<1>5. CASE ReadEntry
  <2> DEFINE e == entries[cursor]
  <2>1. e \in Entries
    BY <1>5, EntriesAreEntries DEF ReadEntry
  <2>2. UNCHANGED vars \/ SetRaw(e.slot, 1, reading[e.pad])
    BY <1>5 DEF ReadEntry
  <2>3. reading[e.pad] \in Values /\ 1 \in Raws
    BY <2>1, WindowsAssumption DEF WorldTypeOK, Entries
  <2>4. SetRaw(e.slot, 1, reading[e.pad]) => e.slot \in DOMAIN slots
    BY DEF SetRaw, Holds, Live
  <2> HIDE DEF e
  <2> QED BY <2>2, <2>3, <2>4 DEF OtherStep
<1> QED BY <1>1, <1>2, <1>3, <1>4, <1>5 DEF CalmStep

\* The others: a device arrives, or leaves.
LEMMA BusySteps ==
  ASSUME WorldTypeOK, [PadsNext]_padVars
  PROVE  \/ CalmStep
         \/ XInputDrops \/ DropUnseen
         \/ XInputFetches
         \/ \E pad \in Pads, readable \in BOOLEAN : Consider(pad, readable)
BY DEF PadsNext, Poll, CalmStep

\* Each step of player, desktop or backends is a step of the Context or leaves
\* it alone.
LEMMA PadsStepIsStep ==
  ASSUME WorldTypeOK, [PadsNext]_padVars
  PROVE  [Next]_vars
<1>1. CASE CalmStep
  BY <1>1, CalmStepIsOther DEF OtherStep, Next, HostCall
<1>2. CASE XInputDrops \/ DropUnseen
  <2>1. PICK s : RemoveDevice(s)
    BY <1>2 DEF XInputDrops, DropUnseen
  <2>2. s \in DOMAIN slots
    BY <2>1 DEF RemoveDevice, Holds, Live
  <2> QED BY <2>1, <2>2 DEF Next, HostCall
<1>3. CASE XInputFetches
  <2>1. CASE connected[cursor] # 0
    BY <1>3, <2>1 DEF XInputFetches
  <2>2. CASE connected[cursor] = 0
    <3>1. AddDevice([guid |-> PadGuid[User], backend_mapped |-> TRUE]) /\ User \in Pads
      BY <1>3, <2>2, UserIsPad DEF XInputFetches, User
    <3>2. [guid |-> PadGuid[User], backend_mapped |-> TRUE] \in Descriptions
      BY <3>1, PadDescription
    <3> QED BY <3>1, <3>2 DEF Next, HostCall
  <2> QED BY <2>1, <2>2
<1>4. ASSUME NEW pad \in Pads, NEW readable \in BOOLEAN, Consider(pad, readable) PROVE [Next]_vars
  <2>1. CASE UNCHANGED vars
    BY <2>1
  <2>2. CASE AddDevice([guid |-> PadGuid[pad], backend_mapped |-> FALSE])
    BY <2>2, PadDescription DEF Next, HostCall
  <2> QED BY <1>4, <2>1, <2>2 DEF Consider
<1> QED BY <1>1, <1>2, <1>3, <1>4, BusySteps

\* Slots are numbered from 1, and a free one is a number.
LEMMA SlotNumbers ==
  ASSUME Inv
  PROVE  0 \notin LiveSlots /\ LiveSlots \subseteq Nat /\ FreeSlot \in Nat \ {0}
BY FreeSlotProperties, LenProperties DEF Inv, TableTypeOK, LiveSlots

\* What a step leaves of the entries are entries.
LEMMA EntryChanges ==
  ASSUME WorldTypeOK
  PROVE  /\ Unseen \in Seq(Entries)
         /\ \A i \in DOMAIN entries : SeenAgain(i) \in Seq(Entries) /\ Erased(i) \in Seq(Entries)
         /\ \A i \in DOMAIN entries, b \in BOOLEAN :
              [entries EXCEPT ![i] = AcquiredIf(entries[i], b)] \in Seq(Entries)
         /\ \A pad \in Pads : FreeSlot \in Nat => Append(entries, NewEntry(pad)) \in Seq(Entries)
<1>1. entries \in Seq(Entries) /\ \A i \in DOMAIN entries : entries[i] \in Entries
  BY EntriesAreEntries DEF WorldTypeOK
<1>2. Unseen \in Seq(Entries)
  <2> DEFINE f == [i \in DOMAIN entries |-> [entries[i] EXCEPT !.seen = FALSE]]
  <2>1. f \in [DOMAIN entries -> Entries]
    BY <1>1 DEF Entries
  <2> HIDE DEF f
  <2>2. f \in Seq(Entries)
    BY <1>1, <2>1, MapIsSeq
  <2> QED BY <2>2 DEF Unseen, f
<1>3. ASSUME NEW i \in DOMAIN entries
      PROVE  SeenAgain(i) \in Seq(Entries) /\ Erased(i) \in Seq(Entries)
  <2> DEFINE f == [entries EXCEPT ![i].seen = TRUE]
  <2>1. f \in [DOMAIN entries -> Entries]
    BY <1>1 DEF Entries
  <2> HIDE DEF f
  <2>2. f \in Seq(Entries)
    BY <1>1, <2>1, MapIsSeq
  <2>3. RemoveAt(entries, i) \in Seq(Entries)
    BY <1>1, LenProperties, RemoveAtProperties
  <2> QED BY <2>2, <2>3 DEF SeenAgain, Erased, f
<1>4. ASSUME NEW i \in DOMAIN entries, NEW b \in BOOLEAN
      PROVE  [entries EXCEPT ![i] = AcquiredIf(entries[i], b)] \in Seq(Entries)
  <2> DEFINE e == AcquiredIf(entries[i], b)
             f == [entries EXCEPT ![i] = e]
  <2>1. e \in Entries
    BY <1>1 DEF AcquiredIf, Entries
  <2> HIDE DEF e
  <2>2. f \in [DOMAIN entries -> Entries]
    BY <1>1, <2>1
  <2> HIDE DEF f
  <2>3. f \in Seq(Entries)
    BY <1>1, <2>2, MapIsSeq
  <2> QED BY <2>3 DEF f, e
<1>5. ASSUME NEW pad \in Pads, FreeSlot \in Nat
      PROVE  Append(entries, NewEntry(pad)) \in Seq(Entries)
  <2>1. NewEntry(pad) \in Entries
    BY <1>5 DEF NewEntry, Entries
  <2> QED BY <1>1, <2>1, AppendProperties
<1> QED BY <1>2, <1>3, <1>4, <1>5

\* DirectInput holds pads.
LEMMA HeldPads ==
  ASSUME WorldTypeOK
  PROVE  Held \subseteq Pads
BY EntriesAreEntries DEF Held, Entries

\* Every step keeps the types.
LEMMA TypesKept ==
  ASSUME Inv, WorldTypeOK, [PadsNext]_padVars
  PROVE  WorldTypeOK'
<1> USE DEF world, progress, backends
<1>1. /\ attached \subseteq Pads /\ todo \subseteq Pads /\ lost \subseteq Pads
      /\ left \subseteq Pads /\ unread \subseteq XboxPads
      /\ reading \in [Pads -> Values] /\ fetched \in Values
      /\ locked \in BOOLEAN /\ changes \in 0..MaxChanges
      /\ step \in {"start", "write", "enumerate", "read"}
      /\ cursor \in Nat \ {0}
      /\ connected \in [DOMAIN Users -> Nat]
      /\ entries \in Seq(Entries)
  BY DEF WorldTypeOK
<1>2. CASE Frame \/ UNCHANGED padVars
  BY <1>1, <1>2 DEF Frame, padVars, WorldTypeOK
<1>3. CASE XInputSkips \/ EnumerationDone
  BY <1>1, <1>3 DEF XInputSkips, EnumerationDone, WorldTypeOK
<1>4. CASE XInputDrops
  BY <1>1, <1>4 DEF XInputDrops, WorldTypeOK
<1>5. CASE XInputFetches
  <2>1. User \in Pads /\ FreeSlot \in Nat
    BY <1>5, UserIsPad, SlotNumbers DEF XInputFetches, User
  <2>2. /\ connected' \in [DOMAIN Users -> Nat] /\ left' \subseteq Pads /\ fetched' \in Values
        /\ unread' = unread
    BY <1>1, <1>5, <2>1 DEF XInputFetches
  <2> QED BY <1>1, <1>5, <2>2 DEF XInputFetches, WorldTypeOK
<1>6. CASE XInputWrites
  <2>1. fetched' \in Values
    BY <1>6, ContextAssumption DEF XInputWrites
  <2> QED BY <1>1, <1>6, <2>1 DEF XInputWrites, WorldTypeOK
<1>7. CASE XInputDone \/ DirectInputDone
  BY <1>1, <1>7 DEF XInputDone, DirectInputDone, WorldTypeOK
<1>8. CASE StartPoll
  BY <1>1, <1>8, EntryChanges DEF StartPoll, WorldTypeOK
<1>9. CASE DropUnseen
  <2>1. entries' \in Seq(Entries) /\ unread' \subseteq XboxPads
    BY <1>1, <1>9, EntryChanges DEF DropUnseen
  <2> QED BY <1>1, <1>9, <2>1 DEF DropUnseen, WorldTypeOK
<1>10. CASE ReadEntry
  <2>1. PICK b \in BOOLEAN : entries' = [entries EXCEPT ![cursor] = AcquiredIf(entries[cursor], b)]
    <3>1. Reached(entries[cursor]) \in BOOLEAN
      BY <1>1, <1>10, EntriesAreEntries DEF Reached, ReadEntry, Entries
    <3> QED BY <1>10, <3>1 DEF ReadEntry
  <2>2. cursor \in DOMAIN entries /\ lost' \subseteq Pads /\ cursor' \in Nat \ {0}
    BY <1>1, <1>10 DEF ReadEntry
  <2> QED BY <1>1, <1>10, <2>1, <2>2, EntryChanges DEF ReadEntry, WorldTypeOK
<1>11. ASSUME NEW pad \in Pads, NEW readable \in BOOLEAN, Consider(pad, readable) PROVE WorldTypeOK'
  <2>1. entries' \in Seq(Entries)
    <3>1. \/ entries' = entries
          \/ \E i \in DOMAIN entries : entries' = SeenAgain(i)
          \/ entries' = Append(entries, NewEntry(pad))
      BY <1>11 DEF Consider, EntryOf
    <3> QED BY <1>1, <3>1, EntryChanges, SlotNumbers
  <2>2. left' \subseteq Pads /\ todo' \subseteq Pads /\ unread' \subseteq XboxPads
    BY <1>1, <1>11 DEF Consider
  <2> QED BY <1>1, <1>11, <2>1, <2>2 DEF Consider, WorldTypeOK
<1>12. CASE WorldMoves
  <2>1. CASE Lock \/ Unlock
    <3>1. locked' \in BOOLEAN
      BY <2>1, Zenon DEF Lock, Unlock
    <3>2. changes' \in 0..MaxChanges /\ lost' \subseteq Pads
      BY <1>1, <2>1, HeldPads, WindowsAssumption DEF Lock, Unlock, Changed
    <3>3. UNCHANGED <<attached, todo, left, unread, reading, fetched, step, cursor, connected, entries>>
      BY <2>1 DEF Lock, Unlock
    <3> QED BY <1>1, <3>1, <3>2, <3>3 DEF WorldTypeOK
  <2>2. ASSUME NEW pad \in Pads, Plug(pad) \/ Unplug(pad) PROVE WorldTypeOK'
    BY <1>1, <2>2, WindowsAssumption DEF Plug, Unplug, Changed, WorldTypeOK
  <2>3. ASSUME NEW pad \in Pads, Move(pad) PROVE WorldTypeOK'
    BY <1>1, <2>3, WindowsAssumption DEF Move, Changed, WorldTypeOK
  <2> QED BY <1>12, <2>1, <2>2, <2>3 DEF WorldMoves
<1> QED
  BY <1>2, <1>3, <1>4, <1>5, <1>6, <1>7, <1>8, <1>9, <1>10, <1>11, <1>12 DEF PadsNext, Poll
-----------------------------------------------------------------------------
(* which slot is whose *)

\* With the same occupants, users and entries, the tenants are the same.
LEMMA SameTenants ==
  ASSUME Tenants, SameOccupants, connected' = connected, DOMAIN entries' = DOMAIN entries,
         \A i \in DOMAIN entries : /\ entries'[i].pad = entries[i].pad
                                   /\ entries'[i].slot = entries[i].slot,
         unread' = unread
  PROVE  Tenants'
<1>1. LiveSlots' = LiveSlots /\ \A s \in LiveSlots : slots'[s].backend = slots[s].backend
  BY SameOccupantsSameIds DEF SameOccupants, LiveSlots
<1> QED BY <1>1 DEF Tenants

\* A calm step leaves the entries with their pads and slots.
LEMMA CalmStepKeepsEntries ==
  ASSUME WorldTypeOK, CalmStep
  PROVE  /\ connected' = connected /\ unread' = unread /\ DOMAIN entries' = DOMAIN entries
         /\ \A i \in DOMAIN entries : /\ entries'[i].pad = entries[i].pad
                                      /\ entries'[i].slot = entries[i].slot
<1>1. \A i \in DOMAIN entries : entries[i] \in Entries
  BY EntriesAreEntries
<1>2. CASE StartPoll
  <2>1. connected' = connected /\ unread' = unread /\ (entries' = Unseen \/ entries' = entries)
    BY <1>2 DEF StartPoll, world
  <2> QED BY <1>1, <2>1 DEF Unseen, Entries
<1>3. CASE ReadEntry
  <2> DEFINE e == AcquiredIf(entries[cursor], Reached(entries[cursor]))
  <2>1. /\ connected' = connected /\ unread' = unread
        /\ entries' = [entries EXCEPT ![cursor] = e] /\ cursor \in DOMAIN entries
    BY <1>3 DEF ReadEntry
  <2>2. e.pad = entries[cursor].pad /\ e.slot = entries[cursor].slot
    BY <1>1, <2>1 DEF AcquiredIf, Entries
  <2> HIDE DEF e
  <2> QED BY <1>1, <2>1, <2>2
<1>4. CASE Frame \/ XInputSkips \/ XInputWrites \/ XInputDone \/ EnumerationDone
           \/ DirectInputDone \/ UNCHANGED padVars
  BY <1>4 DEF Frame, XInputSkips, XInputWrites, XInputDone, EnumerationDone,
              DirectInputDone, padVars, world, backends
<1>5. CASE WorldMoves
  BY <1>5 DEF WorldMoves, Lock, Unlock, Plug, Unplug, Move, backends
<1> QED BY <1>2, <1>3, <1>4, <1>5 DEF CalmStep

\* Every step keeps account of the slots.
LEMMA TenantsKept ==
  ASSUME PadsInv, [PadsNext]_padVars
  PROVE  Tenants'
<1> USE DEF PadsInv
<1>1. \A i \in DOMAIN entries : entries[i] \in Entries
  BY EntriesAreEntries
<1>2. /\ \A u \in DOMAIN Users :
           connected[u] # 0 => connected[u] \in LiveSlots /\ slots[connected[u]].backend = XInput
      /\ \A u, w \in DOMAIN Users : connected[u] # 0 /\ connected[u] = connected[w] => u = w
      /\ \A i \in DOMAIN entries :
           /\ entries[i].slot \in LiveSlots /\ slots[entries[i].slot].backend = DirectInput
           /\ entries[i].pad \in XboxPads => entries[i].pad \in unread
      /\ \A i, j \in DOMAIN entries :
           entries[i].slot = entries[j].slot \/ entries[i].pad = entries[j].pad => i = j
      /\ \A s \in LiveSlots : \/ \E u \in DOMAIN Users : connected[u] = s
                              \/ \E i \in DOMAIN entries : entries[i].slot = s
      /\ connected \in [DOMAIN Users -> Nat] /\ entries \in Seq(Entries)
      /\ XInput # DirectInput
      /\ 0 \notin LiveSlots
  BY SlotNumbers DEF Tenants, WorldTypeOK, XInput, DirectInput
<1>3. CASE CalmStep
  BY <1>3, CalmStepIsOther, CalmStepKeepsEntries, OthersKeepRoster, SameTenants
<1>4. CASE XInputDrops
  <2> DEFINE s == connected[cursor]
  <2>1. /\ RemoveDevice(s) /\ cursor \in DOMAIN Users /\ s # 0 /\ entries' = entries
        /\ connected' = [connected EXCEPT ![cursor] = 0] /\ unread' = unread
    BY <1>4 DEF XInputDrops, world
  <2>2. LiveSlots' = LiveSlots \ {s} /\ \A r \in LiveSlots' : slots'[r] = slots[r]
    <3>1. s \in DOMAIN slots
      BY <2>1 DEF RemoveDevice, Holds, Live
    <3> HIDE DEF s
    <3> QED BY <2>1, <3>1, DepartureProperties
  <2>3. \A i \in DOMAIN entries : entries[i].slot # s
    BY <1>2, <2>1
  <2>4. /\ connected'[cursor] = 0
        /\ \A u \in DOMAIN Users : u # cursor => connected'[u] = connected[u] /\ (connected[u] # 0 => connected[u] # s)
    BY <1>2, <2>1
  <2> HIDE DEF s
  <2>5. \A u \in DOMAIN Users :
          connected'[u] # 0 => connected'[u] \in LiveSlots' /\ slots'[connected'[u]].backend = XInput
    BY <1>2, <2>2, <2>4
  <2>6. \A r \in LiveSlots' : \/ \E u \in DOMAIN Users : connected'[u] = r
                              \/ \E i \in DOMAIN entries : entries[i].slot = r
    <3> TAKE r \in LiveSlots'
    <3>1. r \in LiveSlots /\ r # s
      BY <2>2
    <3>2. CASE \E u \in DOMAIN Users : connected[u] = r
      <4>1. PICK u \in DOMAIN Users : connected[u] = r
        BY <3>2
      <4>2. u # cursor
        BY <3>1, <4>1 DEF s
      <4> QED BY <2>4, <4>1, <4>2
    <3> QED BY <1>2, <3>1, <3>2
  <2> QED BY <1>2, <2>1, <2>2, <2>3, <2>4, <2>5, <2>6 DEF Tenants
<1>5. CASE DropUnseen
  <2>1. PICK i \in DOMAIN entries : /\ RemoveDevice(entries[i].slot) /\ entries' = Erased(i)
                                    /\ unread' = unread \ {entries[i].pad}
    BY <1>5 DEF DropUnseen
  <2> DEFINE s == entries[i].slot
             n == Len(entries)
  <2>2. LiveSlots' = LiveSlots \ {s} /\ \A r \in LiveSlots' : slots'[r] = slots[r]
    <3>1. RemoveDevice(s) /\ s \in DOMAIN slots
      BY <2>1 DEF RemoveDevice, Holds, Live
    <3> HIDE DEF s
    <3> QED BY <3>1, DepartureProperties
  <2>3. n \in Nat /\ DOMAIN entries = 1..n /\ i \in 1..n
    BY <1>2, LenProperties
  <2>4. DOMAIN entries' = 1..(n - 1) /\
        \A j \in 1..(n - 1) : entries'[j] = IF j < i THEN entries[j] ELSE entries[j + 1]
    BY <1>2, <2>1, <2>3, RemoveAtProperties DEF Erased
  <2> HIDE DEF s, n
  <2> DEFINE was(j) == IF j < i THEN j ELSE j + 1
  <2>5. /\ \A j \in 1..(n - 1) : was(j) \in 1..n /\ was(j) # i /\ entries'[j] = entries[was(j)]
        /\ \A j, k \in 1..(n - 1) : was(j) = was(k) => j = k
        /\ \A k \in 1..n : k # i => \E j \in 1..(n - 1) : was(j) = k
    <3>1. ASSUME NEW k \in 1..n, k # i PROVE \E j \in 1..(n - 1) : was(j) = k
      <4>1. CASE k < i
        BY <2>3, <3>1, <4>1
      <4>2. CASE ~(k < i)
        <5>1. k - 1 \in 1..(n - 1) /\ was(k - 1) = k
          BY <2>3, <3>1, <4>2
        <5> QED BY <5>1
      <4> QED BY <4>1, <4>2
    <3> QED BY <2>3, <2>4, <3>1
  <2> HIDE DEF was
  <2>6. connected' = connected /\ \A u \in DOMAIN Users : connected[u] # s
    <3>1. s \in LiveSlots /\ slots[s].backend = DirectInput
      BY <1>2 DEF s
    <3> QED BY <1>2, <1>5, <3>1 DEF DropUnseen
  <2>7. \A j \in 1..(n - 1) : /\ entries'[j].slot \in LiveSlots' /\ slots'[entries'[j].slot].backend = DirectInput
    BY <1>2, <2>2, <2>3, <2>5 DEF s
  <2>8. \A j, k \in 1..(n - 1) :
          entries'[j].slot = entries'[k].slot \/ entries'[j].pad = entries'[k].pad => j = k
    BY <1>2, <2>3, <2>5
  <2>9. \A r \in LiveSlots' : \/ \E u \in DOMAIN Users : connected'[u] = r
                              \/ \E j \in 1..(n - 1) : entries'[j].slot = r
    <3> TAKE r \in LiveSlots'
    <3>1. r \in LiveSlots /\ r # s
      BY <2>2
    <3>2. CASE \E k \in DOMAIN entries : entries[k].slot = r
      <4>1. PICK k \in 1..n : entries[k].slot = r
        BY <2>3, <3>2
      <4>2. k # i
        BY <3>1, <4>1 DEF s
      <4>3. PICK j \in 1..(n - 1) : was(j) = k
        BY <2>5, <4>2
      <4> QED BY <2>5, <4>1, <4>3
    <3> QED BY <1>2, <2>6, <3>1, <3>2
  <2>10. \A j \in 1..(n - 1) : entries'[j].pad \in XboxPads => entries'[j].pad \in unread'
    <3>1. \A k \in DOMAIN entries : k # i => entries[k].pad # entries[i].pad
      BY <1>2
    <3> QED BY <1>2, <2>1, <2>3, <2>5, <3>1
  <2> QED BY <1>2, <2>2, <2>4, <2>6, <2>7, <2>8, <2>9, <2>10 DEF Tenants
<1>6. CASE XInputFetches
  <2> DEFINE desc == [guid |-> PadGuid[User], backend_mapped |-> TRUE]
  <2>1. CASE connected[cursor] # 0
    <3>1. UNCHANGED <<vars, connected, entries, unread>>
      BY <1>6, <2>1 DEF XInputFetches
    <3> QED BY <3>1, SameTenants DEF SameOccupants, vars
  <2>2. CASE connected[cursor] = 0
    <3>1. /\ AddDevice(desc) /\ current_backend = XInput
          /\ cursor \in DOMAIN Users /\ entries' = entries /\ unread' = unread
          /\ connected' = [connected EXCEPT ![cursor] = FreeSlot]
      BY <1>6, <2>2 DEF XInputFetches, XInputPolls
    <3>2. desc \in Descriptions /\ Wanted(desc)
      BY <3>1, UserIsPad, PadDescription DEF Wanted, User
    <3> HIDE DEF desc
    <3>3. /\ FreeSlot \in Nat \ {0} /\ FreeSlot \notin LiveSlots
          /\ LiveSlots' = LiveSlots \cup {FreeSlot}
          /\ \A s \in LiveSlots : slots'[s] = slots[s]
          /\ slots'[FreeSlot].backend = XInput
      <4>1. Polling
        BY <3>1 DEF AddDevice
      <4> QED BY <3>1, <3>2, <4>1, AdmittedProperties, NewDeviceProperties
    <3>4. /\ connected'[cursor] = FreeSlot
          /\ \A u \in DOMAIN Users : u # cursor => connected'[u] = connected[u]
      BY <1>2, <3>1
    <3> QED BY <1>2, <2>2, <3>1, <3>3, <3>4 DEF Tenants
  <2> QED BY <2>1, <2>2
<1>7. ASSUME NEW pad \in Pads, NEW readable \in BOOLEAN, Consider(pad, readable) PROVE Tenants'
  <2> DEFINE desc == [guid |-> PadGuid[pad], backend_mapped |-> FALSE]
  <2>1. CASE EntryOf(pad) # {}
    <3>1. PICK i \in DOMAIN entries : entries' = SeenAgain(i)
      BY <1>7, <2>1 DEF Consider, EntryOf
    <3>2. UNCHANGED <<vars, connected, unread>>
      BY <1>7, <2>1 DEF Consider
    <3>3. DOMAIN entries' = DOMAIN entries
          /\ \A j \in DOMAIN entries : entries'[j].pad = entries[j].pad /\ entries'[j].slot = entries[j].slot
      BY <1>1, <3>1 DEF SeenAgain, Entries
    <3> QED BY <3>2, <3>3, SameTenants DEF SameOccupants, vars
  <2>2. CASE EntryOf(pad) = {} /\ Declines(pad, readable)
    <3>1. UNCHANGED <<vars, connected, entries, unread>>
      BY <1>7, <2>2 DEF Consider
    <3> QED BY <3>1, SameTenants DEF SameOccupants, vars
  <2>3. CASE EntryOf(pad) = {} /\ ~Declines(pad, readable)
    <3>1. /\ AddDevice(desc) /\ current_backend = DirectInput /\ connected' = connected
          /\ entries' = IF slots'[FreeSlot].live THEN Append(entries, NewEntry(pad)) ELSE entries
      BY <1>7, <2>3 DEF Consider, DirectInputPolls
    <3>2. desc \in Descriptions
      BY PadDescription
    <3>6. unread \subseteq unread' /\ (pad \in XboxPads => pad \in unread')
      BY <1>7, <2>3 DEF Consider, Declines, IsXInput
    <3> HIDE DEF desc
    <3>3. /\ FreeSlot \in Nat \ {0} /\ FreeSlot \notin LiveSlots
          /\ \A s \in LiveSlots : s \in LiveSlots' /\ slots'[s] = slots[s]
          /\ slots'[FreeSlot].live <=> Wanted(desc)
      BY <3>1, <3>2, AdmittedProperties
    <3>4. CASE ~Wanted(desc)
      <4>1. LiveSlots' = LiveSlots /\ entries' = entries
        BY <3>1, <3>2, <3>3, <3>4, AdmittedProperties
      <4> QED BY <1>2, <3>1, <3>3, <3>6, <4>1 DEF Tenants
    <3>5. CASE Wanted(desc)
      <4> DEFINE n == Len(entries)
      <4>1. /\ LiveSlots' = LiveSlots \cup {FreeSlot}
            /\ slots'[FreeSlot].backend = DirectInput
        <5>1. Polling
          BY <3>1 DEF AddDevice
        <5> QED BY <3>1, <3>2, <3>5, <5>1, AdmittedProperties, NewDeviceProperties
      <4>2. n \in Nat /\ DOMAIN entries = 1..n
        BY <1>2, LenProperties
      <4>3. NewEntry(pad) \in Entries /\ NewEntry(pad).pad = pad /\ NewEntry(pad).slot = FreeSlot
        BY <3>3 DEF NewEntry, Entries
      <4>4. /\ DOMAIN entries' = 1..(n + 1)
            /\ \A i \in 1..n : entries'[i] = entries[i]
            /\ entries'[n + 1] = NewEntry(pad)
        <5>1. entries' = Append(entries, NewEntry(pad))
          BY <3>1, <3>3, <3>5
        <5> QED BY <1>2, <4>2, <4>3, <5>1, AppendProperties, LenProperties
      <4>5. \A i \in 1..n : entries[i].pad # pad /\ entries[i].slot # FreeSlot
        BY <1>2, <2>3, <3>3, <4>2 DEF EntryOf
      <4> HIDE DEF n
      <4>6. \A i \in 1..(n + 1) : i \in 1..n \/ i = n + 1
        BY <4>2
      <4>7. 1..n \subseteq 1..(n + 1) /\ n + 1 \in 1..(n + 1)
        BY <4>2
      <4>8. \A i \in 1..(n + 1) : /\ entries'[i].slot \in LiveSlots' /\ slots'[entries'[i].slot].backend = DirectInput
                                  /\ entries'[i].pad \in XboxPads => entries'[i].pad \in unread'
        BY <1>2, <3>3, <3>6, <4>1, <4>2, <4>3, <4>4, <4>6
      <4>9. \A i, j \in 1..(n + 1) :
              entries'[i].slot = entries'[j].slot \/ entries'[i].pad = entries'[j].pad => i = j
        BY <1>2, <4>2, <4>3, <4>4, <4>5, <4>6
      <4>10. \A s \in LiveSlots' : \/ \E u \in DOMAIN Users : connected'[u] = s
                                   \/ \E i \in 1..(n + 1) : entries'[i].slot = s
        BY <1>2, <3>1, <4>1, <4>2, <4>3, <4>4, <4>7
      <4>11. /\ \A u \in DOMAIN Users :
                  connected'[u] # 0 => connected'[u] \in LiveSlots' /\ slots'[connected'[u]].backend = XInput
             /\ \A u, w \in DOMAIN Users : connected'[u] # 0 /\ connected'[u] = connected'[w] => u = w
        BY <1>2, <3>1, <3>3
      <4> QED BY <4>4, <4>8, <4>9, <4>10, <4>11 DEF Tenants
    <3> QED BY <3>4, <3>5
  <2> QED BY <2>1, <2>2, <2>3
<1> QED BY <1>3, <1>4, <1>5, <1>6, <1>7, BusySteps
-----------------------------------------------------------------------------
(* who has left *)

\* Every step keeps what is known of the pads that are missing.
LEMMA DeparturesKept ==
  ASSUME PadsInv, [PadsNext]_padVars
  PROVE  Departures'
<1> USE DEF PadsInv, world, progress, backends
<1>1. \A i \in DOMAIN entries : entries[i] \in Entries
  BY EntriesAreEntries
<1>2. /\ \A u \in DOMAIN Users : connected[u] # 0 /\ Users[u] \notin attached => Users[u] \in left
      /\ \A i \in DOMAIN entries : entries[i].pad \notin attached => entries[i].pad \in left
      /\ step = "enumerate" =>
           \A i \in DOMAIN entries : ~entries[i].seen => entries[i].pad \in todo \cup left
      /\ \A i, j \in DOMAIN entries : entries[i].pad = entries[j].pad => i = j
      /\ connected \in [DOMAIN Users -> Nat] /\ entries \in Seq(Entries)
  BY DEF Departures, Tenants, WorldTypeOK
<1>3. CASE UNCHANGED <<attached, left, step, todo, connected, entries>>
  BY <1>2, <1>3 DEF Departures
<1>4. CASE XInputDrops
  <2>1. /\ connected' = [connected EXCEPT ![cursor] = 0]
        /\ UNCHANGED <<attached, left, step, todo, entries>>
    BY <1>4 DEF XInputDrops
  <2>2. \A u \in DOMAIN Users : connected'[u] # 0 => connected[u] # 0
    BY <1>2, <2>1
  <2> QED BY <1>2, <2>1, <2>2 DEF Departures
<1>5. CASE XInputFetches
  <2>1. /\ cursor \in DOMAIN Users /\ User \in attached
        /\ step' = "write" /\ left \ {User} \subseteq left' /\ left' \subseteq left
        /\ UNCHANGED <<attached, entries>>
        /\ \A u \in DOMAIN Users : u # cursor => connected'[u] = connected[u]
    BY <1>2, <1>5 DEF XInputFetches, User
  <2> QED BY <1>2, <2>1 DEF Departures, User
<1>6. CASE StartPoll
  <2>1. UNCHANGED <<attached, left, connected>>
    BY <1>6 DEF StartPoll
  <2>2. CASE rescan
    <3>1. entries' = Unseen /\ todo' = attached
      BY <1>6, <2>2 DEF StartPoll
    <3>2. DOMAIN entries' = DOMAIN entries /\ \A i \in DOMAIN entries : entries'[i].pad = entries[i].pad
      BY <1>1, <3>1 DEF Unseen, Entries
    <3> QED BY <1>2, <2>1, <3>1, <3>2 DEF Departures
  <2>3. CASE ~rescan
    <3>1. step' = "read" /\ entries' = entries
      BY <1>6, <2>3 DEF StartPoll
    <3> QED BY <1>2, <2>1, <3>1 DEF Departures
  <2> QED BY <2>2, <2>3
<1>7. ASSUME NEW pad \in Pads, NEW readable \in BOOLEAN, Consider(pad, readable) PROVE Departures'
  <2>1. /\ step = "enumerate" /\ todo' = todo \ {pad}
        /\ UNCHANGED <<attached, step, connected>>
    BY <1>7 DEF Consider
  <2>2. CASE EntryOf(pad) # {}
    <3>1. PICK i \in DOMAIN entries : entries[i].pad = pad /\ entries' = SeenAgain(i)
      BY <1>7, <2>2 DEF Consider, EntryOf
    <3>2. left' = left
      BY <1>7, <2>2 DEF Consider
    <3>3. /\ DOMAIN entries' = DOMAIN entries /\ entries'[i].seen = TRUE
          /\ \A j \in DOMAIN entries : /\ entries'[j].pad = entries[j].pad
                                       /\ j # i => entries'[j] = entries[j]
      BY <1>1, <3>1 DEF SeenAgain, Entries
    <3>4. \A j \in DOMAIN entries : j # i => entries[j].pad # pad
      BY <1>2, <3>1
    <3> QED BY <1>2, <2>1, <3>2, <3>3, <3>4 DEF Departures
  <2>3. CASE EntryOf(pad) = {} /\ Declines(pad, readable)
    <3>1. UNCHANGED <<left, entries>>
      BY <1>7, <2>3 DEF Consider
    <3>2. \A j \in DOMAIN entries : entries[j].pad # pad
      BY <2>3 DEF EntryOf
    <3> QED BY <1>2, <2>1, <3>1, <3>2 DEF Departures
  <2>4. CASE EntryOf(pad) = {} /\ ~Declines(pad, readable)
    <3>1. /\ left' = left \ {pad} /\ pad \in attached
          /\ entries' = entries \/ entries' = Append(entries, NewEntry(pad))
      BY <1>7, <2>4 DEF Consider, Declines
    <3>2. \A j \in DOMAIN entries : entries[j].pad # pad
      BY <2>4 DEF EntryOf
    <3>3. \A j \in DOMAIN entries' : \/ j \in DOMAIN entries /\ entries'[j] = entries[j]
                                     \/ entries'[j] = NewEntry(pad)
      <4>1. Append(entries, NewEntry(pad)) \in Seq(Entries) /\ NewEntry(pad) \in Entries
        BY SlotNumbers, EntryChanges DEF NewEntry, Entries
      <4>2. DOMAIN Append(entries, NewEntry(pad)) = 1..(Len(entries) + 1)
            /\ DOMAIN entries = 1..Len(entries) /\ Len(entries) \in Nat
        BY <1>2, <4>1, AppendProperties, LenProperties
      <4> QED BY <1>2, <3>1, <4>1, <4>2, AppendProperties
    <3>4. NewEntry(pad).pad = pad /\ NewEntry(pad).seen = TRUE
      BY DEF NewEntry
    <3> QED BY <1>2, <2>1, <3>1, <3>2, <3>3, <3>4 DEF Departures
  <2> QED BY <2>2, <2>3, <2>4
<1>8. CASE DropUnseen
  <2>1. PICK i \in DOMAIN entries : entries' = Erased(i)
    BY <1>8 DEF DropUnseen
  <2>2. UNCHANGED <<attached, left, step, todo, connected>>
    BY <1>8 DEF DropUnseen
  <2>3. Len(entries) \in Nat /\ DOMAIN entries = 1..Len(entries) /\ i \in 1..Len(entries)
    BY <1>2, LenProperties
  <2>4. \A j \in DOMAIN entries' : \E k \in DOMAIN entries : entries'[j] = entries[k]
    <3>1. DOMAIN entries' = 1..(Len(entries) - 1) /\
          \A j \in 1..(Len(entries) - 1) : entries'[j] = IF j < i THEN entries[j] ELSE entries[j + 1]
      BY <1>2, <2>1, <2>3, RemoveAtProperties DEF Erased
    <3> QED BY <2>3, <3>1
  <2> QED BY <1>2, <2>2, <2>4 DEF Departures
<1>9. CASE ReadEntry
  <2> DEFINE e == AcquiredIf(entries[cursor], Reached(entries[cursor]))
  <2>1. entries' = [entries EXCEPT ![cursor] = e] /\ cursor \in DOMAIN entries
        /\ UNCHANGED <<attached, left, step, todo, connected>>
    BY <1>9 DEF ReadEntry
  <2>2. e.pad = entries[cursor].pad /\ e.seen = entries[cursor].seen
    BY <1>1, <2>1 DEF AcquiredIf, Entries
  <2> HIDE DEF e
  <2>3. DOMAIN entries' = DOMAIN entries /\ \A i \in DOMAIN entries :
           entries'[i].pad = entries[i].pad /\ entries'[i].seen = entries[i].seen
    BY <1>1, <2>1, <2>2
  <2> QED BY <1>2, <2>1, <2>3 DEF Departures
<1>10. CASE XInputWrites \/ EnumerationDone \/ DirectInputDone
  <2>1. step' # "enumerate" /\ UNCHANGED <<attached, left, connected, entries>>
    BY <1>10 DEF XInputWrites, EnumerationDone, DirectInputDone
  <2> QED BY <1>2, <2>1 DEF Departures
<1>11. CASE Frame \/ XInputSkips \/ XInputDone \/ UNCHANGED padVars
  BY <1>3, <1>11 DEF Frame, XInputSkips, XInputDone, padVars
<1>12. CASE WorldMoves
  <2>1. CASE Lock \/ Unlock
    BY <1>3, <2>1 DEF Lock, Unlock
  <2>2. ASSUME NEW pad \in Pads, Plug(pad) \/ Unplug(pad) \/ Move(pad) PROVE Departures'
    <3>1. /\ UNCHANGED <<step, todo, connected, entries>>
          /\ left \subseteq left' /\ attached \ attached' \subseteq left'
      BY <2>2 DEF Plug, Unplug, Move
    <3> QED BY <1>2, <3>1 DEF Departures
  <2> QED BY <1>12, <2>1, <2>2 DEF WorldMoves
<1> QED
  BY <1>4, <1>5, <1>6, <1>7, <1>8, <1>9, <1>10, <1>11, <1>12, BusySteps DEF CalmStep
-----------------------------------------------------------------------------
(* the theorems *)

\* No pads, nothing held, nobody missing.
LEMMA InitPadsInv == PadsInit => PadsInv
<1> SUFFICES ASSUME PadsInit PROVE PadsInv
  OBVIOUS
<1>1. Init /\ Inv
  BY InitInv DEF PadsInit
<1>2. /\ attached = {} /\ todo = {} /\ lost = {} /\ left = {} /\ unread = {}
      /\ reading = [p \in Pads |-> 0] /\ fetched = 0 /\ changes = 0
      /\ step = "start" /\ cursor = 1
      /\ connected = [u \in DOMAIN Users |-> 0] /\ entries = <<>>
  BY DEF PadsInit
<1>3. locked \in BOOLEAN
  BY Zenon DEF PadsInit
<1>4. entries \in Seq(Entries) /\ DOMAIN entries = {} /\ LiveSlots = {}
  BY <1>1, <1>2, EmptySeq DEF Init, LiveSlots
<1>5. WorldTypeOK
  BY <1>2, <1>3, <1>4, ContextAssumption, WindowsAssumption DEF WorldTypeOK
<1>6. Tenants
  BY <1>2, <1>4 DEF Tenants
<1>7. Departures
  BY <1>2, <1>4 DEF Departures
<1> QED BY <1>1, <1>5, <1>6, <1>7 DEF PadsInv

\* The invariant of the two backends is inductive.
LEMMA NextPadsInv == PadsInv /\ [PadsNext]_padVars => PadsInv'
<1> SUFFICES ASSUME PadsInv, [PadsNext]_padVars PROVE PadsInv'
  OBVIOUS
<1>1. Inv'
  BY PadsStepIsStep, NextInv DEF PadsInv
<1> QED BY <1>1, TypesKept, TenantsKept, DeparturesKept DEF PadsInv

LEMMA PadsInvHolds == PadsSpec => []PadsInv
<1>1. PadsInit => PadsInv
  BY InitPadsInv
<1>2. PadsInv /\ [PadsNext]_padVars => PadsInv'
  BY NextPadsInv
<1> QED BY <1>1, <1>2, PTL DEF PadsSpec

\* Whatever XInput and DirectInput do to the core, between them and with the
\* pads moving under them, is what GamepadContext allows a backend: so the
\* promise of devices() and all else that is proved of the core holds here.
THEOREM WindowsBackendsImplementContext == PadsSpec => Spec /\ RosterPromise
<1>1. PadsInit => Init
  BY DEF PadsInit
<1>2. PadsInv /\ [PadsNext]_padVars => [Next]_vars
  BY PadsStepIsStep DEF PadsInv
<1> QED BY <1>1, <1>2, PadsInvHolds, ContextKeepsRosterPromise, PTL DEF PadsSpec, Spec

\* The backends' own variables keep their types, and the slots they call the
\* core with are live and theirs, between any two steps.
THEOREM PadsAreWellTyped == PadsSpec => []PadsTypeOK
<1>1. PadsInv => PadsTypeOK
  <2> SUFFICES ASSUME PadsInv PROVE PadsTypeOK
    OBVIOUS
  <2>1. /\ \A u \in DOMAIN connected :
             connected[u] # 0 => Live(connected[u]) /\ slots[connected[u]].backend = XInput
        /\ \A i \in DOMAIN entries :
             Live(entries[i].slot) /\ slots[entries[i].slot].backend = DirectInput
    BY DEF PadsInv, Tenants, WorldTypeOK, Live, LiveSlots
  <2> QED BY <2>1 DEF PadsInv, WorldTypeOK, Entries, PadsTypeOK
<1> QED BY <1>1, PadsInvHolds, PTL

\* A pad whose path could be read has one device at most.
LEMMA OneDevice ==
  ASSUME PadsInv, NEW pad \in Pads \ unread
  PROVE  \A s, r \in DevicesOf(pad) : s = r
<1>1. /\ \A u, w \in DOMAIN Users : Users[u] = Users[w] => u = w
      /\ \A u \in DOMAIN Users : Users[u] \in XboxPads
      /\ \A i \in DOMAIN entries : entries[i].pad \in XboxPads => entries[i].pad \in unread
      /\ \A i, j \in DOMAIN entries : entries[i].pad = entries[j].pad => i = j
  BY WindowsAssumption, UserIsPad DEF PadsInv, Tenants
<1> QED BY <1>1 DEF DevicesOf, EntryOf

\* What a pad's device is held by.
LEMMA HeldBy ==
  ASSUME PadsInv, NEW pad, NEW s
  PROVE  s \in DevicesOf(pad)
           <=> \/ \E u \in DOMAIN Users : Users[u] = pad /\ connected[u] = s /\ s # 0
               \/ \E i \in DOMAIN entries : entries[i].pad = pad /\ entries[i].slot = s
BY DEF DevicesOf, EntryOf

\* A device is of one pad.
LEMMA OnePad ==
  ASSUME PadsInv, NEW pad, NEW other, NEW s \in DevicesOf(pad), s \in DevicesOf(other)
  PROVE  pad = other
<1>1. /\ \A u, w \in DOMAIN Users : connected[u] # 0 /\ connected[u] = connected[w] => u = w
      /\ \A i, j \in DOMAIN entries : entries[i].slot = entries[j].slot => i = j
      /\ \A u \in DOMAIN Users, i \in DOMAIN entries :
           connected[u] # 0 => connected[u] # entries[i].slot
  BY DEF PadsInv, Tenants, XInput, DirectInput
<1> QED BY <1>1, HeldBy

\* No pad whose path could be read is reported by both backends, and no
\* device is without its pad, however XInput and DirectInput come to see it.
THEOREM PadsAreListedOnce == PadsSpec => []ListedOnce
<1>1. PadsInv => ListedOnce
  <2> SUFFICES ASSUME PadsInv PROVE ListedOnce
    OBVIOUS
  <2>1. ASSUME NEW pad \in Pads \ unread PROVE Cardinality(DevicesOf(pad)) <= 1
    <3>1. CASE DevicesOf(pad) = {}
      BY <3>1, FS_EmptySet
    <3>2. CASE DevicesOf(pad) # {}
      <4>1. PICK s : s \in DevicesOf(pad)
        BY <3>2
      <4>2. DevicesOf(pad) = {s}
        BY <4>1, OneDevice
      <4> QED BY <4>2, FS_Singleton
    <3> QED BY <3>1, <3>2
  <2>2. \A pad, other \in Pads : pad # other => DevicesOf(pad) \cap DevicesOf(other) = {}
    BY OnePad
  <2>3. LiveSlots = UNION {DevicesOf(pad) : pad \in Pads}
    <3>1. \A s \in LiveSlots : \E pad \in Pads : s \in DevicesOf(pad)
      <4> TAKE s \in LiveSlots
      <4>1. s # 0
        BY SlotNumbers DEF PadsInv
      <4>2. CASE \E u \in DOMAIN Users : connected[u] = s
        BY <4>1, <4>2, HeldBy, UserIsPad
      <4>3. CASE \E i \in DOMAIN entries : entries[i].slot = s
        BY <4>3, HeldBy, EntriesAreEntries DEF PadsInv, Entries
      <4> QED BY <4>2, <4>3 DEF PadsInv, Tenants
    <3>2. ASSUME NEW pad \in Pads, NEW s \in DevicesOf(pad) PROVE s \in LiveSlots
      BY HeldBy DEF PadsInv, Tenants
    <3> QED BY <3>1, <3>2
  <2> QED BY <2>1, <2>2, <2>3 DEF ListedOnce
<1> QED BY <1>1, PadsInvHolds, PTL

\* A device leaves only if its pad was unplugged since it came: neither a
\* locked desktop nor a lost acquisition is ever taken for that.
THEOREM LockNeverUnplugs == PadsSpec => LockIsNoUnplug
<1> DEFINE OnlyIfLeft == \A pad \in Pads : \A s \in DevicesOf(pad) : RemoveDevice(s) => pad \in left
<1>1. PadsInv /\ [PadsNext]_padVars => OnlyIfLeft
  <2> SUFFICES ASSUME PadsInv, [PadsNext]_padVars,
                      NEW pad \in Pads, NEW s \in DevicesOf(pad), RemoveDevice(s)
               PROVE  pad \in left
    OBVIOUS
  <2>1. s \in LiveSlots /\ s \notin LiveSlots'
    <3>1. s \in DOMAIN slots
      BY DEF RemoveDevice, Holds, Live
    <3> QED BY <3>1, DepartureProperties DEF PadsInv
  <2>2. ASSUME NEW r, RemoveDevice(r) PROVE r = s
    <3>1. r \in DOMAIN slots
      BY <2>2 DEF RemoveDevice, Holds, Live
    <3>2. LiveSlots' = LiveSlots \ {r}
      BY <2>2, <3>1, DepartureProperties DEF PadsInv
    <3> QED BY <2>1, <3>2
  <2>3. CASE CalmStep
    BY <2>1, <2>3, CalmStepIsOther, OthersKeepRoster, SameOccupantsSameIds DEF PadsInv
  <2>4. CASE XInputFetches \/ \E p \in Pads, readable \in BOOLEAN : Consider(p, readable)
    <3>1. \/ LiveSlots' = LiveSlots
          \/ \E p \in Pads, by \in BOOLEAN : AddDevice([guid |-> PadGuid[p], backend_mapped |-> by])
      <4>1. UNCHANGED vars => LiveSlots' = LiveSlots
        BY DEF vars, LiveSlots
      <4> QED BY <2>4, <4>1, UserIsPad DEF XInputFetches, Consider, User
    <3> QED BY <2>1, <3>1, PadDescription, AdmittedProperties DEF PadsInv
  <2>5. CASE XInputDrops
    <3>1. /\ cursor \in DOMAIN Users /\ connected[cursor] # 0 /\ Users[cursor] \notin attached
          /\ connected[cursor] = s
      BY <2>2, <2>5 DEF XInputDrops, User
    <3>2. Users[cursor] = pad
      BY <3>1, HeldBy, OnePad
    <3> QED BY <3>1, <3>2 DEF PadsInv, Departures
  <2>6. CASE DropUnseen
    <3>1. PICK i \in DOMAIN entries : ~entries[i].seen /\ entries[i].slot = s
      BY <2>2, <2>6 DEF DropUnseen
    <3>2. s \in DevicesOf(entries[i].pad)
      BY <3>1 DEF DevicesOf, EntryOf
    <3>3. entries[i].pad = pad
      BY <3>2, OnePad
    <3> QED BY <2>6, <3>1, <3>3 DEF PadsInv, Departures, DropUnseen
  <2> QED BY <2>3, <2>4, <2>5, <2>6, BusySteps DEF PadsInv
<1> QED BY <1>1, PadsInvHolds, PTL DEF PadsSpec, LockIsNoUnplug
=============================================================================
