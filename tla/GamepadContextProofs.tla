------------------------- MODULE GamepadContextProofs -------------------------
(***************************************************************************)
(* What holds of the core for any number of pads, backends, lines and ids. *)
(*                                                                         *)
(* The types of the variables are not inductive by themselves: EndUpdate   *)
(* reads the line a device's mapping points at, so they need that every    *)
(* connected device holds a mapping the table has, which is part of        *)
(* MappingsAreCurrent.  The two are proved together as Inv.                *)
(*                                                                         *)
(* From Inv follows that devices() lists the connected devices and keeps   *)
(* the promise of PadRoster: only add_device() and remove_device() touch   *)
(* the list, and each gets a lemma that says what it does to the list, the *)
(* connected ids and the slots, besides one for every other step.          *)
(*                                                                         *)
(* The queue comes last.  That it agrees with polling needs that buttons   *)
(* are 0 or 1 on both sides of a frame, that no slot shares its id, and    *)
(* that nothing but arrivals and departures is queued before EndUpdate.    *)
(***************************************************************************)
EXTENDS GamepadContext, Extremes, SequenceTheorems
-----------------------------------------------------------------------------
(* sets of numbers and sequences *)

\* A function on the indices of a sequence is a sequence.
LEMMA MapIsSeq ==
  ASSUME NEW S, NEW T, NEW seq \in Seq(S), NEW f, f \in [DOMAIN seq -> T]
  PROVE  f \in Seq(T) /\ DOMAIN f = DOMAIN seq /\ Len(f) = Len(seq)
<1>1. Len(seq) \in Nat /\ DOMAIN seq = 1..Len(seq)
  BY LenProperties
<1>2. f \in Seq(T)
  BY <1>1, SeqDef
<1>3. DOMAIN f = 1..Len(f) /\ Len(f) \in Nat
  BY <1>2, LenProperties
<1> QED BY <1>1, <1>2, <1>3

\* Removing an element closes the gap it leaves.
LEMMA RemoveAtProperties ==
  ASSUME NEW S, NEW seq \in Seq(S), NEW at \in 1..Len(seq)
  PROVE  /\ RemoveAt(seq, at) \in Seq(S)
         /\ DOMAIN RemoveAt(seq, at) = 1..(Len(seq) - 1)
         /\ \A i \in 1..(Len(seq) - 1) :
              RemoveAt(seq, at)[i] = IF i < at THEN seq[i] ELSE seq[i + 1]
<1> DEFINE n      == Len(seq)
           before == SubSeq(seq, 1, at - 1)
           after  == SubSeq(seq, at + 1, n)
<1>0. n \in Nat /\ at \in 1..n /\ n = Len(seq)
  BY LenProperties
<1> HIDE DEF n
<1> USE <1>0
<1>1. \A i \in 1..n : seq[i] \in S
  BY ElementOfSeq
<1>2. /\ before \in Seq(S) /\ Len(before) = at - 1
      /\ \A i \in 1..(at - 1) : before[i] = seq[i]
  <2>1. 1 \in Int /\ at - 1 \in Int /\ \A i \in 1..(at - 1) : seq[i] \in S
    BY <1>1
  <2>2. /\ before \in Seq(S)
        /\ Len(before) = IF 1 <= at - 1 THEN at - 1 - 1 + 1 ELSE 0
        /\ \A i \in 1..(at - 1 - 1 + 1) : before[i] = seq[1 + i - 1]
    BY <2>1, SubSeqProperties
  <2> HIDE DEF before
  <2> QED BY <2>2
<1>3. /\ after \in Seq(S) /\ Len(after) = n - at
      /\ \A i \in 1..(n - at) : after[i] = seq[at + i]
  <2>1. at + 1 \in Int /\ n \in Int /\ \A i \in (at + 1)..n : seq[i] \in S
    BY <1>1
  <2>2. /\ after \in Seq(S)
        /\ Len(after) = IF at + 1 <= n THEN n - (at + 1) + 1 ELSE 0
        /\ \A i \in 1..(n - (at + 1) + 1) : after[i] = seq[at + 1 + i - 1]
    BY <2>1, SubSeqProperties
  <2> HIDE DEF after
  <2>3. \A i \in 1..(n - at) : at + 1 + i - 1 = at + i /\ i \in 1..(n - (at + 1) + 1)
    OBVIOUS
  <2> QED BY <2>2, <2>3
<1>4. RemoveAt(seq, at) = before \o after
  BY DEF RemoveAt
<1> HIDE DEF before, after
<1>5. /\ before \o after \in Seq(S)
      /\ Len(before \o after) = n - 1
      /\ \A i \in 1..(n - 1) :
           (before \o after)[i] = IF i <= at - 1 THEN before[i] ELSE after[i - (at - 1)]
  <2>1. Len(before) + Len(after) = n - 1
    BY <1>2, <1>3
  <2>2. /\ before \o after \in Seq(S)
        /\ Len(before \o after) = Len(before) + Len(after)
        /\ \A i \in 1..(Len(before) + Len(after)) :
             (before \o after)[i] = IF i <= Len(before) THEN before[i]
                                   ELSE after[i - Len(before)]
    BY <1>2, <1>3, ConcatProperties
  <2> QED BY <1>2, <2>1, <2>2
<1>6. DOMAIN (before \o after) = 1..(n - 1)
  BY <1>5, LenProperties
<1>7. ASSUME NEW i \in 1..(n - 1)
      PROVE  (before \o after)[i] = IF i < at THEN seq[i] ELSE seq[i + 1]
  <2>1. CASE i < at
    BY <2>1, <1>2, <1>5
  <2>2. CASE ~(i < at)
    <3>1. i - (at - 1) \in 1..(n - at) /\ at + (i - (at - 1)) = i + 1
      BY <2>2
    <3>2. after[i - (at - 1)] = seq[i + 1]
      BY <3>1, <1>3
    <3> QED BY <2>2, <3>2, <1>5
  <2> QED BY <2>1, <2>2
<1> QED BY <1>4, <1>5, <1>6, <1>7 DEF n

\* Erasing an id leaves a list of ids.
LEMMA EraseType ==
  ASSUME NEW S, NEW ids \in Seq(S), NEW id
  PROVE  Erase(ids, id) \in Seq(S)
<1> DEFINE at == CHOOSE i \in DOMAIN ids : ids[i] = id
<1>1. (\E i \in DOMAIN ids : ids[i] = id) => at \in 1..Len(ids)
  BY LenProperties
<1> HIDE DEF at
<1>2. (\E i \in DOMAIN ids : ids[i] = id) => RemoveAt(ids, at) \in Seq(S)
  BY <1>1, RemoveAtProperties
<1> QED BY <1>2 DEF Erase, at

\* Erasing an id from an increasing list leaves an increasing list of the
\* others.
LEMMA EraseProperties ==
  ASSUME NEW ids \in Seq(Nat), NEW id \in Nat,
         \A i, j \in DOMAIN ids : i < j => ids[i] < ids[j]
  PROVE  /\ Erase(ids, id) \in Seq(Nat)
         /\ {Erase(ids, id)[i] : i \in DOMAIN Erase(ids, id)}
              = {ids[i] : i \in DOMAIN ids} \ {id}
         /\ \A i, j \in DOMAIN Erase(ids, id) :
              i < j => Erase(ids, id)[i] < Erase(ids, id)[j]
<1>1. CASE ~\E i \in DOMAIN ids : ids[i] = id
  <2>1. Erase(ids, id) = ids
    BY <1>1 DEF Erase
  <2> QED BY <1>1, <2>1
<1>2. CASE \E i \in DOMAIN ids : ids[i] = id
  <2> DEFINE at   == CHOOSE i \in DOMAIN ids : ids[i] = id
             n    == Len(ids)
             rest == RemoveAt(ids, at)
  <2>1. n \in Nat /\ DOMAIN ids = 1..n /\ \A i \in 1..n : ids[i] \in Nat
    BY LenProperties, ElementOfSeq
  <2>2. at \in 1..n /\ ids[at] = id
    BY <1>2, <2>1
  <2>3. Erase(ids, id) = rest
    BY <1>2 DEF Erase
  <2>4. /\ rest \in Seq(Nat)
        /\ DOMAIN rest = 1..(n - 1)
        /\ \A i \in 1..(n - 1) : rest[i] = IF i < at THEN ids[i] ELSE ids[i + 1]
    <3> HIDE DEF at
    <3> QED BY <2>2, RemoveAtProperties
  <2> HIDE DEF at, n, rest
  <2>5. \A i, j \in 1..n : i < j => ids[i] < ids[j]
    BY <2>1
  <2>6. ASSUME NEW i \in 1..(n - 1), NEW j \in 1..(n - 1), i < j
        PROVE  rest[i] < rest[j]
    <3>1. i \in 1..n /\ j \in 1..n /\ i + 1 \in 1..n /\ j + 1 \in 1..n /\ i + 1 < j + 1
      BY <2>1, <2>6
    <3>2. ids[i] < ids[j] /\ ids[i + 1] < ids[j + 1] /\ (i < j + 1 => ids[i] < ids[j + 1])
      BY <3>1, <2>5, <2>6
    <3>3. ~(i < at) => ~(j < at)
      BY <2>6, <2>2, <2>1
    <3> QED BY <3>2, <3>3, <2>4, <2>6
  <2>7. ASSUME NEW i \in 1..(n - 1) PROVE rest[i] \in {ids[j] : j \in 1..n} \ {id}
    <3>1. i \in 1..n /\ i + 1 \in 1..n
      BY <2>1
    <3>2. CASE i < at
      <4>1. rest[i] = ids[i]
        BY <3>2, <2>4
      <4>2. ids[i] < id
        BY <3>1, <3>2, <2>2, <2>5
      <4>3. ids[i] # id
        BY <4>2, <3>1, <2>1
      <4> QED BY <3>1, <4>1, <4>3
    <3>3. CASE ~(i < at)
      <4>1. rest[i] = ids[i + 1]
        BY <3>3, <2>4
      <4>2. at < i + 1
        BY <3>3, <2>1, <2>2
      <4>3. id < ids[i + 1]
        BY <3>1, <4>2, <2>2, <2>5
      <4>4. ids[i + 1] # id
        BY <4>3, <3>1, <2>1
      <4> QED BY <3>1, <4>1, <4>4
    <3> QED BY <3>2, <3>3
  <2>8. ASSUME NEW j \in 1..n, ids[j] # id PROVE \E i \in 1..(n - 1) : rest[i] = ids[j]
    <3>1. CASE j < at
      <4>1. j \in 1..(n - 1) /\ rest[j] = ids[j]
        BY <3>1, <2>1, <2>2, <2>4
      <4> QED BY <4>1
    <3>2. CASE ~(j < at)
      <4>1. j # at /\ j - 1 \in 1..(n - 1) /\ ~(j - 1 < at) /\ (j - 1) + 1 = j
        BY <3>2, <2>1, <2>2, <2>8
      <4>2. rest[j - 1] = ids[j]
        BY <4>1, <2>4
      <4> QED BY <4>1, <4>2
    <3> QED BY <3>1, <3>2
  <2>9. {rest[i] : i \in 1..(n - 1)} = {ids[i] : i \in 1..n} \ {id}
    BY <2>7, <2>8
  <2> QED BY <2>1, <2>3, <2>4, <2>6, <2>9
<1> QED BY <1>1, <1>2
-----------------------------------------------------------------------------
(* the mapping table *)

\* A lookup answers the key of a line for this platform, or nothing.
LEMMA FindType ==
  ASSUME NEW tbl, IsTable(tbl), NEW g
  PROVE  Find(tbl, g) # NoMapping => Find(tbl, g) \in DOMAIN tbl /\ tbl[Find(tbl, g)].here
<1> DEFINE hits == {i \in 1..4 : Matches(tbl, Ladder(g)[i])}
<1>1. CASE hits = {}
  BY <1>1 DEF Find
<1>2. CASE hits # {}
  <2>1. PICK i \in hits : \A j \in hits : i <= j
    BY <1>2, LeastExists
  <2>2. Matches(tbl, Ladder(g)[i]) /\ \A j \in 1..(i - 1) : ~Matches(tbl, Ladder(g)[j])
    BY <2>1
  <2> DEFINE first == CHOOSE k \in 1..4 : /\ Matches(tbl, Ladder(g)[k])
                                          /\ \A j \in 1..(k - 1) : ~Matches(tbl, Ladder(g)[j])
  <2>3. Matches(tbl, Ladder(g)[first])
    <3> HIDE DEF hits
    <3>1. i \in 1..4
      BY <2>1 DEF hits
    <3> QED BY <2>2, <3>1 DEF first
  <2>4. Find(tbl, g) = Ladder(g)[first]
    BY <1>2 DEF Find
  <2> HIDE DEF first
  <2> QED BY <2>3, <2>4 DEF Matches
<1> QED BY <1>1, <1>2

\* Adding a text keeps the table well formed, and everything in it has a key.
LEMMA AddManyIsTable ==
  ASSUME NEW tbl, IsTable(tbl), NEW text, IsText(text)
  PROVE  IsTable(AddMany(tbl, text))
<1> DEFINE named == {line.guid : line \in text}
           new   == AddMany(tbl, text)
<1>1. new = [g \in DOMAIN tbl \cup named |->
               IF g \in named THEN CHOOSE line \in text : line.guid = g ELSE tbl[g]]
  BY DEF AddMany
<1>2. DOMAIN new = DOMAIN tbl \cup named
  BY <1>1
<1>3. DOMAIN new \subseteq Guids
  BY <1>2, MappingAssumption DEF IsTable, IsText
<1>4. ASSUME NEW g \in DOMAIN new PROVE new[g] \in Lines /\ new[g].guid = g
  <2>1. CASE g \in named
    <3>1. PICK line \in text : line.guid = g
      BY <2>1
    <3>2. new[g] \in text /\ new[g].guid = g
      BY <2>1, <3>1, <1>1, <1>2
    <3> QED BY <3>2 DEF IsText
  <2>2. CASE g \notin named
    BY <2>2, <1>1, <1>2 DEF IsTable
  <2> QED BY <2>1, <2>2
<1> QED BY <1>3, <1>4 DEF IsTable
-----------------------------------------------------------------------------
(* devices and slots *)

\* Resolving a mapping touches nothing but the mapping, and doing it again
\* for the same table changes nothing.
LEMMA ResolvedProperties ==
  ASSUME NEW tbl, IsTable(tbl), NEW d \in Devices
  PROVE  /\ Resolved(d, tbl) \in Devices
         /\ Resolved(d, tbl).live = d.live
         /\ Resolved(d, tbl).id = d.id
         /\ Resolved(d, tbl).backend = d.backend
         /\ Resolved(Resolved(d, tbl), tbl) = Resolved(d, tbl)
<1> DEFINE found == IF d.backend_mapped THEN NoMapping ELSE Find(tbl, d.guid)
           e     == [d EXCEPT !.mapping = found,
                              !.mapped  = d.backend_mapped \/ found # NoMapping]
<1>1. Resolved(d, tbl) = e
  BY DEF Resolved
<1>2. found \in Guids \cup {NoMapping}
  BY FindType DEF IsTable
<1>3. (d.backend_mapped \/ found # NoMapping) \in BOOLEAN
  BY DEF Devices
<1> HIDE DEF found
<1>4. /\ e \in Devices /\ e.live = d.live /\ e.id = d.id /\ e.backend = d.backend
      /\ e.backend_mapped = d.backend_mapped /\ e.guid = d.guid
  BY <1>2, <1>3 DEF Devices
<1>5. Resolved(e, tbl) = e
  <2>1. found = IF e.backend_mapped THEN NoMapping ELSE Find(tbl, e.guid)
    BY <1>4 DEF found
  <2>2. Resolved(e, tbl) = [e EXCEPT !.mapping = found,
                                     !.mapped = d.backend_mapped \/ found # NoMapping]
    BY <2>1, <1>4 DEF Resolved
  <2> QED BY <2>2 DEF Devices
<1> QED BY <1>1, <1>4, <1>5

\* Whether a device is resolved is a matter of these four fields.
LEMMA ResolvedIff ==
  ASSUME NEW tbl, NEW d \in Devices
  PROVE  d = Resolved(d, tbl)
           <=> /\ d.mapping = IF d.backend_mapped THEN NoMapping ELSE Find(tbl, d.guid)
               /\ d.mapped = (d.backend_mapped \/ d.mapping # NoMapping)
<1> DEFINE found == IF d.backend_mapped THEN NoMapping ELSE Find(tbl, d.guid)
           known == d.backend_mapped \/ found # NoMapping
<1>1. Resolved(d, tbl) = [d EXCEPT !.mapping = found, !.mapped = known]
  BY DEF Resolved
<1>2. d = [d EXCEPT !.mapping = found, !.mapped = known]
        <=> d.mapping = found /\ d.mapped = known
  <2> HIDE DEF found, known
  <2> QED BY DEF Devices
<1> QED BY <1>1, <1>2

\* What a resolved device points at is a line of the table, for this platform.
LEMMA ResolvedPointsIntoTable ==
  ASSUME NEW tbl, IsTable(tbl), NEW d \in Devices, d = Resolved(d, tbl)
  PROVE  /\ d.mapping # NoMapping => d.mapping \in DOMAIN tbl
         /\ d.mapped <=> d.backend_mapped \/ d.mapping # NoMapping
<1>1. d.mapping = IF d.backend_mapped THEN NoMapping ELSE Find(tbl, d.guid)
  BY DEF Resolved, Devices
<1>2. d.mapped <=> d.backend_mapped \/ d.mapping # NoMapping
  BY <1>1 DEF Resolved, Devices
<1> QED BY <1>1, <1>2, FindType

\* The slot a new device gets is one past the end or one whose device is gone.
LEMMA FreeSlotProperties ==
  ASSUME slots \in Seq(Devices)
  PROVE  /\ FreeSlot \in 1..(Len(slots) + 1)
         /\ FreeSlot \in DOMAIN slots => ~slots[FreeSlot].live
         /\ \E n \in Nat : DOMAIN slots \cup {FreeSlot} = 1..n
<1>1. Len(slots) \in Nat /\ DOMAIN slots = 1..Len(slots)
  BY LenProperties
<1> DEFINE dead == {s \in DOMAIN slots : ~slots[s].live}
           n    == Len(slots)
<1>2. CASE dead = {}
  <2>1. FreeSlot = n + 1
    BY <1>2 DEF FreeSlot
  <2>2. DOMAIN slots \cup {n + 1} = 1..(n + 1)
    BY <1>1
  <2> QED BY <1>1, <2>1, <2>2
<1>3. CASE dead # {}
  <2>1. PICK s \in dead : \A r \in dead : s <= r
    <3> HIDE DEF dead
    <3>1. dead \subseteq 1..n
      BY <1>1 DEF dead
    <3> QED BY <1>1, <1>3, <3>1, LeastExists
  <2>2. s \in DOMAIN slots /\ ~slots[s].live /\ \A r \in 1..(s - 1) : slots[r].live
    BY <1>1, <2>1
  <2>3. FreeSlot = CHOOSE q \in DOMAIN slots :
                     ~slots[q].live /\ \A r \in 1..(q - 1) : slots[r].live
    BY <1>3 DEF FreeSlot
  <2>4. FreeSlot \in DOMAIN slots /\ ~slots[FreeSlot].live
    BY <2>2, <2>3
  <2>5. DOMAIN slots \cup {FreeSlot} = 1..n
    BY <1>1, <2>4
  <2> QED BY <1>1, <2>4, <2>5
<1> QED BY <1>2, <1>3

\* Deadzones leave integers.
LEMMA SeenType ==
  ASSUME config \in Configs, NEW o, NEW v \in Int
  PROVE  Seen(o, v) \in Int
<1>1. config.deadzone \in Nat
  BY ContextAssumption
<1> QED BY <1>1 DEF Seen, ProcessedAxis, Magnitude

\* The mapped view of a line is a value for each output.
LEMMA MappedType ==
  ASSUME NEW line \in Lines, NEW raw \in [Raws -> Values]
  PROVE  Mapped(line, raw) \in [Outputs -> Int]
<1>1. \A o \in Outputs : line.source_of[o] \in 0..NRaws
  BY ContextAssumption
<1>2. ASSUME NEW o \in Outputs
      PROVE  (IF line.source_of[o] = 0 THEN 0 ELSE raw[line.source_of[o]]) \in Int
  <2>1. CASE line.source_of[o] = 0
    BY <2>1
  <2>2. CASE line.source_of[o] # 0
    <3>1. line.source_of[o] \in Raws
      BY <1>1, <2>2, ContextAssumption DEF Raws
    <3> QED BY <3>1, <2>2, ContextAssumption
  <2> QED BY <2>1, <2>2
<1> QED BY <1>2 DEF Mapped
-----------------------------------------------------------------------------
(* the invariant *)

\* Types and mappings together, which is inductive.
Inv == TableTypeOK /\ MappingsAreCurrent

\* The device a description becomes is resolved, live and named next_id.
LEMMA NewDeviceProperties ==
  ASSUME Inv, Polling, NEW desc \in Descriptions
  PROVE  /\ NewDevice(desc) \in Devices
         /\ NewDevice(desc).live
         /\ NewDevice(desc).id = next_id
         /\ NewDevice(desc).backend = current_backend
         /\ NewDevice(desc) = Resolved(NewDevice(desc), table)
<1> DEFINE blank ==
      [live |-> TRUE, id |-> next_id, backend |-> current_backend,
       backend_mapped |-> desc.backend_mapped, guid |-> desc.guid,
       mapped |-> FALSE, mapping |-> NoMapping,
       raw |-> [i \in Raws |-> 0], out |-> AtRest, prev |-> AtRest]
<1>1. blank \in Devices
  <2>1. desc.guid \in Guids /\ desc.backend_mapped \in BOOLEAN
    BY ContextAssumption DEF Descriptions
  <2>2. next_id \in Nat /\ current_backend \in 0..NBackends
    BY ContextAssumption DEF Inv, TableTypeOK, Polling
  <2>3. [i \in Raws |-> 0] \in [Raws -> Values] /\ AtRest \in [Outputs -> Int]
    BY ContextAssumption DEF AtRest
  <2> QED BY <2>1, <2>2, <2>3 DEF Devices
<1>2. blank.live /\ blank.id = next_id /\ blank.backend = current_backend
  OBVIOUS
<1>3. NewDevice(desc) = Resolved(blank, table)
  BY DEF NewDevice
<1>4. IsTable(table)
  BY DEF Inv, TableTypeOK
<1> HIDE DEF blank
<1> QED BY <1>1, <1>2, <1>3, <1>4, ResolvedProperties

\* The remembered outputs of a frame are integers, and nothing else changes.
LEMMA RememberedProperties ==
  ASSUME Inv, NEW d \in Devices
  PROVE  /\ Remembered(d) \in Devices
         /\ d = Resolved(d, table) => Remembered(d) = Resolved(Remembered(d), table)
         /\ Remembered(d).live = d.live /\ Remembered(d).id = d.id
         /\ Remembered(d).backend = d.backend
<1> DEFINE seen == [o \in Outputs |-> Seen(o, d.out[o])]
<1>1. seen \in [Outputs -> Int]
  <2>1. \A o \in Outputs : d.out[o] \in Int
    BY DEF Devices
  <2> QED BY <2>1, SeenType DEF Inv, TableTypeOK
<1>2. Remembered(d) = [d EXCEPT !.prev = seen]
  BY DEF Remembered
<1> HIDE DEF seen
<1>3. /\ Remembered(d) \in Devices
      /\ \A f \in {"live", "id", "backend", "backend_mapped", "guid", "mapped", "mapping"} :
           Remembered(d)[f] = d[f]
  BY <1>1, <1>2 DEF Devices
<1>4. d = Resolved(d, table) => Remembered(d) = Resolved(Remembered(d), table)
  BY <1>3, ResolvedIff
<1> QED BY <1>3, <1>4

\* Applying a mapping changes nothing but the outputs.
LEMMA AppliedProperties ==
  ASSUME Inv, NEW d \in Devices, d.live => d = Resolved(d, table)
  PROVE  /\ Applied(d) \in Devices
         /\ d.live => Applied(d) = Resolved(Applied(d), table)
         /\ Applied(d).live = d.live /\ Applied(d).id = d.id
         /\ Applied(d).backend = d.backend
         /\ d.live /\ ~d.mapped => Applied(d).out = AtRest
<1>1. CASE ~d.live \/ d.backend_mapped
  <2>1. Applied(d) = d
    BY <1>1 DEF Applied
  <2>2. d.live => d.mapped
    BY <1>1, ResolvedPointsIntoTable DEF Inv, TableTypeOK
  <2> QED BY <2>1, <2>2
<1>2. CASE d.live /\ ~d.backend_mapped
  <2> DEFINE view == IF d.mapping = NoMapping THEN AtRest
                     ELSE Mapped(table[d.mapping], d.raw)
  <2>1. Applied(d) = [d EXCEPT !.out = view]
    BY <1>2 DEF Applied
  <2>2. /\ d.mapping # NoMapping => d.mapping \in DOMAIN table
        /\ d.mapped <=> d.mapping # NoMapping
    BY <1>2, ResolvedPointsIntoTable DEF Inv, TableTypeOK
  <2>3. view \in [Outputs -> Int]
    <3>1. CASE d.mapping = NoMapping
      BY <3>1 DEF AtRest
    <3>2. CASE d.mapping # NoMapping
      <4>1. table[d.mapping] \in Lines
        BY <2>2, <3>2 DEF Inv, TableTypeOK, IsTable
      <4>2. d.raw \in [Raws -> Values]
        BY DEF Devices
      <4> QED BY <3>2, <4>1, <4>2, MappedType
    <3> QED BY <3>1, <3>2
  <2>4. ~d.mapped => view = AtRest
    BY <2>2
  <2> HIDE DEF view
  <2>5. /\ Applied(d) \in Devices /\ Applied(d).out = view
        /\ \A f \in {"live", "id", "backend", "backend_mapped", "guid", "mapped", "mapping"} :
             Applied(d)[f] = d[f]
    BY <2>1, <2>3 DEF Devices
  <2>6. Applied(d) = Resolved(Applied(d), table)
    BY <1>2, <2>5, ResolvedIff
  <2> QED BY <2>4, <2>5, <2>6
<1> QED BY <1>1, <1>2 DEF Devices

\* The constructor establishes the invariant.
LEMMA InitInv == Init => Inv
<1> SUFFICES ASSUME Init PROVE Inv
  OBVIOUS
<1>1. IsTable(table)
  <2>1. IsTable(EmptyTable)
    BY DEF IsTable, EmptyTable
  <2>2. PICK text \in Texts \cup {{}} : table = AddMany(EmptyTable, text)
    BY DEF Init
  <2>3. IsText(text)
    BY ContextAssumption DEF IsText
  <2> QED BY <2>1, <2>2, <2>3, AddManyIsTable
<1>2. slots \in Seq(Devices) /\ live_ids \in Seq(Nat) /\ LiveSlots = {}
  BY EmptySeq DEF Init, LiveSlots
<1>3. first_update \in BOOLEAN /\ rescan \in BOOLEAN /\ config \in Configs
  BY Zenon DEF Init
<1>4. next_id \in Nat \ {0} /\ current_backend \in 0..(NBackends + 1)
  BY ContextAssumption DEF Init
<1> QED BY <1>1, <1>2, <1>3, <1>4 DEF Inv, TableTypeOK, MappingsAreCurrent

\* A step that changes the slots one by one keeps the invariant if each slot
\* stays a device and each connected one is resolved for the new table.
LEMMA SlotwiseInv ==
  ASSUME Inv, IsTable(table'),
         NEW f, slots' = f, f \in [DOMAIN slots -> Devices],
         \A s \in DOMAIN slots : f[s].live => f[s] = Resolved(f[s], table')
  PROVE  slots' \in Seq(Devices) /\ MappingsAreCurrent'
<1>1. slots \in Seq(Devices)
  BY DEF Inv, TableTypeOK
<1>2. slots' \in Seq(Devices) /\ DOMAIN slots' = DOMAIN slots
  BY <1>1, MapIsSeq
<1> QED BY <1>2 DEF MappingsAreCurrent, LiveSlots

\* Every step keeps the invariant.
LEMMA NextInv == Inv /\ [Next]_vars => Inv'
<1> SUFFICES ASSUME Inv, [Next]_vars PROVE Inv'
  OBVIOUS
<1> USE DEF Inv
<1>1. /\ slots \in Seq(Devices) /\ \A s \in DOMAIN slots : slots[s] \in Devices
      /\ \A s \in DOMAIN slots : slots[s].live => slots[s] = Resolved(slots[s], table)
      /\ IsTable(table) /\ config \in Configs
      /\ live_ids \in Seq(Nat) /\ next_id \in Nat \ {0}
      /\ current_backend \in 0..(NBackends + 1)
      /\ NBackends \in Nat
      /\ first_update \in BOOLEAN /\ rescan \in BOOLEAN
  <2>1. \A s \in DOMAIN slots : slots[s] \in Devices
    BY ElementOfSeq, LenProperties DEF TableTypeOK
  <2> QED BY <2>1, ContextAssumption DEF TableTypeOK, MappingsAreCurrent, LiveSlots
<1>2. CASE BeginUpdate
  <2>1. slots' = [s \in DOMAIN slots |->
                    IF slots[s].live THEN Remembered(slots[s]) ELSE slots[s]]
    BY <1>2 DEF BeginUpdate
  <2>2. slots' \in Seq(Devices) /\ MappingsAreCurrent'
    <3> DEFINE f == [s \in DOMAIN slots |->
                       IF slots[s].live THEN Remembered(slots[s]) ELSE slots[s]]
    <3>1. \A s \in DOMAIN slots : /\ f[s] \in Devices
                                  /\ f[s].live => f[s] = Resolved(f[s], table)
      BY <1>1, RememberedProperties
    <3>2. table' = table /\ slots' = f /\ f \in [DOMAIN slots -> Devices]
      BY <1>2, <2>1, <3>1 DEF BeginUpdate
    <3> HIDE DEF f
    <3> QED BY <1>1, <3>1, <3>2, SlotwiseInv
  <2>3. first_update' \in BOOLEAN /\ rescan' \in BOOLEAN
    <3>1. rescan' \in {TRUE} \/ rescan' \in BOOLEAN
      BY <1>2 DEF BeginUpdate
    <3> QED BY <1>2, <3>1, Zenon DEF BeginUpdate
  <2>4. current_backend' \in 0..(NBackends + 1)
    BY <1>1, <1>2 DEF BeginUpdate
  <2>5. UNCHANGED <<config, table, live_ids, next_id>>
    BY <1>2 DEF BeginUpdate
  <2> QED BY <1>1, <2>2, <2>3, <2>4, <2>5 DEF TableTypeOK
<1>3. CASE NextBackend
  BY <1>1, <1>3 DEF NextBackend, Polling, TableTypeOK, MappingsAreCurrent, LiveSlots
<1>4. CASE EndUpdate
  <2> DEFINE f == [s \in DOMAIN slots |-> Applied(slots[s])]
  <2>1. \A s \in DOMAIN slots : /\ f[s] \in Devices
                                /\ f[s].live => f[s] = Resolved(f[s], table)
    BY <1>1, AppliedProperties
  <2>2. table' = table /\ slots' = f /\ f \in [DOMAIN slots -> Devices]
    BY <1>4, <2>1 DEF EndUpdate
  <2>3. slots' \in Seq(Devices) /\ MappingsAreCurrent'
    <3> HIDE DEF f
    <3> QED BY <1>1, <2>1, <2>2, SlotwiseInv
  <2>4. first_update' \in BOOLEAN /\ rescan' \in BOOLEAN
    BY <1>1, <1>4, Zenon DEF EndUpdate
  <2>5. current_backend' \in 0..(NBackends + 1)
    BY <1>1, <1>4 DEF EndUpdate
  <2>6. UNCHANGED <<config, table, live_ids, next_id>>
    BY <1>4 DEF EndUpdate
  <2> QED BY <1>1, <2>3, <2>4, <2>5, <2>6 DEF TableTypeOK
<1>5. ASSUME NEW desc \in Descriptions, AddDevice(desc) PROVE Inv'
  <2> DEFINE device   == NewDevice(desc)
             declined == ~device.mapped /\ ~config.report_unmapped
             stored   == [device EXCEPT !.live = ~declined]
  <2>1. /\ device \in Devices /\ device.live /\ device.id = next_id
        /\ device = Resolved(device, table)
    BY <1>5, NewDeviceProperties DEF AddDevice
  <2>2. /\ stored \in Devices
        /\ stored.live => stored = Resolved(stored, table)
    <3>1. declined \in BOOLEAN
      OBVIOUS
    <3> HIDE DEF device, declined
    <3>2. stored \in Devices /\ (stored.live => stored = device)
      BY <2>1, <3>1 DEF Devices
    <3> QED BY <2>1, <3>2
  <2>3. /\ slots' = [s \in DOMAIN slots \cup {FreeSlot} |->
                       IF s = FreeSlot THEN stored ELSE slots[s]]
        /\ next_id' = next_id + 1 /\ table' = table /\ config' = config
        /\ live_ids' = live_ids \/ live_ids' = Append(live_ids, device.id)
        /\ UNCHANGED <<current_backend, first_update, rescan>>
    BY <1>5 DEF AddDevice
  <2> HIDE DEF device, stored
  <2>4. PICK n \in Nat : DOMAIN slots \cup {FreeSlot} = 1..n
    BY <1>1, FreeSlotProperties
  <2>5. slots' \in [1..n -> Devices]
    BY <1>1, <2>2, <2>3, <2>4
  <2>6. slots' \in Seq(Devices)
    BY <2>5, SeqDef
  <2>7. MappingsAreCurrent'
    BY <1>1, <2>2, <2>3 DEF MappingsAreCurrent, LiveSlots
  <2>8. live_ids' \in Seq(Nat)
    BY <1>1, <2>1, <2>3, AppendProperties
  <2> QED BY <1>1, <2>3, <2>6, <2>7, <2>8 DEF TableTypeOK
<1>6. ASSUME NEW s \in DOMAIN slots, RemoveDevice(s) PROVE Inv'
  <2> DEFINE gone == [slots[s] EXCEPT !.live = FALSE, !.backend = 0]
             f    == [slots EXCEPT ![s] = gone]
  <2>1. slots' = f /\ table' = table
    BY <1>6 DEF RemoveDevice
  <2>2. gone \in Devices /\ ~gone.live
    <3> DEFINE d == slots[s]
    <3>1. d \in Devices /\ 0 \in 0..NBackends
      BY <1>1
    <3> HIDE DEF d
    <3>2. [d EXCEPT !.live = FALSE, !.backend = 0] \in Devices
      BY <3>1 DEF Devices
    <3>3. ~[d EXCEPT !.live = FALSE, !.backend = 0].live
      BY <3>1 DEF Devices
    <3> QED BY <3>2, <3>3 DEF d
  <2>3. slots' \in Seq(Devices) /\ MappingsAreCurrent'
    <3>1. /\ f \in [DOMAIN slots -> Devices]
          /\ \A r \in DOMAIN slots : f[r].live => f[r] = Resolved(f[r], table)
      <4> HIDE DEF gone
      <4> QED BY <1>1, <2>2
    <3> HIDE DEF f
    <3> QED BY <1>1, <2>1, <3>1, SlotwiseInv
  <2>4. live_ids' \in Seq(Nat)
    BY <1>1, <1>6, EraseType DEF RemoveDevice
  <2> QED BY <1>1, <1>6, <2>3, <2>4 DEF RemoveDevice, TableTypeOK
<1>7. ASSUME NEW s \in DOMAIN slots, NEW i \in Raws, NEW v \in Values, SetRaw(s, i, v)
      PROVE  Inv'
  <2> DEFINE d == slots[s]
             e == [d EXCEPT !.raw = [d.raw EXCEPT ![i] = v]]
             f == [slots EXCEPT ![s] = e]
  <2>1. slots' = f /\ table' = table
    BY <1>7 DEF SetRaw
  <2>2. e \in Devices /\ (e.live => e = Resolved(e, table))
    <3>1. d \in Devices /\ (d.live => d = Resolved(d, table))
      BY <1>1
    <3> HIDE DEF d
    <3>2. [d.raw EXCEPT ![i] = v] \in [Raws -> Values]
      BY <3>1 DEF Devices
    <3>3. /\ e \in Devices /\ e.live = d.live
          /\ e.backend_mapped = d.backend_mapped /\ e.guid = d.guid
          /\ e.mapped = d.mapped /\ e.mapping = d.mapping
      BY <3>1, <3>2 DEF Devices
    <3> HIDE DEF e
    <3> QED BY <3>1, <3>3, ResolvedIff
  <2>3. slots' \in Seq(Devices) /\ MappingsAreCurrent'
    <3>1. /\ f \in [DOMAIN slots -> Devices]
          /\ \A r \in DOMAIN slots : f[r].live => f[r] = Resolved(f[r], table)
      <4> HIDE DEF e
      <4> QED BY <1>1, <2>2
    <3> HIDE DEF f
    <3> QED BY <1>1, <2>1, <3>1, SlotwiseInv
  <2> QED BY <1>1, <1>7, <2>3 DEF SetRaw, TableTypeOK
<1>8. ASSUME NEW s \in DOMAIN slots, NEW o \in Outputs, NEW v \in Values, SetOutput(s, o, v)
      PROVE  Inv'
  <2> DEFINE d == slots[s]
             e == [d EXCEPT !.out = [d.out EXCEPT ![o] = v]]
             f == [slots EXCEPT ![s] = e]
  <2>1. slots' = f /\ table' = table
    BY <1>8 DEF SetOutput
  <2>2. e \in Devices /\ (e.live => e = Resolved(e, table))
    <3>1. d \in Devices /\ (d.live => d = Resolved(d, table)) /\ v \in Int
      BY <1>1, ContextAssumption
    <3> HIDE DEF d
    <3>2. [d.out EXCEPT ![o] = v] \in [Outputs -> Int]
      BY <3>1 DEF Devices
    <3>3. /\ e \in Devices /\ e.live = d.live
          /\ e.backend_mapped = d.backend_mapped /\ e.guid = d.guid
          /\ e.mapped = d.mapped /\ e.mapping = d.mapping
      BY <3>1, <3>2 DEF Devices
    <3> HIDE DEF e
    <3> QED BY <3>1, <3>3, ResolvedIff
  <2>3. slots' \in Seq(Devices) /\ MappingsAreCurrent'
    <3>1. /\ f \in [DOMAIN slots -> Devices]
          /\ \A r \in DOMAIN slots : f[r].live => f[r] = Resolved(f[r], table)
      <4> HIDE DEF e
      <4> QED BY <1>1, <2>2
    <3> HIDE DEF f
    <3> QED BY <1>1, <2>1, <3>1, SlotwiseInv
  <2> QED BY <1>1, <1>8, <2>3 DEF SetOutput, TableTypeOK
<1>9. ASSUME NEW text \in Texts, AddMappings(text) PROVE Inv'
  <2> DEFINE tbl == AddMany(table, text)
             f   == Refreshed(tbl)
  <2>1. table' = tbl /\ slots' = f
    BY <1>9 DEF AddMappings
  <2>2. IsTable(tbl)
    BY <1>1, ContextAssumption, AddManyIsTable
  <2>3. slots' \in Seq(Devices) /\ MappingsAreCurrent'
    <3> HIDE DEF tbl
    <3>1. f = [s \in DOMAIN slots |->
                 IF slots[s].live THEN Resolved(slots[s], tbl) ELSE slots[s]]
      BY DEF Refreshed
    <3>2. \A s \in DOMAIN slots : /\ f[s] \in Devices
                                  /\ f[s].live => f[s] = Resolved(f[s], tbl)
      BY <1>1, <2>2, <3>1, ResolvedProperties
    <3>3. f \in [DOMAIN slots -> Devices]
      BY <3>1, <3>2
    <3> HIDE DEF f
    <3> QED BY <2>1, <2>2, <3>2, <3>3, SlotwiseInv
  <2> QED BY <1>1, <1>9, <2>1, <2>2, <2>3 DEF AddMappings, TableTypeOK
<1>10. ASSUME NEW c \in Configs, SetConfig(c) PROVE Inv'
  BY <1>1, <1>10 DEF SetConfig, TableTypeOK, MappingsAreCurrent, LiveSlots
<1>11. CASE UNCHANGED vars
  BY <1>1, <1>11 DEF vars, TableTypeOK, MappingsAreCurrent, LiveSlots
<1> QED
  BY <1>2, <1>3, <1>4, <1>5, <1>6, <1>7, <1>8, <1>9, <1>10, <1>11
  DEF Next, HostCall, GameCall

\* The invariant holds of every behaviour.
THEOREM InvHolds == Spec => []Inv
<1>1. Init => Inv
  BY InitInv
<1>2. Inv /\ [Next]_vars => Inv'
  BY NextInv
<1> QED BY <1>1, <1>2, PTL DEF Spec

\* However often lines are added and devices come and go, each connected
\* device holds the mapping a lookup would find for it now.
THEOREM MappingsStayCurrent == Spec => []MappingsAreCurrent
<1>1. Inv => MappingsAreCurrent
  BY DEF Inv
<1> QED BY <1>1, InvHolds, PTL

\* Every frame empties the mapped view of a device without a mapping.
THEOREM UnmappedStaysEmpty == Spec => UnmappedIsEmpty
<1>1. Inv /\ EndUpdate => \A s \in LiveSlots : ~slots[s].mapped => slots'[s].out = AtRest
  <2> SUFFICES ASSUME Inv, EndUpdate, NEW s \in LiveSlots, ~slots[s].mapped
               PROVE  slots'[s].out = AtRest
    OBVIOUS
  <2>1. s \in DOMAIN slots /\ slots[s].live /\ slots[s] \in Devices
    BY ElementOfSeq, LenProperties DEF Inv, TableTypeOK, LiveSlots
  <2>2. slots[s] = Resolved(slots[s], table)
    BY DEF Inv, MappingsAreCurrent
  <2>3. Applied(slots[s]).out = AtRest
    BY <2>1, <2>2, AppliedProperties
  <2> QED BY <2>1, <2>3 DEF EndUpdate
<1>2. Inv /\ [Next]_vars =>
        [EndUpdate => \A s \in LiveSlots : ~slots[s].mapped => slots'[s].out = AtRest]_vars
  BY <1>1
<1> QED BY <1>2, InvHolds, PTL DEF Spec, UnmappedIsEmpty
-----------------------------------------------------------------------------
(* the steps and the occupants of the slots *)

\* What the three lemmas are about: which slots are live, under which id, for
\* which backend.
SameOccupants ==
  /\ DOMAIN slots' = DOMAIN slots
  /\ \A s \in DOMAIN slots : /\ slots'[s].live = slots[s].live
                             /\ slots'[s].id = slots[s].id
                             /\ slots'[s].backend = slots[s].backend

OtherStep ==
  \/ BeginUpdate \/ NextBackend \/ EndUpdate \/ GameCall
  \/ \E s \in DOMAIN slots, i \in Raws, v \in Values : SetRaw(s, i, v)
  \/ \E s \in DOMAIN slots, o \in Outputs, v \in Values : SetOutput(s, o, v)
  \/ UNCHANGED vars

\* Each slot holds a device.
LEMMA SlotsAreDevices ==
  ASSUME Inv
  PROVE  \A s \in DOMAIN slots : slots[s] \in Devices
BY ElementOfSeq, LenProperties DEF Inv, TableTypeOK

\* Polling a device, a frame's begin and end, and the game's calls leave the
\* list and the occupants of the slots alone.
LEMMA OthersKeepRoster ==
  ASSUME Inv, OtherStep
  PROVE  SameOccupants /\ UNCHANGED <<live_ids, next_id>>
<1>1. CASE BeginUpdate
  BY <1>1, SlotsAreDevices, RememberedProperties DEF BeginUpdate, SameOccupants
<1>2. CASE NextBackend
  BY <1>2 DEF NextBackend, SameOccupants
<1>3. CASE EndUpdate
  <2>1. \A s \in DOMAIN slots : slots[s].live => slots[s] = Resolved(slots[s], table)
    BY DEF Inv, MappingsAreCurrent, LiveSlots
  <2>2. \A s \in DOMAIN slots : /\ Applied(slots[s]).live = slots[s].live
                                /\ Applied(slots[s]).id = slots[s].id
                                /\ Applied(slots[s]).backend = slots[s].backend
    BY <2>1, SlotsAreDevices, AppliedProperties
  <2> QED BY <1>3, <2>2 DEF EndUpdate, SameOccupants
<1>4. ASSUME NEW text \in Texts, AddMappings(text)
      PROVE  SameOccupants /\ UNCHANGED <<live_ids, next_id>>
  <2>1. IsTable(AddMany(table, text))
    BY AddManyIsTable, ContextAssumption DEF Inv, TableTypeOK
  <2> DEFINE tbl == AddMany(table, text)
  <2>2. slots' = [s \in DOMAIN slots |->
                    IF slots[s].live THEN Resolved(slots[s], tbl) ELSE slots[s]]
    BY <1>4 DEF AddMappings, Refreshed
  <2> HIDE DEF tbl
  <2>3. SameOccupants
    BY <2>1, <2>2, SlotsAreDevices, ResolvedProperties DEF SameOccupants, tbl
  <2> QED BY <1>4, <2>3 DEF AddMappings
<1>5. ASSUME NEW c \in Configs, SetConfig(c)
      PROVE  SameOccupants /\ UNCHANGED <<live_ids, next_id>>
  BY <1>5 DEF SetConfig, SameOccupants
<1>6. ASSUME NEW s \in DOMAIN slots, NEW i \in Raws, NEW v \in Values, SetRaw(s, i, v)
      PROVE  SameOccupants /\ UNCHANGED <<live_ids, next_id>>
  <2>1. \A r \in DOMAIN slots : slots[r] \in Devices
    BY SlotsAreDevices
  <2> QED BY <1>6, <2>1 DEF SetRaw, SameOccupants, Devices
<1>7. ASSUME NEW s \in DOMAIN slots, NEW o \in Outputs, NEW v \in Values, SetOutput(s, o, v)
      PROVE  SameOccupants /\ UNCHANGED <<live_ids, next_id>>
  <2>1. \A r \in DOMAIN slots : slots[r] \in Devices
    BY SlotsAreDevices
  <2> QED BY <1>7, <2>1 DEF SetOutput, SameOccupants, Devices
<1>8. CASE UNCHANGED vars
  BY <1>8 DEF vars, SameOccupants
<1> QED
  BY <1>1, <1>2, <1>3, <1>4, <1>5, <1>6, <1>7, <1>8 DEF OtherStep, GameCall

\* Slots with the same occupants show the same roster.
LEMMA SameOccupantsSameIds ==
  ASSUME SameOccupants
  PROVE  LiveSlots' = LiveSlots /\ ConnectedIds' = ConnectedIds
<1>1. LiveSlots' = LiveSlots
  BY DEF SameOccupants, LiveSlots
<1>2. \A s \in LiveSlots : slots'[s].id = slots[s].id
  BY DEF SameOccupants, LiveSlots
<1> QED BY <1>1, <1>2 DEF ConnectedIds

\* add_device() spends an id: on nobody, or on the one slot that was free.
LEMMA ArrivalProperties ==
  ASSUME Inv, NEW desc \in Descriptions, AddDevice(desc)
  PROVE  /\ next_id' = next_id + 1
         /\ \A s \in LiveSlots : s \in LiveSlots' /\ slots'[s] = slots[s]
         /\ \/ live_ids' = live_ids /\ LiveSlots' = LiveSlots
            \/ /\ live_ids' = Append(live_ids, next_id)
               /\ FreeSlot \notin LiveSlots
               /\ LiveSlots' = LiveSlots \cup {FreeSlot}
               /\ slots'[FreeSlot].id = next_id
               /\ slots'[FreeSlot].backend # 0
<1> DEFINE device   == NewDevice(desc)
           declined == ~device.mapped /\ ~config.report_unmapped
           stored   == [device EXCEPT !.live = ~declined]
<1>1. /\ device \in Devices /\ device.id = next_id
      /\ device.backend = current_backend /\ current_backend # 0
  <2>1. Polling
    BY DEF AddDevice
  <2>2. current_backend # 0
    BY <2>1, ContextAssumption DEF Polling
  <2> QED BY <2>1, <2>2, NewDeviceProperties
<1>2. /\ slots' = [s \in DOMAIN slots \cup {FreeSlot} |->
                     IF s = FreeSlot THEN stored ELSE slots[s]]
      /\ next_id' = next_id + 1
      /\ declined => live_ids' = live_ids
      /\ ~declined => live_ids' = Append(live_ids, device.id)
  BY DEF AddDevice
<1>3. declined \in BOOLEAN
  OBVIOUS
<1> HIDE DEF device, declined
<1>4. stored.live = ~declined /\ stored.id = next_id /\ stored.backend # 0
  BY <1>1, <1>3 DEF Devices
<1> HIDE DEF stored
<1>5. FreeSlot \notin LiveSlots
  BY FreeSlotProperties DEF Inv, TableTypeOK, LiveSlots
<1>6. \A s \in LiveSlots : s \in LiveSlots' /\ slots'[s] = slots[s]
  BY <1>2, <1>5 DEF LiveSlots
<1>7. CASE declined
  <2>1. LiveSlots' = LiveSlots
    BY <1>2, <1>4, <1>5, <1>7 DEF LiveSlots
  <2> QED BY <1>2, <1>6, <1>7, <2>1
<1>8. CASE ~declined
  <2>1. LiveSlots' = LiveSlots \cup {FreeSlot}
    BY <1>2, <1>4, <1>5, <1>8 DEF LiveSlots
  <2> QED BY <1>1, <1>2, <1>4, <1>5, <1>6, <1>8, <2>1
<1> QED BY <1>7, <1>8

\* Whether add_device() keeps a device: a mapping is known for it, or the game
\* wants to see those without one too.
Wanted(desc) ==
  desc.backend_mapped \/ Find(table, desc.guid) # NoMapping \/ config.report_unmapped

\* The fields a new device has from its description.
LEMMA NewDeviceFields ==
  ASSUME NEW desc \in Descriptions
  PROVE  /\ NewDevice(desc).backend_mapped = desc.backend_mapped
         /\ NewDevice(desc).guid = desc.guid
         /\ NewDevice(desc).raw = [i \in Raws |-> 0]
         /\ NewDevice(desc).mapped <=> desc.backend_mapped \/ Find(table, desc.guid) # NoMapping
<1>1. desc.backend_mapped \in BOOLEAN
  BY DEF Descriptions
<1>2. NewDevice(desc).mapped = (desc.backend_mapped
        \/ (IF desc.backend_mapped THEN NoMapping ELSE Find(table, desc.guid)) # NoMapping)
  BY DEF NewDevice, Resolved
<1>3. NewDevice(desc).mapped <=> desc.backend_mapped \/ Find(table, desc.guid) # NoMapping
  BY <1>1, <1>2
<1> QED BY <1>3 DEF NewDevice, Resolved

\* The slot of an added device: it was nobody's, and holds the device if that
\* is kept; the others stay as they are.
LEMMA AdmittedProperties ==
  ASSUME Inv, NEW desc \in Descriptions, AddDevice(desc)
  PROVE  /\ FreeSlot \in Nat \ {0} /\ FreeSlot \notin LiveSlots
         /\ \A s \in LiveSlots : s \in LiveSlots' /\ slots'[s] = slots[s]
         /\ Wanted(desc) => LiveSlots' = LiveSlots \cup {FreeSlot} /\ slots'[FreeSlot] = NewDevice(desc)
         /\ ~Wanted(desc) => LiveSlots' = LiveSlots
         /\ slots'[FreeSlot].live <=> Wanted(desc)
<1> DEFINE device   == NewDevice(desc)
           declined == ~device.mapped /\ ~config.report_unmapped
           stored   == [device EXCEPT !.live = ~declined]
<1>1. device \in Devices /\ device.live = TRUE
  BY NewDeviceProperties DEF AddDevice, Devices
<1>2. declined <=> ~Wanted(desc)
  BY NewDeviceFields DEF Wanted
<1>3. slots' = [s \in DOMAIN slots \cup {FreeSlot} |->
                  IF s = FreeSlot THEN stored ELSE slots[s]]
  BY DEF AddDevice
<1>4. FreeSlot \in Nat \ {0} /\ FreeSlot \notin LiveSlots
  BY FreeSlotProperties, LenProperties DEF Inv, TableTypeOK, LiveSlots
<1>5. declined \in BOOLEAN
  OBVIOUS
<1> HIDE DEF device, declined
<1>6. stored.live = ~declined /\ (~declined => stored = device)
  BY <1>1, <1>5 DEF Devices
<1> HIDE DEF stored
<1>7. \A s \in LiveSlots : s \in LiveSlots' /\ slots'[s] = slots[s]
  BY <1>3, <1>4 DEF LiveSlots
<1>8. LiveSlots' = IF declined THEN LiveSlots ELSE LiveSlots \cup {FreeSlot}
  BY <1>3, <1>4, <1>6 DEF LiveSlots
<1> QED BY <1>2, <1>3, <1>4, <1>6, <1>7, <1>8 DEF device

\* remove_device() empties one slot and erases its id.
LEMMA DepartureProperties ==
  ASSUME Inv, NEW s \in DOMAIN slots, RemoveDevice(s)
  PROVE  /\ s \in LiveSlots /\ slots[s].id \in Nat
         /\ LiveSlots' = LiveSlots \ {s}
         /\ \A r \in LiveSlots' : slots'[r] = slots[r]
         /\ live_ids' = Erase(live_ids, slots[s].id)
         /\ next_id' = next_id
<1>1. slots[s] \in Devices /\ s \in LiveSlots
  BY SlotsAreDevices DEF RemoveDevice, Holds, Live, LiveSlots
<1>2. /\ DOMAIN slots' = DOMAIN slots /\ slots'[s].live = FALSE
      /\ \A r \in DOMAIN slots : r # s => slots'[r] = slots[r]
  BY <1>1 DEF RemoveDevice, Devices
<1>3. LiveSlots' = LiveSlots \ {s} /\ \A r \in LiveSlots' : slots'[r] = slots[r]
  BY <1>2 DEF LiveSlots
<1> QED BY <1>1, <1>3 DEF RemoveDevice, Devices
-----------------------------------------------------------------------------
(* devices() is the list of the live slots *)

\* No devices, no list.
LEMMA InitRoster == Init => RosterMatchesSlots
<1> SUFFICES ASSUME Init PROVE RosterMatchesSlots
  OBVIOUS
<1>1. LiveSlots = {} /\ DOMAIN live_ids = {}
  BY DEF Init, LiveSlots
<1> QED BY <1>1 DEF RosterMatchesSlots, ConnectedIds

\* With the invariant of the slots, the list keeps matching them.
LEMMA NextRoster == Inv /\ RosterMatchesSlots /\ [Next]_vars => RosterMatchesSlots'
<1> SUFFICES ASSUME Inv, RosterMatchesSlots, [Next]_vars PROVE RosterMatchesSlots'
  OBVIOUS
<1>1. live_ids \in Seq(Nat) /\ next_id \in Nat
  BY DEF Inv, TableTypeOK
<1>2. /\ {live_ids[i] : i \in DOMAIN live_ids} = ConnectedIds
      /\ \A i, j \in DOMAIN live_ids : i < j => live_ids[i] < live_ids[j]
      /\ \A s, r \in LiveSlots : slots[s].id = slots[r].id => s = r
      /\ \A s \in LiveSlots : slots[s].id \in 1..(next_id - 1) /\ slots[s].backend # 0
  BY DEF RosterMatchesSlots
<1>3. CASE OtherStep
  <2>1. SameOccupants /\ UNCHANGED <<live_ids, next_id>>
    BY <1>3, OthersKeepRoster
  <2>2. LiveSlots' = LiveSlots /\ ConnectedIds' = ConnectedIds
    BY <2>1, SameOccupantsSameIds
  <2>3. \A s \in LiveSlots : slots'[s].id = slots[s].id /\ slots'[s].backend = slots[s].backend
    BY <2>1 DEF SameOccupants, LiveSlots
  <2> QED BY <1>2, <2>1, <2>2, <2>3 DEF RosterMatchesSlots
<1>4. ASSUME NEW desc \in Descriptions, AddDevice(desc) PROVE RosterMatchesSlots'
  <2>1. /\ next_id' = next_id + 1
        /\ \A s \in LiveSlots : s \in LiveSlots' /\ slots'[s] = slots[s]
    BY <1>4, ArrivalProperties
  <2>2. CASE live_ids' = live_ids /\ LiveSlots' = LiveSlots
    <3>1. ConnectedIds' = ConnectedIds
      BY <2>1, <2>2 DEF ConnectedIds
    <3>2. \A s \in LiveSlots' : slots'[s].id \in 1..(next_id' - 1)
      BY <1>1, <1>2, <2>1, <2>2
    <3> QED BY <1>2, <2>1, <2>2, <3>1, <3>2 DEF RosterMatchesSlots
  <2>3. CASE /\ live_ids' = Append(live_ids, next_id)
             /\ FreeSlot \notin LiveSlots
             /\ LiveSlots' = LiveSlots \cup {FreeSlot}
             /\ slots'[FreeSlot].id = next_id
             /\ slots'[FreeSlot].backend # 0
    <3> DEFINE n == Len(live_ids)
    <3>1. n \in Nat /\ DOMAIN live_ids = 1..n
      BY <1>1, LenProperties
    <3>2. /\ DOMAIN live_ids' = 1..(n + 1)
          /\ \A i \in 1..n : live_ids'[i] = live_ids[i]
          /\ live_ids'[n + 1] = next_id
      <4>1. live_ids' \in Seq(Nat) /\ Len(live_ids') = n + 1
        BY <1>1, <2>3, AppendProperties
      <4> QED BY <1>1, <2>3, <4>1, AppendProperties, LenProperties
    <3> HIDE DEF n
    <3>3. ConnectedIds' = ConnectedIds \cup {next_id}
      BY <2>1, <2>3 DEF ConnectedIds
    <3>4. {live_ids'[i] : i \in DOMAIN live_ids'} = ConnectedIds'
      <4>1. \A i \in 1..(n + 1) : i \in 1..n \/ i = n + 1
        BY <3>1
      <4>2. 1..n \subseteq 1..(n + 1) /\ n + 1 \in 1..(n + 1)
        BY <3>1
      <4>3. {live_ids'[i] : i \in 1..(n + 1)} = {live_ids[i] : i \in 1..n} \cup {next_id}
        BY <3>2, <4>1, <4>2
      <4> QED BY <1>2, <3>1, <3>2, <3>3, <4>3
    <3>5. \A i \in 1..n : live_ids[i] \in 1..(next_id - 1)
      <4> TAKE i \in 1..n
      <4>1. live_ids[i] \in ConnectedIds
        BY <1>2, <3>1
      <4> QED BY <1>2, <4>1 DEF ConnectedIds
    <3>6. \A i, j \in DOMAIN live_ids' : i < j => live_ids'[i] < live_ids'[j]
      <4> SUFFICES ASSUME NEW i \in 1..(n + 1), NEW j \in 1..(n + 1), i < j
                   PROVE  live_ids'[i] < live_ids'[j]
        BY <3>2
      <4>1. i \in 1..n
        BY <3>1
      <4>2. CASE j = n + 1
        BY <1>1, <3>2, <3>5, <4>1, <4>2
      <4>3. CASE j # n + 1
        <5>1. j \in 1..n
          BY <3>1, <4>3
        <5> QED BY <1>2, <3>1, <3>2, <4>1, <5>1
      <4> QED BY <4>2, <4>3
    <3>7. \A s \in LiveSlots : slots[s].id # next_id
      BY <1>1, <1>2
    <3>8. \A s, r \in LiveSlots' : slots'[s].id = slots'[r].id => s = r
      BY <1>2, <2>1, <2>3, <3>7
    <3>9. \A s \in LiveSlots' : slots'[s].id \in 1..(next_id' - 1) /\ slots'[s].backend # 0
      <4>1. next_id # 0
        BY DEF Inv, TableTypeOK
      <4>2. next_id \in 1..(next_id' - 1)
        BY <1>1, <2>1, <4>1
      <4>3. \A s \in LiveSlots : slots[s].id \in 1..(next_id' - 1)
        BY <1>1, <1>2, <2>1
      <4> QED BY <1>2, <2>1, <2>3, <4>2, <4>3
    <3> QED BY <3>4, <3>6, <3>8, <3>9 DEF RosterMatchesSlots
  <2> QED BY <1>4, <2>2, <2>3, ArrivalProperties
<1>5. ASSUME NEW s \in DOMAIN slots, RemoveDevice(s) PROVE RosterMatchesSlots'
  <2>1. /\ s \in LiveSlots /\ slots[s].id \in Nat
        /\ LiveSlots' = LiveSlots \ {s}
        /\ \A r \in LiveSlots' : slots'[r] = slots[r]
        /\ live_ids' = Erase(live_ids, slots[s].id)
        /\ next_id' = next_id
    BY <1>5, DepartureProperties
  <2>2. ConnectedIds' = ConnectedIds \ {slots[s].id}
    BY <1>2, <2>1 DEF ConnectedIds
  <2>3. /\ {live_ids'[i] : i \in DOMAIN live_ids'} = ConnectedIds \ {slots[s].id}
        /\ \A i, j \in DOMAIN live_ids' : i < j => live_ids'[i] < live_ids'[j]
    <3> DEFINE id   == slots[s].id
               rest == Erase(live_ids, id)
    <3>1. id \in Nat
      BY <2>1
    <3> HIDE DEF id
    <3>2. /\ {rest[i] : i \in DOMAIN rest} = {live_ids[i] : i \in DOMAIN live_ids} \ {id}
          /\ \A i, j \in DOMAIN rest : i < j => rest[i] < rest[j]
      BY <1>1, <1>2, <3>1, EraseProperties
    <3>3. live_ids' = rest
      BY <2>1 DEF id
    <3> HIDE DEF rest
    <3> QED BY <1>2, <3>2, <3>3 DEF id
  <2>4. /\ \A q, r \in LiveSlots' : slots'[q].id = slots'[r].id => q = r
        /\ \A r \in LiveSlots' : slots'[r].id \in 1..(next_id' - 1) /\ slots'[r].backend # 0
    BY <1>2, <2>1
  <2> QED BY <2>2, <2>3, <2>4 DEF RosterMatchesSlots
<1> QED
  BY <1>3, <1>4, <1>5 DEF Next, HostCall, OtherStep

\* devices() and the connected ids never disagree, however devices come and
\* go and whichever slots they reuse.
THEOREM RosterAlwaysMatchesSlots == Spec => []RosterMatchesSlots
<1>1. Init => RosterMatchesSlots
  BY InitRoster
<1>2. Inv /\ RosterMatchesSlots /\ [Next]_vars => RosterMatchesSlots'
  BY NextRoster
<1> QED BY <1>1, <1>2, InvHolds, PTL DEF Spec
-----------------------------------------------------------------------------
(* the Context implements PadRoster *)

\* The initial Context is the empty roster.
LEMMA InitIsEmpty == Init => Roster!Empty
<1> SUFFICES ASSUME Init PROVE Roster!Empty
  OBVIOUS
<1>1. ConnectedIds = {}
  BY DEF Init, ConnectedIds, LiveSlots
<1> QED BY <1>1 DEF Init, Roster!Empty

\* Every step of the Context is a change of the roster or leaves it.
LEMMA StepIsChange ==
  Inv /\ RosterMatchesSlots /\ [Next]_vars => [Roster!Change]_(Roster!rosterVars)
<1> SUFFICES ASSUME Inv, RosterMatchesSlots, [Next]_vars
             PROVE  Roster!Change \/ UNCHANGED <<live_ids, ConnectedIds, next_id - 1>>
  BY DEF Roster!rosterVars
<1>1. next_id \in Nat /\ live_ids \in Seq(Nat)
  BY DEF Inv, TableTypeOK
<1>2. CASE OtherStep
  BY <1>2, OthersKeepRoster, SameOccupantsSameIds
<1>3. ASSUME NEW desc \in Descriptions, AddDevice(desc) PROVE Roster!Change
  <2>1. /\ next_id' - 1 = (next_id - 1) + 1 /\ next_id' - 1 = next_id
        /\ \A s \in LiveSlots : s \in LiveSlots' /\ slots'[s] = slots[s]
    BY <1>1, <1>3, ArrivalProperties
  <2>2. CASE live_ids' = live_ids /\ LiveSlots' = LiveSlots
    <3>1. ConnectedIds' = ConnectedIds
      BY <2>1, <2>2 DEF ConnectedIds
    <3> QED BY <2>1, <2>2, <3>1 DEF Roster!Change, Roster!TurnAway
  <2>3. CASE /\ live_ids' = Append(live_ids, next_id)
             /\ LiveSlots' = LiveSlots \cup {FreeSlot}
             /\ slots'[FreeSlot].id = next_id
    <3>1. ConnectedIds' = ConnectedIds \cup {next_id}
      BY <2>1, <2>3 DEF ConnectedIds
    <3> QED BY <2>1, <2>3, <3>1 DEF Roster!Change, Roster!Arrive
  <2> QED BY <1>3, <2>2, <2>3, ArrivalProperties
<1>4. ASSUME NEW s \in DOMAIN slots, RemoveDevice(s) PROVE Roster!Change
  <2> DEFINE id == slots[s].id
             at == CHOOSE i \in DOMAIN live_ids : live_ids[i] = id
  <2>1. /\ s \in LiveSlots
        /\ LiveSlots' = LiveSlots \ {s}
        /\ \A r \in LiveSlots' : slots'[r] = slots[r]
        /\ live_ids' = Erase(live_ids, id)
        /\ next_id' = next_id
    BY <1>4, DepartureProperties
  <2>2. \E i \in DOMAIN live_ids : live_ids[i] = id
    BY <2>1 DEF RosterMatchesSlots, ConnectedIds
  <2>3. at \in DOMAIN live_ids /\ live_ids[at] = id /\ live_ids' = RemoveAt(live_ids, at)
    BY <2>1, <2>2 DEF Erase
  <2>4. ConnectedIds' = ConnectedIds \ {id}
    BY <2>1 DEF RosterMatchesSlots, ConnectedIds
  <2> HIDE DEF at, id
  <2>5. next_id' - 1 = next_id - 1
    BY <2>1
  <2>6. Roster!Leave(at)
    BY <2>3, <2>4, <2>5 DEF Roster!Leave, Roster!RemoveAt, RemoveAt
  <2> QED BY <2>3, <2>6 DEF Roster!Change
<1> QED
  BY <1>2, <1>3, <1>4 DEF Next, HostCall, OtherStep

\* The Context implements PadRoster: ids are never used twice and the list is
\* in the order of arrival, for any number of pads.
THEOREM ContextKeepsRosterPromise == Spec => RosterPromise
<1>1. Init => Roster!Empty
  BY InitIsEmpty
<1>2. Inv /\ RosterMatchesSlots /\ [Next]_vars => [Roster!Change]_(Roster!rosterVars)
  BY StepIsChange
<1> QED
  BY <1>1, <1>2, InvHolds, RosterAlwaysMatchesSlots, PTL
  DEF Spec, RosterPromise, Roster!RosterSpec
-----------------------------------------------------------------------------
(* the queue *)

\* A queue with something appended has what it had and what was appended.
LEMMA AppendedQueue ==
  ASSUME NEW S, NEW q \in Seq(S), NEW n \in Nat, NEW f \in [1..n -> S]
  PROVE  /\ q \o f \in Seq(S)
         /\ \A i \in DOMAIN (q \o f) : \/ i \in DOMAIN q /\ (q \o f)[i] = q[i]
                                       \/ \E k \in 1..n : (q \o f)[i] = f[k]
         /\ Len(q \o f) = Len(q) + n
         /\ \A i \in DOMAIN q : i \in DOMAIN (q \o f) /\ (q \o f)[i] = q[i]
         /\ \A k \in 1..n : /\ Len(q) + k \in DOMAIN (q \o f)
                            /\ (q \o f)[Len(q) + k] = f[k]
<1>1. f \in Seq(S)
  BY SeqDef
<1>2. Len(f) = n
  <2>1. DOMAIN f = 1..Len(f) /\ Len(f) \in Nat /\ DOMAIN f = 1..n
    BY <1>1, LenProperties
  <2> QED BY <2>1
<1>3. /\ q \o f \in Seq(S) /\ Len(q \o f) = Len(q) + n
      /\ \A i \in 1..(Len(q) + n) : (q \o f)[i] = IF i <= Len(q) THEN q[i] ELSE f[i - Len(q)]
  BY <1>1, <1>2, ConcatProperties
<1>4. Len(q) \in Nat /\ DOMAIN q = 1..Len(q) /\ DOMAIN (q \o f) = 1..(Len(q) + n)
  BY <1>3, LenProperties
<1> DEFINE r == q \o f
<1>5. \A i \in 1..(Len(q) + n) : r[i] = IF i <= Len(q) THEN q[i] ELSE f[i - Len(q)]
  BY <1>3
<1> HIDE DEF r
<1>6. ASSUME NEW i \in 1..(Len(q) + n)
      PROVE  \/ i \in 1..Len(q) /\ r[i] = q[i]
             \/ \E k \in 1..n : r[i] = f[k]
  <2>1. CASE i <= Len(q)
    BY <1>4, <1>5, <2>1
  <2>2. CASE i > Len(q)
    <3>1. i - Len(q) \in 1..n /\ r[i] = f[i - Len(q)]
      BY <1>4, <1>5, <2>2
    <3> QED BY <3>1
  <2> QED BY <1>4, <2>1, <2>2
<1>7. ASSUME NEW k \in 1..n PROVE Len(q) + k \in 1..(Len(q) + n) /\ r[Len(q) + k] = f[k]
  <2>1. Len(q) + k \in 1..(Len(q) + n) /\ ~(Len(q) + k <= Len(q)) /\ (Len(q) + k) - Len(q) = k
    BY <1>4
  <2>2. r[Len(q) + k] = f[k]
    BY <1>5, <2>1
  <2> QED BY <2>1, <2>2
<1>8. \A i \in 1..Len(q) : i \in 1..(Len(q) + n) /\ r[i] = q[i]
  BY <1>4, <1>5
<1> QED BY <1>3, <1>4, <1>6, <1>7, <1>8 DEF r

\* Arrivals and departures are events.
LEMMA DeviceEventType ==
  ASSUME NEW type \in {"DeviceAdded", "DeviceRemoved"}, NEW id \in Nat
  PROVE  DeviceEvent(type, id) \in Events /\ DeviceEvent(type, id).type = type
BY DEF DeviceEvent, Events, EventTypes

\* So is what is reported of an input.
LEMMA InputEventType ==
  ASSUME Inv, NEW d \in Devices, NEW o \in Outputs
  PROVE  InputEvent(d, o) \in Events
<1> DEFINE value == IF o \in Buttons THEN 0 ELSE Seen(o, d.out[o])
           type  == IF o \notin Buttons THEN "AxisMotion"
                    ELSE IF d.out[o] # 0 THEN "ButtonDown" ELSE "ButtonUp"
<1>1. value \in Int
  BY SeenType DEF Inv, TableTypeOK, Devices
<1>2. type \in EventTypes
  BY DEF EventTypes
<1>3. d.id \in Nat
  BY DEF Devices
<1>4. InputEvent(d, o) = [type |-> type, id |-> d.id, what |-> o, value |-> value]
  BY DEF InputEvent
<1> HIDE DEF value, type
<1> QED BY <1>1, <1>2, <1>3, <1>4 DEF Events

\* The slots EndUpdate leaves.
LEMMA AppliedSlots ==
  ASSUME Inv, NEW s \in DOMAIN slots
  PROVE  /\ slots[s] \in Devices /\ Applied(slots[s]) \in Devices
         /\ Applied(slots[s]).live = slots[s].live /\ Applied(slots[s]).id = slots[s].id
         /\ Applied(slots[s]).prev = slots[s].prev
<1>1. slots[s] \in Devices
  BY SlotsAreDevices
<1>2. slots[s].live => slots[s] = Resolved(slots[s], table)
  BY DEF Inv, MappingsAreCurrent, LiveSlots
<1>3. Applied(slots[s]).prev = slots[s].prev
  BY <1>1 DEF Applied, Devices
<1> QED BY <1>1, <1>2, <1>3, AppliedProperties

\* What EndUpdate queues: one event for each input that moved, after what the
\* backends had queued.
InputsInOrder(n, moved) ==
  /\ n \in Nat
  /\ moved \in [1..n -> MovedInputs]
  /\ \A k, l \in 1..n : moved[k] = moved[l] => k = l
  /\ \A m \in MovedInputs : \E k \in 1..n : moved[k] = m
  /\ events' \in Seq(Events)
  /\ Len(events') = Len(events) + n
  /\ \A i \in DOMAIN events : i \in DOMAIN events' /\ events'[i] = events[i]
  /\ \A k \in 1..n :
       /\ Len(events) + k \in DOMAIN events'
       /\ events'[Len(events) + k] = InputEvent(Applied(slots[moved[k][1]]), moved[k][2])
  /\ \A i \in DOMAIN events' :
       \/ i \in DOMAIN events /\ events'[i] = events[i]
       \/ \E m \in MovedInputs : events'[i] = InputEvent(Applied(slots[m[1]]), m[2])

LEMMA InputsAppended ==
  ASSUME Inv, events \in Seq(Events), EndUpdate
  PROVE  \E n, moved : InputsInOrder(n, moved)
<1> DEFINE T == MovedInputs
           size == Cardinality(T)
<1>1. IsFiniteSet(T)
  <2>1. IsFiniteSet(DOMAIN slots) /\ IsFiniteSet(Outputs)
    BY FS_Interval, LenProperties, ContextAssumption DEF Inv, TableTypeOK, Outputs
  <2>2. IsFiniteSet((DOMAIN slots) \X Outputs)
    BY <2>1, FS_Product
  <2> QED BY <2>2, FS_Subset DEF MovedInputs
<1>2. PICK order \in Bijection(1..size, T) :
        events' = events \o [i \in DOMAIN order |->
                               InputEvent(Applied(slots[order[i][1]]), order[i][2])]
  BY DEF EndUpdate
<1>3. /\ size \in Nat /\ order \in [1..size -> T] /\ DOMAIN order = 1..size
      /\ \A t \in T : \E i \in 1..size : order[i] = t
      /\ \A k, l \in 1..size : order[k] = order[l] => k = l
  <2> HIDE DEF T
  <2>1. \A k, l \in 1..size : order[k] = order[l] => k = l
    BY <1>2 DEF Bijection, Injection, IsInjective
  <2> QED BY <1>1, <1>2, <2>1, Enumeration
<1>4. \A m \in T : InputEvent(Applied(slots[m[1]]), m[2]) \in Events
  BY AppliedSlots, InputEventType DEF MovedInputs
<1> DEFINE f == [i \in 1..size |-> InputEvent(Applied(slots[order[i][1]]), order[i][2])]
<1> HIDE DEF T, size
<1>5. f \in [1..size -> Events] /\ events' = events \o f
  BY <1>2, <1>3, <1>4
<1>6. \A k \in 1..size : order[k] \in T /\ f[k] = InputEvent(Applied(slots[order[k][1]]), order[k][2])
  BY <1>3
<1> HIDE DEF f
<1>7. /\ events' \in Seq(Events) /\ Len(events') = Len(events) + size
      /\ \A i \in DOMAIN events : i \in DOMAIN events' /\ events'[i] = events[i]
      /\ \A i \in DOMAIN events' : \/ i \in DOMAIN events /\ events'[i] = events[i]
                                   \/ \E k \in 1..size : events'[i] = f[k]
      /\ \A k \in 1..size : Len(events) + k \in DOMAIN events' /\ events'[Len(events) + k] = f[k]
  <2> DEFINE q == events \o f
  <2>0. size \in Nat /\ f \in [1..size -> Events]
    BY <1>3, <1>5
  <2>1. q \in Seq(Events) /\ Len(q) = Len(events) + size
    BY <2>0, AppendedQueue
  <2>3. \A i \in DOMAIN q : \/ i \in DOMAIN events /\ q[i] = events[i]
                            \/ \E k \in 1..size : q[i] = f[k]
    BY <2>0, AppendedQueue
  <2>4. \A k \in 1..size : Len(events) + k \in DOMAIN q /\ q[Len(events) + k] = f[k]
    BY <2>0, AppendedQueue
  <2>5. \A i \in DOMAIN events : i \in DOMAIN q /\ q[i] = events[i]
    BY <2>0, AppendedQueue
  <2>2. events' = q
    BY <1>5
  <2> HIDE DEF q
  <2> QED BY <2>1, <2>2, <2>3, <2>4, <2>5
<1>8. \A i \in DOMAIN events' :
        \/ i \in DOMAIN events /\ events'[i] = events[i]
        \/ \E m \in T : events'[i] = InputEvent(Applied(slots[m[1]]), m[2])
  BY <1>6, <1>7
<1>9. \A k \in 1..size :
        /\ Len(events) + k \in DOMAIN events'
        /\ events'[Len(events) + k] = InputEvent(Applied(slots[order[k][1]]), order[k][2])
  BY <1>6, <1>7
<1>10. order \in [1..size -> MovedInputs] /\ size \in Nat
  BY <1>3 DEF T
<1>11. /\ \A k, l \in 1..size : order[k] = order[l] => k = l
       /\ \A m \in MovedInputs : \E k \in 1..size : order[k] = m
  BY <1>3 DEF T
<1>12. \A i \in DOMAIN events' :
         \/ i \in DOMAIN events /\ events'[i] = events[i]
         \/ \E m \in MovedInputs : events'[i] = InputEvent(Applied(slots[m[1]]), m[2])
  BY <1>8 DEF T
<1>13. InputsInOrder(size, order)
  BY <1>7, <1>9, <1>10, <1>11, <1>12 DEF InputsInOrder
<1> QED BY <1>13

LEMMA InputsQueued ==
  ASSUME Inv, events \in Seq(Events), EndUpdate
  PROVE  /\ events' \in Seq(Events)
         /\ \A i \in DOMAIN events' :
              \/ i \in DOMAIN events /\ events'[i] = events[i]
              \/ \E m \in MovedInputs : events'[i] = InputEvent(Applied(slots[m[1]]), m[2])
         /\ \A m \in MovedInputs :
              \E i \in DOMAIN events' : events'[i] = InputEvent(Applied(slots[m[1]]), m[2])
<1>1. PICK n, moved : InputsInOrder(n, moved)
  BY InputsAppended
<1>2. ASSUME NEW m \in MovedInputs
      PROVE  \E i \in DOMAIN events' : events'[i] = InputEvent(Applied(slots[m[1]]), m[2])
  <2>1. PICK k \in 1..n : moved[k] = m
    BY <1>1 DEF InputsInOrder
  <2> QED BY <1>1, <2>1 DEF InputsInOrder
<1> QED BY <1>1, <1>2 DEF InputsInOrder

\* What a new mapping line queues: arrivals of devices that are connected.
LEMMA GainsQueued ==
  ASSUME Inv, events \in Seq(Events), NEW text \in Texts, AddMappings(text)
  PROVE  /\ events' \in Seq(Events) /\ Len(events') >= Len(events)
         /\ \A i \in DOMAIN events' :
              \/ i \in DOMAIN events /\ events'[i] = events[i]
              \/ \E s \in LiveSlots : events'[i] = DeviceEvent("DeviceAdded", slots[s].id)
         /\ \A i \in DOMAIN events' : 
              \/ i \in DOMAIN events /\ events'[i] = events[i]
              \/ events'[i].type = "DeviceAdded"
         /\ \A i \in DOMAIN events : i \in DOMAIN events' /\ events'[i] = events[i]
<1> DEFINE T == Gained(AddMany(table, text))
           n == Cardinality(T)
<1>0. \A s \in DOMAIN slots : slots[s] \in Devices /\ slots[s].id \in Nat
  BY SlotsAreDevices DEF Devices
<1>1. IsFiniteSet(T) /\ T \subseteq DOMAIN slots /\ T \subseteq LiveSlots
  <2>1. IsFiniteSet(DOMAIN slots)
    BY FS_Interval, LenProperties DEF Inv, TableTypeOK
  <2>2. T \subseteq DOMAIN slots /\ T \subseteq LiveSlots
    BY DEF Gained, LiveSlots
  <2> HIDE DEF T
  <2> QED BY <2>1, <2>2, FS_Subset
<1>2. PICK order \in Bijection(1..n, T) :
        events' = events \o [i \in DOMAIN order |->
                               DeviceEvent("DeviceAdded", slots[order[i]].id)]
  BY DEF AddMappings
<1> HIDE DEF T
<1>3. n \in Nat /\ order \in [1..n -> T] /\ DOMAIN order = 1..n
  BY <1>1, <1>2, Enumeration
<1> HIDE DEF n
<1> DEFINE f == [i \in 1..n |-> DeviceEvent("DeviceAdded", slots[order[i]].id)]
<1>4. \A k \in 1..n : /\ order[k] \in LiveSlots
                      /\ DeviceEvent("DeviceAdded", slots[order[k]].id) \in Events
                      /\ DeviceEvent("DeviceAdded", slots[order[k]].id).type = "DeviceAdded"
  BY <1>0, <1>1, <1>3, DeviceEventType
<1>5. f \in [1..n -> Events] /\ events' = events \o f
  BY <1>2, <1>3, <1>4
<1>6. \A k \in 1..n : f[k].type = "DeviceAdded"
                      /\ \E s \in LiveSlots : f[k] = DeviceEvent("DeviceAdded", slots[s].id)
  BY <1>4
<1> HIDE DEF f
<1> DEFINE q == events \o f
<1>7. /\ q \in Seq(Events) /\ Len(q) = Len(events) + n
      /\ \A i \in DOMAIN q : \/ i \in DOMAIN events /\ q[i] = events[i]
                             \/ \E k \in 1..n : q[i] = f[k]
  BY <1>3, <1>5, AppendedQueue
<1>8. \A i \in DOMAIN events : i \in DOMAIN q /\ q[i] = events[i]
  BY <1>3, <1>5, AppendedQueue
<1>9. Len(events) + n >= Len(events)
  BY <1>3, LenProperties
<1> HIDE DEF q
<1>10. events' = q
  BY <1>5 DEF q
<1> QED BY <1>6, <1>7, <1>8, <1>9, <1>10

\* What every other step queues: arrivals and departures, and nothing is lost
\* but by the update() that begins.
LEMMA DevicesQueued ==
  ASSUME Inv, events \in Seq(Events), [Next]_vars, ~EndUpdate
  PROVE  /\ events' \in Seq(Events)
         /\ \A i \in DOMAIN events' :
              \/ i \in DOMAIN events /\ events'[i] = events[i]
              \/ events'[i].type \in {"DeviceAdded", "DeviceRemoved"}
         /\ ~BeginUpdate => \A i \in DOMAIN events : i \in DOMAIN events' /\ events'[i] = events[i]
<1>1. \A s \in DOMAIN slots : slots[s] \in Devices /\ slots[s].id \in Nat
  BY SlotsAreDevices DEF Devices
<1>2. CASE events' = events
  BY <1>2
<1>3. CASE BeginUpdate
  <2>1. events' = <<>> /\ DOMAIN events' = {}
    BY <1>3 DEF BeginUpdate
  <2>2. events' \in Seq(Events)
    BY <2>1
  <2> QED BY <1>3, <2>1, <2>2
<1>4. ASSUME NEW type \in {"DeviceAdded", "DeviceRemoved"}, NEW id \in Nat,
             events' = Append(events, DeviceEvent(type, id))
      PROVE  /\ events' \in Seq(Events)
             /\ \A i \in DOMAIN events' :
                  \/ i \in DOMAIN events /\ events'[i] = events[i]
                  \/ events'[i].type \in {"DeviceAdded", "DeviceRemoved"}
             /\ \A i \in DOMAIN events : i \in DOMAIN events' /\ events'[i] = events[i]
  <2> DEFINE e == DeviceEvent(type, id)
  <2>1. e \in Events /\ e.type = type
    BY DeviceEventType
  <2> HIDE DEF e
  <2>2. /\ events' \in Seq(Events) /\ Len(events') = Len(events) + 1
        /\ \A i \in 1..Len(events) : events'[i] = events[i]
        /\ events'[Len(events) + 1] = e
    BY <1>4, <2>1, AppendProperties DEF e
  <2>3. Len(events) \in Nat /\ DOMAIN events = 1..Len(events) /\ DOMAIN events' = 1..(Len(events) + 1)
    BY <2>2, LenProperties
  <2>4. \A i \in DOMAIN events' : i \in DOMAIN events \/ i = Len(events) + 1
    BY <2>3
  <2>5. \A i \in DOMAIN events : i \in DOMAIN events' /\ events'[i] = events[i]
    BY <2>2, <2>3
  <2>6. events'[Len(events) + 1].type \in {"DeviceAdded", "DeviceRemoved"}
    BY <2>1, <2>2
  <2>7. ASSUME NEW i \in DOMAIN events'
        PROVE  \/ i \in DOMAIN events /\ events'[i] = events[i]
               \/ events'[i].type \in {"DeviceAdded", "DeviceRemoved"}
    <3>1. CASE i \in DOMAIN events
      BY <2>5, <3>1
    <3>2. CASE i = Len(events) + 1
      BY <2>6, <3>2
    <3> QED BY <2>4, <3>1, <3>2
  <2> QED BY <2>2, <2>5, <2>7
<1>5. ASSUME NEW desc \in Descriptions, AddDevice(desc), events' # events
      PROVE  \E id \in Nat : events' = Append(events, DeviceEvent("DeviceAdded", id))
  <2>1. NewDevice(desc).id \in Nat
    BY <1>5, NewDeviceProperties DEF AddDevice, Devices
  <2>2. events' = Append(events, DeviceEvent("DeviceAdded", NewDevice(desc).id))
    BY <1>5 DEF AddDevice
  <2> QED BY <2>1, <2>2
<1>6. ASSUME NEW s \in DOMAIN slots, RemoveDevice(s)
      PROVE  events' = Append(events, DeviceEvent("DeviceRemoved", slots[s].id))
  BY <1>6 DEF RemoveDevice
<1>7. ASSUME NEW text \in Texts, AddMappings(text)
      PROVE  /\ events' \in Seq(Events)
             /\ \A i \in DOMAIN events' :
                  \/ i \in DOMAIN events /\ events'[i] = events[i]
                  \/ events'[i].type \in {"DeviceAdded", "DeviceRemoved"}
             /\ \A i \in DOMAIN events : i \in DOMAIN events' /\ events'[i] = events[i]
  BY <1>7, GainsQueued
<1>8. \/ events' = events
      \/ BeginUpdate
      \/ \E desc \in Descriptions : AddDevice(desc)
      \/ \E s \in DOMAIN slots : RemoveDevice(s)
      \/ \E text \in Texts : AddMappings(text)
  BY DEF Next, HostCall, GameCall, SetRaw, SetOutput, NextBackend, SetConfig, vars
<1>9. ASSUME NEW desc \in Descriptions, AddDevice(desc), events' # events
      PROVE  /\ events' \in Seq(Events)
             /\ \A i \in DOMAIN events' :
                  \/ i \in DOMAIN events /\ events'[i] = events[i]
                  \/ events'[i].type \in {"DeviceAdded", "DeviceRemoved"}
             /\ \A i \in DOMAIN events : i \in DOMAIN events' /\ events'[i] = events[i]
  BY <1>4, <1>5, <1>9
<1>10. ASSUME NEW s \in DOMAIN slots, RemoveDevice(s)
      PROVE  /\ events' \in Seq(Events)
             /\ \A i \in DOMAIN events' :
                  \/ i \in DOMAIN events /\ events'[i] = events[i]
                  \/ events'[i].type \in {"DeviceAdded", "DeviceRemoved"}
             /\ \A i \in DOMAIN events : i \in DOMAIN events' /\ events'[i] = events[i]
  BY <1>1, <1>4, <1>6, <1>10
<1> QED BY <1>2, <1>3, <1>7, <1>8, <1>9, <1>10

\* On both sides of a frame a button is up or down.
ButtonsAreBits ==
  \A s \in LiveSlots, b \in Buttons : slots[s].out[b] \in {0, 1} /\ slots[s].prev[b] \in {0, 1}

\* Until the inputs are compared, the queue has arrivals and departures only.
OnlyDeviceEvents ==
  current_backend # 0 =>
    \A i \in DOMAIN events : events[i].type \in {"DeviceAdded", "DeviceRemoved"}

\* EventsMatchPolling at any time between two frames.
PollingAgrees ==
  \A s \in LiveSlots, b \in Buttons :
    /\ Pressed(slots[s], b)  <=> Queued("ButtonDown", slots[s].id, b)
    /\ Released(slots[s], b) <=> Queued("ButtonUp", slots[s].id, b)

QueueInv ==
  /\ events \in Seq(Events) /\ ButtonsAreBits /\ OnlyDeviceEvents /\ EventsMatchPolling

\* Buttons are outputs.
LEMMA ButtonsAreOutputs == Buttons \subseteq Outputs
BY ContextAssumption DEF Buttons, Outputs

\* A button without a mapping is up, and one with a mapping is up or down.
LEMMA AppliedBits ==
  ASSUME Inv, NEW d \in Devices, NEW b \in Buttons, d.out[b] \in {0, 1}
  PROVE  Applied(d).out[b] \in {0, 1}
<1>0. b \in Outputs
  BY ButtonsAreOutputs
<1>1. CASE ~d.live \/ d.backend_mapped
  BY <1>1 DEF Applied
<1>2. CASE ~(~d.live \/ d.backend_mapped)
  <2> DEFINE view == IF d.mapping = NoMapping THEN AtRest ELSE Mapped(table[d.mapping], d.raw)
  <2>1. Applied(d).out = view
    BY <1>2 DEF Applied, Devices
  <2>2. CASE d.mapping = NoMapping
    BY <1>0, <2>1, <2>2 DEF AtRest
  <2>3. CASE d.mapping # NoMapping
    <3>1. \A line, raw : Mapped(line, raw)[b] \in {0, 1}
      BY <1>0 DEF Mapped
    <3> QED BY <2>1, <2>3, <3>1
  <2> QED BY <2>2, <2>3
<1> QED BY <1>1, <1>2

\* Every step keeps buttons up or down.
LEMMA NextBits ==
  ASSUME Inv, ButtonsAreBits, [Next]_vars
  PROVE  ButtonsAreBits'
<1>1. LiveSlots \subseteq DOMAIN slots /\ \A s \in DOMAIN slots : slots[s] \in Devices
  BY SlotsAreDevices DEF LiveSlots
<1>2. CASE slots' = slots
  BY <1>2 DEF ButtonsAreBits, LiveSlots
<1>3. ASSUME DOMAIN slots' = DOMAIN slots,
             \A s \in DOMAIN slots : slots'[s].live = slots[s].live,
             \A s \in LiveSlots, b \in Buttons : slots'[s].out[b] \in {0, 1} /\ slots'[s].prev[b] \in {0, 1}
      PROVE  ButtonsAreBits'
  BY <1>3 DEF ButtonsAreBits, LiveSlots
<1>4. CASE BeginUpdate
  <2>1. slots' = [s \in DOMAIN slots |-> IF slots[s].live THEN Remembered(slots[s]) ELSE slots[s]]
    BY <1>4 DEF BeginUpdate
  <2>2. \A d \in Devices : /\ Remembered(d).live = d.live /\ Remembered(d).out = d.out
                           /\ \A b \in Buttons : Remembered(d).prev[b] = d.out[b]
    BY ButtonsAreOutputs DEF Remembered, Devices, Seen
  <2>3. \A s \in DOMAIN slots : slots'[s].live = slots[s].live
    BY <1>1, <2>1, <2>2
  <2>4. ASSUME NEW s \in LiveSlots, NEW b \in Buttons
        PROVE  slots'[s].out[b] \in {0, 1} /\ slots'[s].prev[b] \in {0, 1}
    <3>1. slots[s] \in Devices /\ slots'[s] = Remembered(slots[s]) /\ slots[s].out[b] \in {0, 1}
      BY <1>1, <2>1 DEF LiveSlots, ButtonsAreBits
    <3> QED BY <2>2, <3>1
  <2> QED BY <1>3, <2>1, <2>3, <2>4
<1>5. CASE EndUpdate
  <2>1. slots' = [s \in DOMAIN slots |-> Applied(slots[s])]
    BY <1>5 DEF EndUpdate
  <2>2. \A s \in DOMAIN slots : slots'[s].live = slots[s].live /\ slots'[s].prev = slots[s].prev
    BY <2>1, AppliedSlots
  <2>3. \A s \in LiveSlots, b \in Buttons :
          slots'[s].out[b] \in {0, 1} /\ slots'[s].prev[b] \in {0, 1}
    BY <1>1, <2>1, <2>2, AppliedBits DEF ButtonsAreBits
  <2> QED BY <1>3, <2>1, <2>2, <2>3
<1>6. ASSUME NEW desc \in Descriptions, AddDevice(desc) PROVE ButtonsAreBits'
  <2>1. /\ \A s \in LiveSlots : slots'[s] = slots[s]
        /\ \A s \in LiveSlots' : s \in LiveSlots \/ (s = FreeSlot /\ slots'[s] = NewDevice(desc))
    BY <1>6, AdmittedProperties
  <2>2. NewDevice(desc).out = AtRest /\ NewDevice(desc).prev = AtRest
    BY DEF NewDevice, Resolved
  <2>3. \A b \in Buttons : AtRest[b] = 0
    BY ButtonsAreOutputs DEF AtRest
  <2> QED BY <2>1, <2>2, <2>3 DEF ButtonsAreBits
<1>7. ASSUME NEW s \in DOMAIN slots, RemoveDevice(s) PROVE ButtonsAreBits'
  BY <1>7, DepartureProperties DEF ButtonsAreBits
<1>8. ASSUME NEW s \in DOMAIN slots, NEW i, NEW v, SetRaw(s, i, v) PROVE ButtonsAreBits'
  <2>1. /\ DOMAIN slots' = DOMAIN slots
        /\ \A r \in DOMAIN slots : /\ slots'[r].live = slots[r].live /\ slots'[r].out = slots[r].out
                                   /\ slots'[r].prev = slots[r].prev
    BY <1>1, <1>8 DEF SetRaw, Devices
  <2> QED BY <2>1 DEF ButtonsAreBits, LiveSlots
<1>9. ASSUME NEW s \in DOMAIN slots, NEW o \in Outputs, NEW v, SetOutput(s, o, v) PROVE ButtonsAreBits'
  <2>1. /\ DOMAIN slots' = DOMAIN slots
        /\ \A r \in DOMAIN slots : /\ slots'[r].live = slots[r].live /\ slots'[r].prev = slots[r].prev
                                   /\ \A b \in Outputs : slots'[r].out[b] = slots[r].out[b]
                                                         \/ (b = o /\ slots'[r].out[b] = v)
    BY <1>1, <1>9 DEF SetOutput, Devices
  <2>2. o \in Buttons => v \in {0, 1}
    BY <1>9 DEF SetOutput
  <2> QED BY <2>1, <2>2, ButtonsAreOutputs DEF ButtonsAreBits, LiveSlots
<1>10. ASSUME NEW text \in Texts, AddMappings(text) PROVE ButtonsAreBits'
  <2> DEFINE tbl == AddMany(table, text)
  <2>1. slots' = [s \in DOMAIN slots |-> IF slots[s].live THEN Resolved(slots[s], tbl) ELSE slots[s]]
    BY <1>10 DEF AddMappings, Refreshed
  <2>2. \A d \in Devices : /\ Resolved(d, tbl).live = d.live /\ Resolved(d, tbl).out = d.out
                           /\ Resolved(d, tbl).prev = d.prev
    BY DEF Resolved, Devices
  <2> HIDE DEF tbl
  <2>3. \A s \in DOMAIN slots : /\ slots'[s].live = slots[s].live /\ slots'[s].out = slots[s].out
                                /\ slots'[s].prev = slots[s].prev
    BY <1>1, <2>1, <2>2
  <2> QED BY <2>1, <2>3 DEF ButtonsAreBits, LiveSlots
<1>11. NextBackend \/ UNCHANGED vars \/ (\E c \in Configs : SetConfig(c)) => slots' = slots
  BY DEF NextBackend, SetConfig, vars
<1> QED
  BY <1>2, <1>4, <1>5, <1>6, <1>7, <1>8, <1>9, <1>10, <1>11 DEF Next, HostCall, GameCall

\* A press is queued for exactly the buttons that went down in the frame, a
\* release for those that went up: the comparison finds them, each under the
\* id of its device, and no device event is mistaken for one.
LEMMA EndUpdateMatches ==
  ASSUME Inv, RosterMatchesSlots, QueueInv, EndUpdate
  PROVE  PollingAgrees'
<1>1. LiveSlots' = LiveSlots
  BY OthersKeepRoster, SameOccupantsSameIds DEF OtherStep
<1>2. /\ \A i \in DOMAIN events : events[i].type \in {"DeviceAdded", "DeviceRemoved"}
      /\ events \in Seq(Events)
  BY ContextAssumption DEF QueueInv, OnlyDeviceEvents, EndUpdate
<1>3. \A s \in LiveSlots : /\ s \in DOMAIN slots /\ slots[s].live /\ slots'[s] = Applied(slots[s])
                           /\ slots'[s].id = slots[s].id
  BY AppliedSlots DEF LiveSlots, EndUpdate
<1>4. \A s \in LiveSlots, b \in Buttons :
        slots'[s].out[b] \in {0, 1} /\ slots'[s].prev[b] \in {0, 1}
  <2>1. ButtonsAreBits'
    BY NextBits DEF QueueInv, Next
  <2> QED BY <1>1, <2>1 DEF ButtonsAreBits
<1>5. \A m \in MovedInputs : m[1] \in LiveSlots /\ m[2] \in Outputs /\ Reported(slots'[m[1]], m[2])
  BY AppliedSlots DEF MovedInputs, LiveSlots, EndUpdate
<1>6. \A s \in LiveSlots, o \in Outputs : Reported(slots'[s], o) => <<s, o>> \in MovedInputs
  BY <1>3, AppliedSlots DEF MovedInputs
<1>7. \A i \in DOMAIN events' :
        \/ i \in DOMAIN events /\ events'[i] = events[i]
        \/ \E m \in MovedInputs : events'[i] = InputEvent(slots'[m[1]], m[2])
  BY <1>2, <1>3, <1>5, InputsQueued
<1>8. \A m \in MovedInputs : \E i \in DOMAIN events' : events'[i] = InputEvent(slots'[m[1]], m[2])
  BY <1>2, <1>3, <1>5, InputsQueued
<1>9. ASSUME NEW s \in LiveSlots, NEW b \in Buttons, NEW type \in {"ButtonDown", "ButtonUp"}
      PROVE  (\E i \in DOMAIN events' : /\ events'[i].type = type /\ events'[i].id = slots'[s].id
                                        /\ events'[i].what = b)
               <=> /\ slots'[s].out[b] # slots'[s].prev[b]
                   /\ type = IF slots'[s].out[b] # 0 THEN "ButtonDown" ELSE "ButtonUp"
  <2>1. b \in Outputs
    BY ButtonsAreOutputs
  <2>2. ASSUME NEW i \in DOMAIN events', events'[i].type = type, events'[i].id = slots'[s].id,
               events'[i].what = b
        PROVE  /\ slots'[s].out[b] # slots'[s].prev[b]
               /\ type = IF slots'[s].out[b] # 0 THEN "ButtonDown" ELSE "ButtonUp"
    <3>1. PICK m \in MovedInputs : events'[i] = InputEvent(slots'[m[1]], m[2])
      BY <1>2, <1>7, <2>2
    <3>2. slots'[m[1]].id = slots'[s].id /\ m[2] = b
      BY <2>2, <3>1 DEF InputEvent
    <3>3. m[1] = s
      BY <1>3, <1>5, <3>2 DEF RosterMatchesSlots
    <3>4. Reported(slots'[s], b) /\ events'[i] = InputEvent(slots'[s], b)
      BY <1>5, <3>1, <3>2, <3>3
    <3> QED BY <2>2, <3>4 DEF Reported, InputEvent
  <2>3. ASSUME slots'[s].out[b] # slots'[s].prev[b],
               type = IF slots'[s].out[b] # 0 THEN "ButtonDown" ELSE "ButtonUp"
        PROVE  \E i \in DOMAIN events' : /\ events'[i].type = type /\ events'[i].id = slots'[s].id
                                         /\ events'[i].what = b
    <3>1. <<s, b>> \in MovedInputs
      BY <1>6, <2>1, <2>3 DEF Reported
    <3>2. PICK i \in DOMAIN events' : events'[i] = InputEvent(slots'[s], b)
      BY <1>8, <3>1
    <3>3. events'[i].type = type /\ events'[i].id = slots'[s].id /\ events'[i].what = b
      BY <2>3, <3>2 DEF InputEvent
    <3> QED BY <3>3
  <2> QED BY <2>2, <2>3
<1>10. ASSUME NEW s \in LiveSlots, NEW b \in Buttons
       PROVE  /\ Pressed(slots'[s], b) <=> Queued("ButtonDown", slots[s].id, b)'
              /\ Released(slots'[s], b) <=> Queued("ButtonUp", slots[s].id, b)'
  <2>1. slots'[s].out[b] \in {0, 1} /\ slots'[s].prev[b] \in {0, 1}
    BY <1>4
  <2>2. Queued("ButtonDown", slots[s].id, b)'
          <=> slots'[s].out[b] # slots'[s].prev[b] /\ slots'[s].out[b] # 0
    BY <1>9 DEF Queued
  <2>3. Queued("ButtonUp", slots[s].id, b)'
          <=> slots'[s].out[b] # slots'[s].prev[b] /\ slots'[s].out[b] = 0
    BY <1>9 DEF Queued
  <2> QED BY <2>1, <2>2, <2>3 DEF Pressed, Released
<1> QED BY <1>1, <1>10 DEF PollingAgrees, Pressed, Released, Queued

\* Backends call the core only while they are polled.
LEMMA HostCallIsPolling == HostCall => Polling /\ current_backend' = current_backend
<1>1. \A desc : AddDevice(desc) => Polling /\ current_backend' = current_backend
  BY DEF AddDevice
<1>2. \A s : RemoveDevice(s) => Polling /\ current_backend' = current_backend
  BY DEF RemoveDevice, Holds
<1>3. \A s, i, v : SetRaw(s, i, v) => Polling /\ current_backend' = current_backend
  BY DEF SetRaw, Holds
<1>4. \A s, o, v : SetOutput(s, o, v) => Polling /\ current_backend' = current_backend
  BY DEF SetOutput, Holds
<1> QED BY <1>1, <1>2, <1>3, <1>4 DEF HostCall

\* Between frames neither buttons nor what was queued of them changes.
LEMMA BetweenFramesMatches ==
  ASSUME Inv, QueueInv, [Next]_vars, ~EndUpdate, current_backend' = 0
  PROVE  EventsMatchPolling'
<1>1. GameCall \/ UNCHANGED vars
  <2>1. ~BeginUpdate /\ ~HostCall
    BY HostCallIsPolling, ContextAssumption DEF BeginUpdate, Polling
  <2>2. ~NextBackend
    BY ContextAssumption DEF NextBackend, Polling
  <2> QED BY <2>1, <2>2 DEF Next
<1>2. current_backend = 0 /\ first_update' = first_update /\ ~BeginUpdate
  BY <1>1, ContextAssumption DEF GameCall, AddMappings, SetConfig, vars, BeginUpdate
<1>3. /\ LiveSlots' = LiveSlots
      /\ \A s \in LiveSlots : /\ slots'[s].id = slots[s].id /\ slots'[s].out = slots[s].out
                              /\ slots'[s].prev = slots[s].prev
  <2>1. LiveSlots' = LiveSlots /\ \A s \in LiveSlots : s \in DOMAIN slots /\ slots[s] \in Devices
    BY <1>1, OthersKeepRoster, SameOccupantsSameIds, SlotsAreDevices DEF OtherStep, LiveSlots
  <2>2. ASSUME NEW text \in Texts, AddMappings(text), NEW s \in LiveSlots
        PROVE  /\ slots'[s].id = slots[s].id /\ slots'[s].out = slots[s].out
               /\ slots'[s].prev = slots[s].prev
    <3> DEFINE tbl == AddMany(table, text)
    <3>1. slots'[s] = Resolved(slots[s], tbl)
      BY <2>1, <2>2 DEF AddMappings, Refreshed, LiveSlots
    <3> HIDE DEF tbl
    <3> QED BY <2>1, <3>1 DEF Resolved, Devices
  <2>3. UNCHANGED vars \/ (\E c \in Configs : SetConfig(c)) => slots' = slots
    BY DEF SetConfig, vars
  <2> QED BY <1>1, <2>1, <2>2, <2>3 DEF GameCall
<1>4. ASSUME NEW type \in {"ButtonDown", "ButtonUp"}, NEW id, NEW b
      PROVE  Queued(type, id, b)' <=> Queued(type, id, b)
  <2>1. /\ \A i \in DOMAIN events' : \/ i \in DOMAIN events /\ events'[i] = events[i]
                                     \/ events'[i].type \in {"DeviceAdded", "DeviceRemoved"}
        /\ \A i \in DOMAIN events : i \in DOMAIN events' /\ events'[i] = events[i]
    BY <1>2, DevicesQueued DEF QueueInv
  <2> QED BY <2>1 DEF Queued
<1>5. ~first_update' => \A s \in LiveSlots, b \in Buttons :
        /\ Pressed(slots[s], b)  <=> Queued("ButtonDown", slots[s].id, b)
        /\ Released(slots[s], b) <=> Queued("ButtonUp", slots[s].id, b)
  BY <1>2 DEF QueueInv, EventsMatchPolling
<1>6. \A s \in LiveSlots, b \in Buttons :
        /\ Pressed(slots[s], b)' <=> Pressed(slots[s], b)
        /\ Released(slots[s], b)' <=> Released(slots[s], b)
  BY <1>3 DEF Pressed, Released
<1>7. \A s \in LiveSlots, b \in Buttons :
        /\ Queued("ButtonDown", slots[s].id, b)' <=> Queued("ButtonDown", slots[s].id, b)
        /\ Queued("ButtonUp", slots[s].id, b)' <=> Queued("ButtonUp", slots[s].id, b)
  BY <1>3, <1>4
<1> QED BY <1>3, <1>5, <1>6, <1>7 DEF EventsMatchPolling

\* Every step keeps the queue in agreement.
LEMMA NextQueue == Inv /\ RosterMatchesSlots /\ QueueInv /\ [Next]_vars => QueueInv'
<1> SUFFICES ASSUME Inv, RosterMatchesSlots, QueueInv, [Next]_vars PROVE QueueInv'
  OBVIOUS
<1>1. ButtonsAreBits'
  BY NextBits DEF QueueInv
<1>2. CASE EndUpdate
  <2>1. events' \in Seq(Events)
    BY <1>2, InputsQueued DEF QueueInv
  <2>2. current_backend' = 0
    BY <1>2 DEF EndUpdate
  <2>3. EventsMatchPolling'
    BY <1>2, EndUpdateMatches DEF EventsMatchPolling, PollingAgrees
  <2> QED BY <1>1, <2>1, <2>2, <2>3 DEF QueueInv, OnlyDeviceEvents
<1>3. CASE ~EndUpdate
  <2>1. /\ events' \in Seq(Events)
        /\ \A i \in DOMAIN events' : \/ i \in DOMAIN events /\ events'[i] = events[i]
                                     \/ events'[i].type \in {"DeviceAdded", "DeviceRemoved"}
    BY <1>3, DevicesQueued DEF QueueInv
  <2>2. CASE current_backend' = 0
    BY <1>1, <1>3, <2>1, <2>2, BetweenFramesMatches DEF QueueInv, OnlyDeviceEvents
  <2>3. CASE current_backend' # 0
    <3>1. CASE BeginUpdate
      <4>1. DOMAIN events' = {}
        BY <3>1 DEF BeginUpdate
      <4> QED BY <1>1, <2>1, <2>3, <4>1 DEF QueueInv, OnlyDeviceEvents, EventsMatchPolling
    <3>2. CASE ~BeginUpdate
      <4>1. current_backend # 0
        BY <1>3, <2>3, <3>2, HostCallIsPolling, ContextAssumption DEF Next, Polling, NextBackend,
           GameCall, AddMappings, SetConfig, vars
      <4> QED BY <1>1, <2>1, <2>3, <4>1 DEF QueueInv, OnlyDeviceEvents, EventsMatchPolling
    <3> QED BY <3>1, <3>2
  <2> QED BY <2>2, <2>3
<1> QED BY <1>2, <1>3

\* The invariant of the queue, on top of those of the slots and the list.
THEOREM QueueInvHolds == Spec => []QueueInv
<1>1. Init => QueueInv
  <2> SUFFICES ASSUME Init PROVE QueueInv
    OBVIOUS
  <2>1. LiveSlots = {} /\ DOMAIN events = {} /\ events \in Seq(Events)
    BY DEF Init, LiveSlots
  <2> QED BY <2>1 DEF QueueInv, ButtonsAreBits, OnlyDeviceEvents, EventsMatchPolling
<1> QED BY <1>1, NextQueue, InvHolds, RosterAlwaysMatchesSlots, PTL DEF Spec

\* Every variable of the core keeps its type, the queue included: what it is
\* given in any order of arrivals, inputs, mapping lines and frames are events.
THEOREM TypesHold == Spec => []TypeOK
<1>1. Inv /\ QueueInv => TypeOK
  BY DEF Inv, QueueInv, TypeOK
<1> QED BY <1>1, InvHolds, QueueInvHolds, PTL

\* The two ways to read a button never disagree, whatever devices come and go
\* under the same slots and whatever the game does between two frames.
THEOREM EventsAlwaysMatchPolling == Spec => []EventsMatchPolling
<1>1. QueueInv => EventsMatchPolling
  BY DEF QueueInv
<1> QED BY <1>1, QueueInvHolds, PTL
=============================================================================
