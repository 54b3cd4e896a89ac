------------------------------ MODULE WindowsPads ------------------------------
(***************************************************************************)
(* The two Windows backends on one core: XInput (backend 1), which sees    *)
(* the Xbox pads by user index, and DirectInput (backend 2), which sees    *)
(* every pad there is, the Xbox ones included, and has to leave those to   *)
(* XInput.  src/src/backend_xinput.cpp and src/src/backend_dinput.cpp.     *)
(*                                                                         *)
(* Every Host call of the two poll()s is a step of GamepadContext.  Pads   *)
(* are plugged, unplugged and moved and the desktop is locked between any  *)
(* two steps, inside an enumeration too.  DirectInput has a pad only while *)
(* it is acquired; unplugging it or locking the desktop loses that, and    *)
(* it stays lost when the pad or the desktop is back.                      *)
(*                                                                         *)
(* A pad has one input: output 1 under XInput, raw input 1 under           *)
(* DirectInput.  XInput's packet numbers and rumble are in XInputPad; here *)
(* an unchanged pad is read to the same effect.                            *)
(***************************************************************************)
EXTENDS GamepadContext

CONSTANTS Pads,        \* the pads of the machine
          PadGuid,     \* the guid DirectInput makes of each
          Users,       \* the Xbox pads, by user index
          MaxChanges   \* bound: what player and desktop do

XInput == 1
DirectInput == 2
XboxPads == {Users[u] : u \in DOMAIN Users}
Unknown == 0           \* vendor and product a backend could not learn

ASSUME WindowsAssumption ==
  /\ NBackends = 2 /\ Scanning = {XInput, DirectInput}
  /\ 1 \in Outputs /\ 1 \in Raws
  /\ PadGuid \in [Pads -> DeviceGuids]
  /\ Users \in Seq(Pads)
  /\ \A u, w \in DOMAIN Users : Users[u] = Users[w] => u = w
  /\ MaxChanges \in Nat

VARIABLES
  attached,   \* the pads plugged in
  reading,    \* what the input of each pad says
  locked,     \* the desktop is locked
  lost,       \* pads whose acquisition was lost
  left,       \* history: pads unplugged since a device was made of them
  unread,     \* history: Xbox pads with an entry for want of their path
  changes,    \* what player and desktop did so far
  step,       \* where the running poll() is
  cursor,     \* user index or entry it is at
  fetched,    \* the state it got from there
  connected,  \* XInput: the slot of each user index, 0 for not connected
  entries,    \* DirectInput: the pads it has, oldest first
  todo        \* DirectInput: what the enumeration has still to call back for

world    == <<attached, reading, locked, lost, left, unread, changes>>
progress == <<step, cursor, fetched>>
backends == <<connected, entries, todo>>
padVars  == <<vars, world, progress, backends>>
-----------------------------------------------------------------------------
(* XInput's poll() *)

XInputPolls == current_backend = XInput
User == Users[cursor]

\* An index without a pad is asked only on a rescan.
XInputSkips ==
  /\ XInputPolls /\ step = "start" /\ cursor \in DOMAIN Users
  /\ connected[cursor] = 0 /\ (~rescan \/ User \notin attached)
  /\ cursor' = cursor + 1
  /\ UNCHANGED <<vars, world, step, fetched, backends>>

XInputDrops ==
  /\ XInputPolls /\ step = "start" /\ cursor \in DOMAIN Users
  /\ connected[cursor] # 0 /\ User \notin attached
  /\ RemoveDevice(connected[cursor])
  /\ connected' = [connected EXCEPT ![cursor] = 0]
  /\ cursor' = cursor + 1
  /\ UNCHANGED <<world, step, fetched, entries, todo>>

\* XInputGetState(): what is fetched here is what the device shows, even if
\* add() comes in between.
XInputFetches ==
  /\ XInputPolls /\ step = "start" /\ cursor \in DOMAIN Users
  /\ User \in attached
  /\ IF connected[cursor] # 0 THEN UNCHANGED <<vars, connected>>
     ELSE /\ rescan
          /\ AddDevice([guid |-> PadGuid[User], backend_mapped |-> TRUE])
          /\ connected' = [connected EXCEPT ![cursor] = FreeSlot]
  /\ left' = IF connected[cursor] # 0 THEN left ELSE left \ {User}
  /\ fetched' = reading[User]
  /\ step' = "write"
  /\ UNCHANGED <<attached, reading, locked, lost, unread, changes, cursor, entries, todo>>

XInputWrites ==
  /\ XInputPolls /\ step = "write"
  /\ SetOutput(connected[cursor], 1, fetched)
  /\ step' = "start" /\ fetched' = 0
  /\ cursor' = cursor + 1
  /\ UNCHANGED <<world, backends>>

XInputDone ==
  /\ XInputPolls /\ step = "start" /\ cursor > Len(Users)
  /\ NextBackend
  /\ cursor' = 1
  /\ UNCHANGED <<world, step, fetched, backends>>
-----------------------------------------------------------------------------
(* DirectInput's poll() *)

DirectInputPolls == current_backend = DirectInput

EntryOf(pad) == {i \in DOMAIN entries : entries[i].pad = pad}

Held == {entries[i].pad : i \in DOMAIN entries}

\* vendor and product as the two backends fill them in: XInput never does.
Product(s) == IF slots[s].backend_mapped THEN Unknown ELSE slots[s].guid.hw

\* hardware_claimed(): more mapped pads than raw ones of this product.  The
\* unique keys of two backends never agree, and a pad of this backend's own
\* was found among the entries.
Claimed(pad) ==
  LET same == {s \in LiveSlots : Product(s) = PadGuid[pad].hw}
  IN Cardinality({s \in same : slots[s].backend_mapped})
       > Cardinality({s \in same : ~slots[s].backend_mapped})

\* is_xinput_device(): a path that cannot be read is no Xbox pad's.
IsXInput(pad, readable) == readable /\ pad \in XboxPads

\* Mutant: only the claim keeps an Xbox pad out.
DeclinesClaimed(pad, readable) == pad \notin attached \/ Claimed(pad)

\* consider() gives up: the pad left before CreateDevice(), the path of its
\* interface says that XInput has it, or it is claimed.
Declines(pad, readable) == pad \notin attached \/ IsXInput(pad, readable) \/ Claimed(pad)

NewEntry(pad) == [pad |-> pad, slot |-> FreeSlot, acquired |-> FALSE, seen |-> TRUE]

\* Mutant: the marks of the last enumeration stay.
StillSeen == entries

\* Before an enumeration no pad has been seen in it.
Unseen == [i \in DOMAIN entries |-> [entries[i] EXCEPT !.seen = FALSE]]

StartPoll ==
  /\ DirectInputPolls /\ step = "start"
  /\ IF rescan
     THEN /\ entries' = Unseen
          /\ todo' = attached
          /\ step' = "enumerate"
     ELSE step' = "read" /\ UNCHANGED <<entries, todo>>
  /\ UNCHANGED <<vars, world, cursor, fetched, connected>>

\* Mutant: a pad that cannot be read counts as missing.
SeenIfAcquired(i) == [entries EXCEPT ![i].seen = entries[i].acquired]

SeenAgain(i) == [entries EXCEPT ![i].seen = TRUE]

\* consider(), called back for each pad that was attached; the query for the
\* path of its interface may fail each time.
Consider(pad, readable) ==
  /\ DirectInputPolls /\ step = "enumerate" /\ pad \in todo
  /\ todo' = todo \ {pad}
  /\ IF EntryOf(pad) # {}
     THEN /\ \E i \in EntryOf(pad) : entries' = SeenAgain(i)
          /\ UNCHANGED <<vars, left, unread>>
     ELSE IF Declines(pad, readable) THEN UNCHANGED <<vars, left, unread, entries>>
     ELSE /\ AddDevice([guid |-> PadGuid[pad], backend_mapped |-> FALSE])
          /\ entries' = IF slots'[FreeSlot].live
                        THEN Append(entries, NewEntry(pad)) ELSE entries
          /\ left' = left \ {pad}
          /\ unread' = unread \cup (IF readable THEN {} ELSE {pad} \cap XboxPads)
  /\ UNCHANGED <<attached, reading, locked, lost, changes, progress, connected>>

\* Mutant: the entry stays behind its device.
Kept(i) == [entries EXCEPT ![i].seen = TRUE]

Erased(i) == RemoveAt(entries, i)

\* Newest first, what the enumeration did not bring back is dropped.
DropUnseen ==
  /\ DirectInputPolls /\ step = "enumerate" /\ todo = {}
  /\ \E i \in DOMAIN entries :
       /\ ~entries[i].seen
       /\ \A j \in DOMAIN entries : j > i => entries[j].seen
       /\ RemoveDevice(entries[i].slot)
       /\ entries' = Erased(i)
       /\ unread' = unread \ {entries[i].pad}
  /\ UNCHANGED <<attached, reading, locked, lost, left, changes, progress, connected, todo>>

EnumerationDone ==
  /\ DirectInputPolls /\ step = "enumerate" /\ todo = {}
  /\ \A i \in DOMAIN entries : entries[i].seen
  /\ step' = "read"
  /\ UNCHANGED <<vars, world, cursor, fetched, backends>>

\* Mutant: once acquired is acquired.
AcquiredForGood(e, reached) == [e EXCEPT !.acquired = @ \/ reached]

\* What read() leaves of an entry: a failure means to acquire it again.
AcquiredIf(e, reached) == [e EXCEPT !.acquired = reached]

\* Acquire() is tried only of an entry that is not acquired; Poll() and
\* GetDeviceState() fail when the acquisition was lost since.
Reached(e) ==
  IF e.acquired THEN e.pad \notin lost ELSE e.pad \in attached /\ ~locked

\* read(): all the state of one pad, or nothing this frame.
ReadEntry ==
  /\ DirectInputPolls /\ step = "read" /\ cursor \in DOMAIN entries
  /\ LET e == entries[cursor]
     IN /\ entries' = [entries EXCEPT ![cursor] = AcquiredIf(e, Reached(e))]
        /\ lost' = IF Reached(e) THEN lost \ {e.pad} ELSE lost
        /\ IF Reached(e) THEN SetRaw(e.slot, 1, reading[e.pad]) ELSE UNCHANGED vars
  /\ cursor' = cursor + 1
  /\ UNCHANGED <<attached, reading, locked, left, unread, changes, step, fetched, connected, todo>>

DirectInputDone ==
  /\ DirectInputPolls /\ step = "read" /\ cursor > Len(entries)
  /\ NextBackend
  /\ step' = "start" /\ cursor' = 1
  /\ UNCHANGED <<world, fetched, backends>>
-----------------------------------------------------------------------------
(* player and desktop *)

Changed == changes < MaxChanges /\ changes' = changes + 1

Plug(pad) ==
  /\ Changed /\ pad \notin attached
  /\ attached' = attached \cup {pad}
  /\ UNCHANGED <<vars, progress, backends, reading, locked, lost, left, unread>>

Unplug(pad) ==
  /\ Changed /\ pad \in attached
  /\ attached' = attached \ {pad}
  /\ lost' = lost \cup ({pad} \cap Held)
  /\ left' = left \cup {pad}
  /\ UNCHANGED <<vars, progress, backends, reading, locked, unread>>

Move(pad) ==
  /\ Changed /\ pad \in attached
  /\ \E v \in Values \ {reading[pad]} : reading' = [reading EXCEPT ![pad] = v]
  /\ UNCHANGED <<vars, progress, backends, attached, locked, lost, left, unread>>

Lock ==
  /\ Changed /\ ~locked
  /\ locked' = TRUE
  /\ lost' = lost \cup Held
  /\ UNCHANGED <<vars, progress, backends, attached, reading, left, unread>>

Unlock ==
  /\ locked
  /\ locked' = FALSE
  /\ UNCHANGED <<vars, progress, backends, attached, reading, lost, left, unread, changes>>

WorldMoves == Lock \/ Unlock \/ \E pad \in Pads : Plug(pad) \/ Unplug(pad) \/ Move(pad)
-----------------------------------------------------------------------------
PadsInit ==
  /\ Init
  /\ attached = {} /\ reading = [p \in Pads |-> 0]
  /\ locked = FALSE /\ lost = {} /\ left = {} /\ unread = {} /\ changes = 0
  /\ step = "start" /\ cursor = 1 /\ fetched = 0
  /\ connected = [u \in DOMAIN Users |-> 0]
  /\ entries = <<>> /\ todo = {}

Frame == (BeginUpdate \/ EndUpdate) /\ UNCHANGED <<world, progress, backends>>

Poll ==
  \/ XInputSkips \/ XInputDrops \/ XInputFetches \/ XInputWrites \/ XInputDone
  \/ StartPoll \/ DropUnseen \/ EnumerationDone \/ ReadEntry \/ DirectInputDone
  \/ \E pad \in Pads, readable \in BOOLEAN : Consider(pad, readable)

PadsNext == Frame \/ Poll \/ WorldMoves

PadsSpec == PadsInit /\ [][PadsNext]_padVars

\* An update() that began is finished, the game goes on calling it, and the
\* hotplug interval elapses again and again.
FairSpec ==
  /\ PadsSpec
  /\ WF_padVars(Poll) /\ WF_padVars(Frame)
  /\ SF_padVars(Frame /\ rescan')
-----------------------------------------------------------------------------
\* The devices of a pad, by whichever backend.
DevicesOf(pad) ==
  ({connected[u] : u \in {w \in DOMAIN Users : Users[w] = pad}} \ {0})
    \cup {entries[i].slot : i \in EntryOf(pad)}

\* Every variable has its type, and the backends hold only slots that are
\* theirs.
PadsTypeOK ==
  /\ attached \subseteq Pads /\ todo \subseteq Pads /\ lost \subseteq Pads
  /\ left \subseteq Pads /\ unread \subseteq XboxPads
  /\ reading \in [Pads -> Values] /\ fetched \in Values
  /\ locked \in BOOLEAN /\ changes \in 0..MaxChanges
  /\ step \in {"start", "write", "enumerate", "read"}
  /\ cursor \in Nat \ {0}
  /\ \A u \in DOMAIN connected :
       connected[u] # 0 => Live(connected[u]) /\ slots[connected[u]].backend = XInput
  /\ entries \in Seq([pad : Pads, slot : Nat, acquired : BOOLEAN, seen : BOOLEAN])
  /\ \A i \in DOMAIN entries :
       Live(entries[i].slot) /\ slots[entries[i].slot].backend = DirectInput

\* No pad is reported twice, "once mapped by XInput and once as a nameless
\* axis pile" (src/src/backend_dinput.cpp:124), in whatever order the backends
\* come to see it, unless DirectInput took it in when its path could not be
\* read; and every device is some pad's.
ListedOnce ==
  /\ \A pad \in Pads \ unread : Cardinality(DevicesOf(pad)) <= 1
  /\ \A pad, other \in Pads : pad # other => DevicesOf(pad) \cap DevicesOf(other) = {}
  /\ LiveSlots = UNION {DevicesOf(pad) : pad \in Pads}

\* "A lost acquisition must never be read as an unplug"
\* (src/src/backend_dinput.cpp:70): a device leaves only if its pad was
\* unplugged at some time since the device was made.
LockIsNoUnplug ==
  [][\A pad \in Pads : \A s \in DevicesOf(pad) : RemoveDevice(s) => pad \in left]_padVars

\* Pads that stay are listed and pads that are gone are not, once nothing
\* changes any more; a pad whose product is unknown may be left out for an
\* Xbox pad that is there.
PadsAreListed ==
  <>[](\A pad \in Pads :
         /\ pad \notin attached => DevicesOf(pad) = {}
         /\ pad \in attached /\ (PadGuid[pad].hw # Unknown \/ XboxPads \cap attached = {})
              => DevicesOf(pad) # {})

\* Once nothing changes any more and the desktop is not locked, every device
\* shows what its pad says, also after its acquisition was lost.
ViewsCatchUp ==
  <>[](~locked =>
         \A pad \in attached : \A s \in DevicesOf(pad) :
           reading[pad] = IF slots[s].backend_mapped THEN slots[s].out[1] ELSE slots[s].raw[1])
=============================================================================
