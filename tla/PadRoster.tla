------------------------------- MODULE PadRoster -------------------------------
(***************************************************************************)
(* What the Context promises of its devices, without slots, backends or    *)
(* events: pads arrive under a fresh id, one larger than every id before   *)
(* it, are listed in the order they arrived, and leave for good.  An id    *)
(* may be spent on a pad that is turned away.                              *)
(***************************************************************************)
EXTENDS Naturals, Sequences, SequencesExt

VARIABLES roster,     \* devices()
          connected,  \* the ids connected() answers yes for
          issued      \* the last id handed out

rosterVars == <<roster, connected, issued>>

Empty == roster = <<>> /\ connected = {} /\ issued = 0

Arrive ==
  /\ issued' = issued + 1
  /\ roster' = Append(roster, issued')
  /\ connected' = connected \cup {issued'}

TurnAway ==
  /\ issued' = issued + 1
  /\ UNCHANGED <<roster, connected>>

Leave(i) ==
  /\ roster' = RemoveAt(roster, i)
  /\ connected' = connected \ {roster[i]}
  /\ UNCHANGED issued

Change == Arrive \/ TurnAway \/ \E i \in DOMAIN roster : Leave(i)

RosterSpec == Empty /\ [][Change]_rosterVars
=============================================================================
