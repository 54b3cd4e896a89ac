----------------------------- MODULE MappingTable -----------------------------
(***************************************************************************)
(* The mapping table of src/src/mapping.cpp: every mapping line known,     *)
(* keyed by guid alone, and the lookup that tolerates near-misses.         *)
(*                                                                         *)
(* A guid is a record with the three parts the lookup tells apart: the CRC *)
(* of the product name, the hardware (bus, vendor and product, which are   *)
(* never relaxed) and the firmware version.  A line is the guid it names,  *)
(* whether its platform field matches this build, and the bindings it      *)
(* carries, which this module never looks into.                            *)
(*                                                                         *)
(* The table is a function whose domain is the set of guids with a line.   *)
(* The code hands out pointers into it; an entry is replaced in place and  *)
(* never erased, so a pointer is the key it was found under.               *)
(***************************************************************************)
EXTENDS Naturals

CONSTANTS Guids,      \* the guids of devices and of lines
          Lines,      \* the mapping lines a database or a game may hold
          NoMapping   \* the null pointer find() answers

ASSUME MappingAssumption ==
  /\ Guids \subseteq [crc : Nat, hw : Nat, version : Nat]
  /\ \A line \in Lines : line.guid \in Guids /\ line.here \in BOOLEAN
  /\ NoMapping \notin Guids
-----------------------------------------------------------------------------
\* The tables a run can reach: each key holds a line for that very guid.
IsTable(table) ==
  /\ DOMAIN table \subseteq Guids
  /\ \A g \in DOMAIN table : table[g] \in Lines /\ table[g].guid = g

EmptyTable == [g \in {} |-> NoMapping]

\* A text is a set of lines with one line for each guid: the order of two
\* lines for one guid is the order of two texts.
IsText(text) ==
  /\ text \subseteq Lines
  /\ \A l1, l2 \in text : l1.guid = l2.guid => l1 = l2

\* add() for every line of a text: whatever was stored under the guid of a
\* line, for whichever platform, is replaced.
AddMany(table, text) ==
  LET named == {line.guid : line \in text}
  IN [g \in DOMAIN table \cup named |->
        IF g \in named THEN CHOOSE line \in text : line.guid = g ELSE table[g]]

\* The stored line for exactly this guid, if it is for this platform.
Matches(table, g) == g \in DOMAIN table /\ table[g].here

\* The guids find() tries, in order: the device's own, without the name CRC,
\* without CRC and version, without the version.
Ladder(g) ==
  << g,
     [g EXCEPT !.crc = 0],
     [g EXCEPT !.crc = 0, !.version = 0],
     [g EXCEPT !.version = 0] >>

\* The key of the mapping a device gets: the first rung with a match.
Find(table, g) ==
  LET hit(i) == Matches(table, Ladder(g)[i])
  IN IF \E i \in 1..4 : hit(i)
     THEN Ladder(g)[CHOOSE i \in 1..4 : hit(i) /\ \A j \in 1..(i - 1) : ~hit(j)]
     ELSE NoMapping
=============================================================================
