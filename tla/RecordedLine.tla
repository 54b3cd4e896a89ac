------------------------------ MODULE RecordedLine ------------------------------
(***************************************************************************)
(* The recorder and the mapping layer together: mapping_line() writes the  *)
(* bindings of a MappingRecorder, apply() gives the line to the Context,   *)
(* which parses it and maps the pad with it from then on.  Neither changes *)
(* the recorder, so what the line would do is a function of its entries.   *)
(*                                                                         *)
(* Whether the outputs are buttons, sticks or triggers is a parameter      *)
(* (kind), because the recorder itself does not look at it.                *)
(***************************************************************************)
EXTENDS MappingRecorder, MappingLine

OutputKinds == {"Button", "Stick", "Trigger"}

\* The indices of a device's inputs fit the 16 bits of a binding, and
\* parse_binding() knows every name that db_name() writes.
ASSUME RecordedAssumption ==
  /\ \A v \in AxisValues : -Full <= v /\ v <= Full
  /\ Directions \subseteq {1, 2, 4, 8}
  /\ NButtons < 32768 /\ NHats < 32768 /\ NAxes < 32768
  /\ [kind : OutputKinds, name : Targets] \subseteq Outputs

\* Mutant: every axis output takes the whole axis, triggers too.
WholeForAxes(in, kind) == kind # "Button"

\* Whether an axis is written whole, and not as the half it moved in.
Whole(in, kind) == kind = "Stick" \/ (kind = "Trigger" /\ in.rests_at_extreme)

\* The number that is written for a mask.
MaskNumber(mask) == CHOOSE n \in 0..255 : Bits(n) = mask

\* source_text() of a button, of a hat and of an axis.
SourceText(in, kind) ==
  LET whole == Whole(in, kind)
      plain == [letter |-> "b", number |-> in.index, mask |-> -1, half |-> 0, tilde |-> FALSE]
  IN CASE in.kind = "Button" -> plain
       [] in.kind = "Hat" -> [plain EXCEPT !.letter = "h", !.mask = MaskNumber(in.hat_mask)]
       [] in.kind = "Axis" /\ whole ->
            [plain EXCEPT !.letter = "a", !.tilde = in.direction < 0]
       [] in.kind = "Axis" /\ ~whole -> [plain EXCEPT !.letter = "a", !.half = in.direction]

OutputOf(target, kind) == [kind |-> kind, name |-> target]

\* mapping_line() while the pad is connected: one field for each entry.
LineFields(kind) ==
  [i \in DOMAIN entries |->
     [output |-> OutputOf(entries[i].output, kind), half |-> 0,
      source |-> SourceText(entries[i].input, kind)]]

\* apply(): add_mapping() of the line.
AppliedLine(kind) == ParseFields(LineFields(kind))
-----------------------------------------------------------------------------
\* An input pushed as far as it goes the way it was answered.
Pushed(in, raw) ==
  CASE in.kind = "Button" -> raw.button[in.index]
    [] in.kind = "Hat"    -> in.hat_mask \subseteq raw.hat[in.index]
    [] in.kind = "Axis"   -> raw.axis[in.index] = in.direction * Full

\* An input let go: in the middle, or at the end it was answered to rest at.
LetGo(in, raw) ==
  CASE in.kind = "Button" -> ~raw.button[in.index]
    [] in.kind = "Hat"    -> in.hat_mask \cap raw.hat[in.index] = {}
    [] in.kind = "Axis"   ->
         raw.axis[in.index] = IF in.rests_at_extreme THEN -in.direction * Full ELSE 0

\* Whatever kind of output an input was bound to, and whatever else was bound:
\* once the line is applied, pushing the input drives its output all the way
\* and in the direction that was asked for, and letting it go leaves a button
\* up and a trigger at zero, never at "half throttle from a trigger nobody is
\* touching" (src/include/gpplus/binding.hpp:53).
LineDrivesItsOutputs ==
  \A kind \in OutputKinds :
    LET applied == AppliedLine(kind)
    IN \A i \in DOMAIN entries : \A raw \in Readings :
         LET in == entries[i].input
             o  == OutputOf(entries[i].output, kind)
         IN IF kind = "Button"
            THEN /\ Pushed(in, raw) => ButtonOut(applied, raw, o)
                 /\ LetGo(in, raw) => ~ButtonOut(applied, raw, o)
            ELSE /\ Pushed(in, raw) => AxisOut(applied, raw, o) = Full
                 /\ LetGo(in, raw) /\ ~(kind = "Stick" /\ in.rests_at_extreme)
                      => AxisOut(applied, raw, o) = 0
=============================================================================
