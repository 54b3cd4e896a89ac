------------------------------- MODULE MappingLine -------------------------------
(***************************************************************************)
(* Mapping lines of src/src/mapping.cpp: what parse_mapping() makes of the *)
(* fields of a line, and what apply_mapping() makes of the raw inputs.     *)
(*                                                                         *)
(* A field is a record: its key, with the half of the output it names, and *)
(* the source it writes, with every mark the grammar has.  An output is    *)
(* its kind and its name.  Axis values are integers, Full standing for 1.0 *)
(* of the code.                                                            *)
(***************************************************************************)
EXTENDS Integers, Sequences, SequencesExt

CONSTANTS Full,      \* an axis at the end of its travel
          Outputs    \* the outputs this version knows, by kind and name

ASSUME LineAssumption ==
  /\ Full \in Nat \ {0} /\ Full % 2 = 0
  /\ \A o \in Outputs : o.kind \in {"Button", "Stick", "Trigger"}

\* Written without a mark, or with a leading + or -.
Halves == {0, 1, -1}
-----------------------------------------------------------------------------
(* parsing *)

\* What atoi() and the casts to 16 and 8 bits leave of a number.
Int16(n) == ((n + 32768) % 65536) - 32768
UInt8(n) == n % 256

\* The bits of a byte; of a hat 1 is up, 2 right, 4 down and 8 left.
Bits(n) == {bit \in {1, 2, 4, 8, 16, 32, 64, 128} : (n \div bit) % 2 = 1}

\* parse_source(): a half mark and a tilde are accepted with every letter.
ParseSource(spec) ==
  [src        |-> CASE spec.letter = "b" -> "Button"
                    [] spec.letter = "a" -> "Axis"
                    [] spec.letter = "h" -> "Hat",
   src_index  |-> Int16(spec.number),
   hat_mask   |-> IF spec.letter = "h" THEN Bits(UInt8(spec.mask)) ELSE {},
   src_half   |-> spec.half,
   src_invert |-> spec.tilde]

\* parse_source() accepts: a letter it knows, a number after it, and for a
\* hat a mask after that, which is -1 where the line has none.
IsSource(spec) ==
  /\ spec.letter \in {"a", "b", "h"}
  /\ spec.number \in Nat
  /\ spec.letter = "h" => spec.mask \in Nat

\* parse_binding() accepts: an output it knows and a source.
IsBinding(field) == field.output \in Outputs /\ IsSource(field.source)

ParseBinding(field) ==
  [binding |-> ParseSource(field.source), dst |-> field.output, dst_half |-> field.half]

\* parse_mapping(): fields that bind nothing are left out.  A binding is known
\* by the place of its field.
ParseFields(fields) ==
  [i \in {k \in DOMAIN fields : IsBinding(fields[k])} |-> ParseBinding(fields[i])]

\* A line must name a guid and bind something.
IsMapping(line) == ~line.zero_guid /\ DOMAIN ParseFields(line.fields) # {}
-----------------------------------------------------------------------------
(* applying *)

\* RawInputs: inputs the device does not have read zero.
RawButton(raw, i) == i \in DOMAIN raw.button /\ raw.button[i]
RawAxis(raw, i)   == IF i \in DOMAIN raw.axis THEN raw.axis[i] ELSE 0
RawHat(raw, i)    == IF i \in DOMAIN raw.hat THEN raw.hat[i] ELSE {}

\* An axis source: turned round first, then halved.
Halved(v, half) ==
  CASE half = 0 -> v
    [] half # 0 /\ half * v > 0 -> half * v
    [] half # 0 /\ half * v <= 0 -> 0

AxisSource(b, v) == Halved(IF b.src_invert THEN -v ELSE v, b.src_half)

\* Whether a source counts as pressed: all the bits of a hat, more than half
\* of the travel of an axis.
SourcePressed(b, raw) ==
  CASE b.src = "Button" -> RawButton(raw, b.src_index)
    [] b.src = "Hat"    -> b.hat_mask # {} /\ b.hat_mask \subseteq RawHat(raw, b.src_index)
    [] b.src = "Axis"   -> 2 * AxisSource(b, RawAxis(raw, b.src_index)) > Full

SourceValue(b, raw) ==
  IF b.src = "Axis" THEN AxisSource(b, RawAxis(raw, b.src_index))
  ELSE IF SourcePressed(b, raw) THEN Full ELSE 0

\* A trigger on a whole axis rests at -1 and is rescaled to 0..1.
Rescaled(b, output) == output.kind = "Trigger" /\ b.src = "Axis" /\ b.src_half = 0

\* What one binding adds to the axis it drives.
Contribution(entry, raw) ==
  LET v      == SourceValue(entry.binding, raw)
      scaled == IF Rescaled(entry.binding, entry.dst) THEN (v + Full) \div 2 ELSE v
  IN IF entry.dst_half < 0 THEN -scaled ELSE scaled

Clamp(v, low) == IF v < low THEN low ELSE IF v > Full THEN Full ELSE v

Drivers(entries, output) == {i \in DOMAIN entries : entries[i].dst = output}

\* Bindings that drive the same axis add up.
Sum(entries, raw, output) ==
  MapThenSumSet(LAMBDA i : Contribution(entries[i], raw), Drivers(entries, output))

\* apply_mapping(): every output anew, from the bindings that drive it.
ButtonOut(entries, raw, output) ==
  \E i \in Drivers(entries, output) : SourcePressed(entries[i].binding, raw)

AxisOut(entries, raw, output) ==
  Clamp(Sum(entries, raw, output), IF output.kind = "Trigger" THEN 0 ELSE -Full)
-----------------------------------------------------------------------------
(* hats of the raw backends *)

\* Up, then clockwise; the diagonals have both of their bits.
EightWay == << {1}, {1, 2}, {2}, {2, 4}, {4}, {4, 8}, {8}, {8, 1} >>

\* The sector of an angle in hundredths of a degree, 0 for up.
Sector(centidegrees) == ((centidegrees + 2250) \div 4500) % 8

\* hat_mask_from_centidegrees()
HatMaskFromCentidegrees(centidegrees) ==
  IF centidegrees % 65536 = 65535 \/ centidegrees > 36000 THEN {}
  ELSE EightWay[Sector(centidegrees) + 1]

\* hat_mask_from_position(): eight positions, or four for a range of four.
HatMaskFromPosition(value, minimum, maximum) ==
  LET range    == maximum - minimum + 1
      position == value - minimum
  IN IF value < minimum \/ value > maximum \/ range <= 0 THEN {}
     ELSE IF range = 4 THEN EightWay[(position % 4) * 2 + 1]
     ELSE EightWay[(position % 8) + 1]
=============================================================================
