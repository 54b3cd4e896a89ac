------------------------------ MODULE MCGameLoop ------------------------------
(* One model of pad, whose line may stand under its own guid or under the   *)
(* relaxed one that every pad of that model falls back to, and a line under *)
(* the relaxed guid that is for another platform.                           *)
EXTENDS GameLoop

Pad     == [crc |-> 1, hw |-> 1, version |-> 1]
Relaxed == [crc |-> 0, hw |-> 1, version |-> 0]

LineFor(g, here, source) ==
  [guid |-> g, here |-> here, source_of |-> [o \in 1..(NButtons + NAxes) |-> source]]

ExactLine   == LineFor(Pad, TRUE, 0)
RelaxedLine == LineFor(Relaxed, TRUE, 1)
ForeignLine == LineFor(Relaxed, FALSE, 1)

MCGuids == {Pad, Relaxed}
MCDeviceGuids == {Pad}
MCLines == {ExactLine, RelaxedLine, ForeignLine}
MCTexts == {{RelaxedLine}, {ForeignLine}}

MCConfigs == [report_unmapped : BOOLEAN, always_rescan : {FALSE}, deadzone : {0}]
=============================================================================
