----------------------------- MODULE MCVirtualPads -----------------------------
(* One model of pad, which the backend maps or leaves to a line the game may *)
(* add, and a configuration that keeps pads without a line or hides them.    *)
EXTENDS VirtualPads

Pad     == [crc |-> 1, hw |-> 1, version |-> 1]
PadLine == [guid |-> Pad, here |-> TRUE, source_of |-> [o \in 1..(NButtons + NAxes) |-> 1]]

MCGuids == {Pad}
MCLines == {PadLine}
MCTexts == {{PadLine}}
MCConfigs == [report_unmapped : BOOLEAN, always_rescan : {FALSE}, deadzone : {0}]
=============================================================================
