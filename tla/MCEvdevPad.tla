------------------------------ MODULE MCEvdevPad ------------------------------
(* The vertical axis of the hat reads up or rest, the horizontal one right or *)
(* rest; QueueSize 2 and three changes make the kernel drop two of them.      *)
EXTENDS EvdevPad

MCHatY == {-1, 0}

MCHeld == {[key |-> 0, x |-> 0, y |-> 0], [key |-> 1, x |-> 1, y |-> 0]}
=============================================================================
