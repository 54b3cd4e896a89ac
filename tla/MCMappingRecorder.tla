--------------------------- MODULE MCMappingRecorder ---------------------------
(* One button, one hat with one direction and one axis that can rest in the *)
(* middle or at either end of its travel.                                    *)
EXTENDS RecordedLine

MCAxisValues == {-2, 0, 2}

MCOutputs == [kind : OutputKinds, name : Targets]
=============================================================================
