---------------------------- MODULE MCRebindScreen ----------------------------
(* A stick and a button, two prompts, and one push of the player, who lets go *)
(* again.                                                                     *)
EXTENDS RebindScreen

MCPrompts == <<"leftx", "lefty">>
=============================================================================
