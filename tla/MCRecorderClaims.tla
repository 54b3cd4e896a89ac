--------------------------- MODULE MCRecorderClaims ---------------------------
(***************************************************************************)
(* Two things src/include/gpplus/binding.hpp says of the recorder that it  *)
(* does not keep while an answered input is held.  The recorder is watched *)
(* by two history variables; its steps are its own.  One button and one    *)
(* axis are enough.                                                        *)
(***************************************************************************)
EXTENDS MappingRecorder

VARIABLES
  told,    \* inputs answered and not at rest in a poll() since
  bounced  \* an input was answered that had been let go between its polls

watched == <<vars, told, bounced>>

MCAxisValues == {0, 2}

StillAway == {in \in told : Away(in, reading, baseline)}

Watch ==
  /\ told' = CASE PollAtRest \/ Begin -> {}
               [] PollAnswers -> StillAway \cup {answer'}
               [] PollHeld \/ PollWaiting -> StillAway
               [] OTHER -> told
  /\ bounced' = (bounced \/ (Valid(answer') /\ seen'.let_go))

WatchedSpec ==
  /\ Init /\ told = {} /\ bounced = FALSE
  /\ [][Next /\ Watch]_watched
  /\ WF_vars(Poll)
-----------------------------------------------------------------------------
\* The recorder keeps one of its two promises: that an input counts after the
\* "consecutive polls an input must stay moved", which "rejects contact bounce"
\* (src/include/gpplus/binding.hpp:97), or that a detection is "reported once
\* and then not again until that input returns to rest"
\* (src/include/gpplus/binding.hpp:91).  A behaviour that violates this breaks
\* both: it has answered an input that bounced, and answers again one that is
\* still held.
SteadyOrAnsweredOnce ==
  [][bounced /\ PollAnswers =>
       ~\E in \in told : Away(in, reading, baseline) /\ Same(in, answer')]_watched
=============================================================================
