----------------------------- MODULE MCRumbleTime -----------------------------
(***************************************************************************)
(* The two ways in which a rumble does not last as long as                 *)
(* src/include/gpplus/gamepad.hpp:307 says: the evdev backend cuts it to   *)
(* what an effect can play, and the core answers a repeated request from   *)
(* its record without starting the motors.  The pad is watched by a        *)
(* history variable; its steps are its own.                                *)
(***************************************************************************)
EXTENDS MCEvdevPad

VARIABLE cut  \* motors went silent before the time they were asked for was up

watched == <<vars, cut>>

\* The time of the last request the pad took is not up; it has gone by.
Running == promise.level > 0 /\ promise.age < promise.duration
Over    == promise.level > 0 /\ promise.age >= promise.duration

WatchedSpec ==
  /\ Init /\ cut = FALSE
  /\ [][Next /\ cut' = (cut \/ (Running' /\ Motor' = 0))]_watched
  /\ WF_vars(UpdateOpens) /\ WF_vars(UpdateReads) /\ WF_vars(UpdateDrops)
  /\ WF_vars(Tick)
-----------------------------------------------------------------------------
\* rumble() "runs the motors until duration_ms elapses or the next call"
\* (src/include/gpplus/gamepad.hpp:307): of the requests it answered true,
\* either each one has run until its time was up, or the one that comes after
\* that time starts the motors.  A behaviour that violates this has cut one
\* request short and ignored another.
RunsUncutOrStarts ==
  [][\A level \in Levels \ {0}, duration \in Durations \ {0} :
       /\ cut /\ Over
       /\ RumbleCall(level, duration)
       /\ RumbleSwallowed(level, duration) \/ RumblePlays(level, duration)
       => Motor' > 0]_watched
=============================================================================
