-------------------------------- MODULE Rumble --------------------------------
(***************************************************************************)
(* What Context::rumble() remembers of a device and when it swallows a     *)
(* request (src/src/context.cpp).  The two motors are treated alike, so    *)
(* one intensity stands for both; intensities are integers and Tolerance   *)
(* is the 0.01 below which two of them count as the same.                  *)
(***************************************************************************)
EXTENDS Integers

CONSTANTS Levels,     \* intensities a game asks for, 0 is off
          Durations,  \* durations a game asks for, 0 is "until further notice"
          Tolerance   \* intensities closer than this are the same request

ASSUME RumbleAssumption ==
  /\ Levels \subseteq Nat /\ 0 \in Levels
  /\ Durations \subseteq Nat /\ 0 \in Durations
  /\ Tolerance \in Nat \ {0}
-----------------------------------------------------------------------------
\* has_rumble, rumble_low/high and rumble_duration_ms of a device.
Records == [has : BOOLEAN, level : Levels, duration : Durations]

\* What add_device() leaves in a slot: the first request always gets through.
NothingSent == [has |-> FALSE, level |-> 0, duration |-> 0]

Near(l, m) == l - m < Tolerance /\ m - l < Tolerance

\* rumble_state_matches(): the request is the last one sent, so it is not
\* sent again.
Swallowed(sent, level, duration) ==
  sent.has /\ sent.duration = duration /\ Near(sent.level, level)

\* The record once the backend has taken a request.
Sent(level, duration) == [has |-> TRUE, level |-> level, duration |-> duration]
=============================================================================
