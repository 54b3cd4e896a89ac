------------------------------ MODULE RebindScreen ------------------------------
(***************************************************************************)
(* src/examples/rebind.cpp, the rebinding screen the project ships, as a   *)
(* client of MappingRecorder: prompt by prompt it takes a new baseline,    *)
(* polls once a frame until an input is answered, binds it and waits for   *)
(* the release before it asks for the next one.                            *)
(*                                                                         *)
(* The screen is one thread: the steps of its loop follow each other, and  *)
(* the player moves the pad in the updates.  No line is loaded for the pad *)
(* (load_builtin_db is off), so active() is about raw buttons alone.       *)
(***************************************************************************)
EXTENDS MappingRecorder

CONSTANT Prompts   \* the outputs asked for, in order: a sequence of Targets

VARIABLES
  at,     \* where the loop is
  index   \* the prompt that is shown

screen == <<at, index>>
screenVars == <<vars, screen>>

\* The pad as nobody touches it.
Rest == [button |-> [i \in 1..NButtons |-> FALSE],
         hat    |-> [i \in 1..NHats |-> {}],
         axis   |-> [i \in 1..NAxes |-> 0]]

\* active() of a pad without a mapping.
Active == \E i \in 1..NButtons : reading.button[i]

\* Context::update(): the pad reads what it did, or something else.
Update ==
  /\ (\E r \in Readings : Frame(r)) \/ UNCHANGED vars

\* begin(): "whatever is being held now is this prompt's zero".
ShowPrompt ==
  /\ at = "show" /\ index <= Len(Prompts)
  /\ Begin
  /\ at' = "update" /\ UNCHANGED index

UpdateForAnswer ==
  /\ at = "update" /\ Update
  /\ at' = "poll" /\ UNCHANGED index

PollForAnswer ==
  /\ at = "poll" /\ Poll
  /\ at' = IF Valid(answer') THEN "bind" ELSE "update"
  /\ UNCHANGED index

BindAnswer ==
  /\ at = "bind" /\ Bind(Prompts[index])
  /\ index' = index + 1
  /\ at' = "release"

UpdateForRelease ==
  /\ at = "release" /\ Update
  /\ at' = "released" /\ UNCHANGED index

\* The wait ends as soon as poll() has nothing to say and no button is down.
PollForRelease ==
  /\ at = "released" /\ Poll
  /\ at' = IF Valid(answer') \/ Active THEN "release" ELSE "show"
  /\ UNCHANGED index

\* The screen opens with the pad at rest.
ScreenInit == Init /\ reading = Rest /\ at = "show" /\ index = 1

ScreenNext ==
  \/ ShowPrompt \/ UpdateForAnswer \/ PollForAnswer \/ BindAnswer
  \/ UpdateForRelease \/ PollForRelease

ScreenSpec == ScreenInit /\ [][ScreenNext]_screenVars

\* "Wait for release, so one long press does not answer the next prompt as
\* well" (src/examples/rebind.cpp:167): a prompt is answered by an input that
\* the player is pressing or pushing, never by one that was let go.
AnswersArePresses ==
  [][BindAnswer =>
       LET src == <<answer.kind, answer.index>>
       IN Level(reading, src) # Level(Rest, src)]_screenVars
=============================================================================
