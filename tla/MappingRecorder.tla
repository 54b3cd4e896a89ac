---------------------------- MODULE MappingRecorder ----------------------------
(***************************************************************************)
(* MappingRecorder of src/src/binding.cpp: the rebinding screen's watcher. *)
(* It takes a baseline of the raw inputs, and poll(), once a frame after   *)
(* Context::update(), answers which input moved away from it once that has *)
(* been seen for long enough.  The game binds what it was answered.        *)
(*                                                                         *)
(* update() is the Frame action: the raw inputs may read anything next.    *)
(* A disconnected device reads zero everywhere, which is one such frame.   *)
(***************************************************************************)
EXTENDS Integers, Sequences, SequencesExt

CONSTANTS NButtons, NHats, NAxes,  \* raw inputs of the device
          Directions,              \* bits a hat can show
          AxisValues,              \* what an axis can read
          Threshold,               \* axis_threshold_
          Stability,               \* stability_
          Extreme,                 \* kExtremeBaseline
          Targets,                 \* mapped buttons and axes to bind
          MaxFrames                \* bound: frames in which an input changes

ASSUME RecorderAssumption ==
  /\ NButtons \in Nat /\ NHats \in Nat /\ NAxes \in Nat
  /\ AxisValues \subseteq Int /\ 0 \in AxisValues
  /\ Threshold \in Nat /\ Extreme \in Nat
  /\ Stability \in Nat \ {0}
  /\ MaxFrames \in Nat

VARIABLES
  reading,    \* raw_button(), raw_hat() and raw_axis() of the device
  baseline,   \* what begin() read
  candidate,  \* candidate_: seen, not yet for long enough
  latched,    \* latched_: the last input answered, while it is held
  streak,     \* streak_
  entries,    \* entries_: the bindings, in the order first made
  answer,     \* what the last poll() returned
  frames,     \* frames in which an input changed
  seen,       \* history: the last input seen but the one answered, and in how many polls
  untouched,  \* history: raw inputs that never changed since begin()
  wish        \* history: the last input bound to each target not cleared

recorder == <<baseline, candidate, latched, streak>>
history  == <<seen, untouched, wish>>
vars == <<reading, recorder, entries, answer, frames, history>>
-----------------------------------------------------------------------------
Readings == [button : [1..NButtons -> BOOLEAN],
             hat    : [1..NHats -> SUBSET Directions],
             axis   : [1..NAxes -> AxisValues]]

Kinds == {"None", "Button", "Hat", "Axis"}

RawInput(kind, index, direction, mask, extreme) ==
  [kind |-> kind, index |-> index, direction |-> direction,
   hat_mask |-> mask, rests_at_extreme |-> extreme]

NoInput == RawInput("None", 0, 0, {}, FALSE)

Valid(in) == in.kind # "None"

\* operator==: whether the axis rests at an extreme is not compared.
Same(a, b) == [a EXCEPT !.rests_at_extreme = FALSE] = [b EXCEPT !.rests_at_extreme = FALSE]

Magnitude(v) == IF v < 0 THEN -v ELSE v
Least(S) == CHOOSE i \in S : \A j \in S : i <= j

\* Mutant: the baseline of the buttons is not looked at.
PressedButtonsAtAll(r, base) == {i \in 1..NButtons : r.button[i]}

PressedButtons(r, base) == {i \in 1..NButtons : r.button[i] /\ ~base.button[i]}

MovedHats(r, base) == {i \in 1..NHats : r.hat[i] \ base.hat[i] # {}}

Travel(r, base, i) == r.axis[i] - base.axis[i]

\* The axes past the threshold that no other axis has outrun.
FurthestAxes(r, base) ==
  {i \in 1..NAxes :
     /\ Magnitude(Travel(r, base, i)) > Threshold
     /\ \A j \in 1..NAxes : Magnitude(Travel(r, base, j)) <= Magnitude(Travel(r, base, i))}

\* detect(): buttons first, then hats, then the axis that moved furthest.
Detect(r, base) ==
  LET b == PressedButtons(r, base)
      h == MovedHats(r, base)
      a == FurthestAxes(r, base)
  IN CASE b # {} -> RawInput("Button", Least(b), 0, {}, FALSE)
       [] b = {} /\ h # {} ->
            RawInput("Hat", Least(h), 0, r.hat[Least(h)] \ base.hat[Least(h)], FALSE)
       [] b = {} /\ h = {} /\ a # {} ->
            RawInput("Axis", Least(a), IF Travel(r, base, Least(a)) < 0 THEN -1 ELSE 1,
                     {}, Magnitude(base.axis[Least(a)]) >= Extreme)
       [] OTHER -> NoInput

\* Whether an input that was answered is away from its resting place.
Away(in, r, base) ==
  CASE in.kind = "Button" -> in.index \in PressedButtons(r, base)
    [] in.kind = "Hat"    -> in.hat_mask \cap (r.hat[in.index] \ base.hat[in.index]) # {}
    [] in.kind = "Axis"   -> /\ Magnitude(Travel(r, base, in.index)) > Threshold
                             /\ in.direction * Travel(r, base, in.index) > 0
    [] OTHER -> FALSE

Sources == ({"Button"} \X (1..NButtons)) \cup ({"Hat"} \X (1..NHats))
             \cup ({"Axis"} \X (1..NAxes))

Level(r, src) == CASE src[1] = "Button" -> <<r.button[src[2]]>>
                   [] src[1] = "Hat"    -> <<r.hat[src[2]]>>
                   [] src[1] = "Axis"   -> <<r.axis[src[2]]>>
NothingSeen == [input |-> NoInput, polls |-> 0, let_go |-> FALSE]
-----------------------------------------------------------------------------
\* Context::update() brings other readings.
Frame(r) ==
  /\ frames < MaxFrames
  /\ r # reading
  /\ frames' = frames + 1
  /\ reading' = r
  /\ untouched' = {src \in untouched : Level(r, src) = Level(reading, src)}
  /\ UNCHANGED <<recorder, entries, answer, seen, wish>>

\* begin(): the bindings made so far are kept.
Begin ==
  /\ baseline' = reading
  /\ candidate' = NoInput
  /\ latched' = NoInput
  /\ streak' = 0
  /\ answer' = NoInput
  /\ seen' = NothingSeen
  /\ untouched' = Sources
  /\ UNCHANGED <<reading, entries, frames, wish>>

\* Mutant: a change of candidate does not start the count anew.
StreakKept(found) == streak + 1

\* Mutant: every poll starts the count anew.
StreakRestarted(found) == 1

\* For how many polls the candidate has been seen, this one included.
Streak(found) == IF Same(found, candidate) THEN streak + 1 ELSE 1

\* Mutant: one poll more than stability asks for.
LongerThanAsked(found) == Streak(found) > Stability

LongEnough(found) == Streak(found) >= Stability

\* poll() with nothing away from the baseline.
PollAtRest ==
  /\ ~Valid(Detect(reading, baseline))
  /\ candidate' = NoInput
  /\ latched' = NoInput
  /\ streak' = 0
  /\ answer' = NoInput
  /\ seen' = NothingSeen

\* The polls that saw one input, and whether it was let go between two of them.
\* Only polls that see the input answered last come in between: any other
\* input is counted anew.
Seen(found) ==
  LET again == Same(found, seen.input)
  IN seen' =
       CASE again -> [seen EXCEPT !.input = found, !.polls = IF @ = Stability THEN @ ELSE @ + 1]
         [] ~again /\ Same(found, latched) ->
              [seen EXCEPT !.let_go = @ \/ ~Away(seen.input, reading, baseline)]
         [] ~again /\ ~Same(found, latched) ->
              [input |-> found, polls |-> 1, let_go |-> FALSE]

\* poll() while the input last answered is still what moved most: neither
\* the candidate nor its streak is touched.
PollHeld ==
  LET found == Detect(reading, baseline)
  IN /\ Valid(found) /\ Same(found, latched)
     /\ answer' = NoInput
     /\ Seen(found)
     /\ UNCHANGED <<candidate, latched, streak>>

\* poll() of an input that has not been seen for long enough.
PollWaiting ==
  LET found == Detect(reading, baseline)
  IN /\ Valid(found) /\ ~Same(found, latched)
     /\ ~LongEnough(found)
     /\ candidate' = IF Same(found, candidate) THEN candidate ELSE found
     /\ streak' = Streak(found)
     /\ answer' = NoInput
     /\ Seen(found)
     /\ UNCHANGED latched

\* poll() that answers.
PollAnswers ==
  LET found == Detect(reading, baseline)
  IN /\ Valid(found) /\ ~Same(found, latched)
     /\ LongEnough(found)
     /\ latched' = found
     /\ candidate' = NoInput
     /\ streak' = 0
     /\ answer' = found
     /\ Seen(found)

Poll ==
  /\ UNCHANGED <<reading, baseline, entries, frames, untouched, wish>>
  /\ PollAtRest \/ PollHeld \/ PollWaiting \/ PollAnswers

\* Mutant: an output bound again keeps its first entry as well.
NotedTwice(target, in) == Append(entries, [output |-> target, input |-> in])

\* note(): the entry of an output is replaced where it stands.
Noted(target, in) ==
  IF \E i \in DOMAIN entries : entries[i].output = target
  THEN [i \in DOMAIN entries |->
          IF entries[i].output = target THEN [output |-> target, input |-> in] ELSE entries[i]]
  ELSE Append(entries, [output |-> target, input |-> in])

\* bind() of what poll() just answered.
Bind(target) ==
  /\ Valid(answer)
  /\ entries' = Noted(target, answer)
  /\ wish' = {w \in wish : w[1] # target} \cup {<<target, answer>>}
  /\ UNCHANGED <<reading, recorder, answer, frames, seen, untouched>>

\* The entries that clear() leaves.
Staying(targets) == {i \in DOMAIN entries : entries[i].output \notin targets}

\* clear() of one output; clear_all() is all of them.  The entries that stay
\* close up in their order.
Clear(targets) ==
  /\ \E kept \in Bijection(1..Cardinality(Staying(targets)), Staying(targets)) :
       /\ \A i, j \in DOMAIN kept : i < j => kept[i] < kept[j]
       /\ entries' = [i \in DOMAIN kept |-> entries[kept[i]]]
  /\ wish' = {w \in wish : w[1] \notin targets}
  /\ UNCHANGED <<reading, recorder, answer, frames, seen, untouched>>
-----------------------------------------------------------------------------
\* The constructor calls begin() on whatever the pad is doing.
Init ==
  /\ reading \in Readings
  /\ baseline = reading
  /\ candidate = NoInput /\ latched = NoInput /\ streak = 0
  /\ entries = <<>> /\ answer = NoInput
  /\ frames = 0
  /\ seen = NothingSeen /\ untouched = Sources /\ wish = {}

Next ==
  \/ \E r \in Readings : Frame(r)
  \/ Begin
  \/ Poll
  \/ \E t \in Targets : Bind(t)
  \/ \E ts \in {{t} : t \in Targets} \cup {Targets} : Clear(ts)

Spec == Init /\ [][Next]_vars

\* The rebinding screen goes on polling.
FairSpec == Spec /\ WF_vars(Poll)
-----------------------------------------------------------------------------
InputType(in) ==
  /\ DOMAIN in = DOMAIN NoInput
  /\ in.kind \in Kinds /\ in.direction \in {-1, 0, 1}
  /\ in.hat_mask \subseteq Directions /\ in.rests_at_extreme \in BOOLEAN
  /\ Valid(in) => <<in.kind, in.index>> \in Sources

\* Every variable has its type, and a streak never outgrows the stability
\* asked for.
TypeOK ==
  /\ reading \in Readings /\ baseline \in Readings
  /\ InputType(candidate) /\ InputType(latched) /\ InputType(answer)
  /\ streak \in 0..(Stability - 1)
  /\ \A i \in DOMAIN entries : entries[i].output \in Targets /\ InputType(entries[i].input)

\* What poll() answers was seen by as many polls as stability asks for, with no
\* other new input between them.  If nothing answered before is still held, it
\* did "stay moved" (src/include/gpplus/binding.hpp:97) through all of them;
\* otherwise it may have been let go in between (see MCRecorderClaims).
AnswerWasSeenLongEnough ==
  [][Poll /\ Valid(answer') =>
       /\ seen'.input = answer' /\ seen'.polls >= Stability
       /\ Valid(latched) \/ ~seen'.let_go]_vars

\* An input that was held when begin() was called is not an answer for as
\* long as it stays held: a held trigger or an off-centre stick does not read
\* as a press the instant the screen appears.
HeldAtBeginIsSilent ==
  Valid(answer) => <<answer.kind, answer.index>> \notin untouched

\* Whatever was bound, bound again and cleared, the entries hold exactly the
\* last input bound to each output, once.
EntriesAreTheWishes ==
  /\ {<<entries[i].output, entries[i].input>> : i \in DOMAIN entries} = wish
  /\ \A i, j \in DOMAIN entries : entries[i].output = entries[j].output => i = j

\* No input is waited for forever: once the readings stay as they are, the
\* recorder has answered what moved, or everything is at rest.
SteadyInputIsAnswered == <>[](Same(latched, Detect(reading, baseline)))
=============================================================================
