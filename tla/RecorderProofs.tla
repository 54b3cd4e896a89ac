----------------------------- MODULE RecorderProofs -----------------------------
(***************************************************************************)
(* What MappingRecorder answers, for any device, thresholds and stability: *)
(* an input that stays as it was when begin() was called is no answer, and *)
(* an answer was seen in as many polls as stability asks for.  What is     *)
(* bound and cleared leaves exactly the last input bound to each output.   *)
(* And what becomes of an axis in the line that is written and applied.    *)
(*                                                                         *)
(* Two facts carry this.  What detect() finds differs from the baseline    *)
(* (DetectedMoved), and so was touched.  And the streak never runs ahead   *)
(* of what was seen: the input seen last, but for the one that is held, is *)
(* the candidate, and it was seen in as many polls (StreakWasSeen); it can *)
(* have been let go between two of them only if one is held                *)
(* (LetGoWhileHeld).                                                       *)
(***************************************************************************)
EXTENDS RecordedLine, Extremes, SequenceTheorems

Inputs == [kind : Kinds, index : Nat, direction : {-1, 0, 1},
           hat_mask : SUBSET Directions, rests_at_extreme : BOOLEAN]

\* An input the device has, with what mapping_line() writes of it.
IsReal(in) ==
  /\ <<in.kind, in.index>> \in Sources
  /\ in.kind = "Hat" => in.hat_mask # {}
  /\ in.kind = "Axis" => in.direction \in {-1, 1}

\* What never changed reads as it did at begin().
UntouchedReadTheSame == \A src \in untouched : Level(reading, src) = Level(baseline, src)

StreakWasSeen == streak > 0 => Same(seen.input, candidate) /\ seen.polls >= streak

LetGoWhileHeld == seen.let_go => Valid(latched)

SeenInputs == [input : Inputs, polls : 0..Stability, let_go : BOOLEAN]

Types ==
  /\ reading \in Readings /\ baseline \in Readings
  /\ candidate \in Inputs /\ latched \in Inputs /\ answer \in Inputs
  /\ seen \in SeenInputs
  /\ streak \in 0..(Stability - 1)

Inv ==
  /\ Types /\ UntouchedReadTheSame
  /\ StreakWasSeen /\ LetGoWhileHeld /\ HeldAtBeginIsSilent
-----------------------------------------------------------------------------
\* The least of the indices that moved is one of them.
LEMMA LeastIsMember ==
  ASSUME NEW n \in Nat, NEW S \in SUBSET (1..n), S # {}
  PROVE  Least(S) \in S
<1>1. \E i \in S : \A j \in S : i <= j
  BY LeastExists
<1> QED BY <1>1 DEF Least

\* An absent input is no input.
LEMMA NoInputType == NoInput \in Inputs /\ ~Valid(NoInput) /\ NoInput.rests_at_extreme = FALSE
                     /\ NoInput.kind = "None"
BY DEF NoInput, RawInput, Inputs, Kinds, Valid

\* detect() answers an input that reads otherwise than in the baseline.
LEMMA DetectedMoved ==
  ASSUME Types
  PROVE  LET found == Detect(reading, baseline)
         IN /\ found \in Inputs
            /\ Valid(found) => /\ IsReal(found)
                               /\ Level(reading, <<found.kind, found.index>>)
                                    # Level(baseline, <<found.kind, found.index>>)
<1> DEFINE found == Detect(reading, baseline)
           b == PressedButtons(reading, baseline)
           h == MovedHats(reading, baseline)
           a == FurthestAxes(reading, baseline)
<1> SUFFICES /\ found \in Inputs
             /\ Valid(found) => /\ IsReal(found)
                                /\ Level(reading, <<found.kind, found.index>>)
                                     # Level(baseline, <<found.kind, found.index>>)
  OBVIOUS
<1>1. CASE b # {}
  <2>1. b \in SUBSET (1..NButtons) /\ NButtons \in Nat
    BY RecorderAssumption DEF PressedButtons
  <2>2. Least(b) \in b
    <3> HIDE DEF b
    <3> QED BY <1>1, <2>1, LeastIsMember
  <2>3. found = RawInput("Button", Least(b), 0, {}, FALSE)
    BY <1>1 DEF Detect
  <2>4. reading.button[Least(b)] /\ ~baseline.button[Least(b)]
    BY <2>2 DEF PressedButtons
  <2>5. /\ <<"Button", Least(b)>> \in Sources
        /\ Level(reading, <<"Button", Least(b)>>) # Level(baseline, <<"Button", Least(b)>>)
    <3> HIDE DEF b
    <3> QED BY <2>1, <2>2, <2>4 DEF Level, Sources
  <2>6. Least(b) \in Nat
    BY <2>1, <2>2
  <2> DEFINE i == Least(b)
  <2>7. /\ found.kind = "Button" /\ found.index = i /\ found \in Inputs
    <3> HIDE DEF b
    <3> QED BY <2>3, <2>6 DEF RawInput, Inputs, Kinds
  <2> HIDE DEF b, found
  <2>8. IsReal(found)
    BY <2>5, <2>7 DEF IsReal
  <2> QED BY <2>5, <2>7, <2>8
<1>2. CASE b = {} /\ h # {}
  <2>1. h \in SUBSET (1..NHats) /\ NHats \in Nat
    BY RecorderAssumption DEF MovedHats
  <2>2. Least(h) \in h
    <3> HIDE DEF h
    <3> QED BY <1>2, <2>1, LeastIsMember
  <2>3. found = RawInput("Hat", Least(h), 0,
                         reading.hat[Least(h)] \ baseline.hat[Least(h)], FALSE)
    BY <1>2 DEF Detect
  <2>4. /\ reading.hat[Least(h)] \ baseline.hat[Least(h)] # {}
        /\ reading.hat[Least(h)] \in SUBSET Directions
    BY <2>2 DEF MovedHats, Types, Readings
  <2>5. /\ <<"Hat", Least(h)>> \in Sources
        /\ Level(reading, <<"Hat", Least(h)>>) # Level(baseline, <<"Hat", Least(h)>>)
    <3> HIDE DEF h
    <3> QED BY <2>1, <2>2, <2>4 DEF Level, Sources
  <2>6. Least(h) \in Nat
    BY <2>1, <2>2
  <2> DEFINE i == Least(h)
  <2>7. /\ found.kind = "Hat" /\ found.index = i
        /\ found.hat_mask # {} /\ found \in Inputs
    <3> HIDE DEF h
    <3> QED BY <2>3, <2>4, <2>6 DEF RawInput, Inputs, Kinds
  <2> HIDE DEF h, found
  <2>8. IsReal(found)
    BY <2>5, <2>7 DEF IsReal
  <2> QED BY <2>5, <2>7, <2>8
<1>3. CASE b = {} /\ h = {} /\ a # {}
  <2>1. a \in SUBSET (1..NAxes) /\ NAxes \in Nat
    BY RecorderAssumption DEF FurthestAxes
  <2>2. Least(a) \in a
    <3> HIDE DEF a
    <3> QED BY <1>3, <2>1, LeastIsMember
  <2> DEFINE i == Least(a)
             way == IF Travel(reading, baseline, i) < 0 THEN -1 ELSE 1
             mark == Magnitude(baseline.axis[i]) >= Extreme
  <2>3. found = RawInput("Axis", i, way, {}, mark)
    BY <1>3 DEF Detect
  <2>4. /\ Magnitude(Travel(reading, baseline, i)) > Threshold
        /\ reading.axis[i] \in Int /\ baseline.axis[i] \in Int
    BY <2>2, RecorderAssumption DEF FurthestAxes, Types, Readings
  <2>5. reading.axis[i] # baseline.axis[i]
    BY <2>4, RecorderAssumption DEF Travel, Magnitude
  <2>6. /\ <<"Axis", i>> \in Sources
        /\ Level(reading, <<"Axis", i>>) # Level(baseline, <<"Axis", i>>)
    <3> HIDE DEF a
    <3> QED BY <2>1, <2>2, <2>5 DEF Level, Sources
  <2>7. way \in {-1, 1} /\ mark \in BOOLEAN /\ i \in Nat
    BY <2>1, <2>2, <2>4, RecorderAssumption DEF Magnitude
  <2>8. /\ found.kind = "Axis" /\ found.index = i
        /\ found.direction = way /\ found \in Inputs
    <3> HIDE DEF i, way, mark
    <3> QED BY <2>3, <2>7 DEF RawInput, Inputs, Kinds
  <2>9. /\ IsReal(found)
        /\ Level(reading, <<found.kind, found.index>>) # Level(baseline, <<found.kind, found.index>>)
    <3> HIDE DEF found, i, way
    <3> QED BY <2>6, <2>7, <2>8 DEF IsReal
  <2> HIDE DEF found, mark
  <2> QED BY <2>8, <2>9
<1>4. CASE b = {} /\ h = {} /\ a = {}
  <2>1. found = NoInput
    BY <1>4 DEF Detect
  <2> HIDE DEF found
  <2> QED BY <2>1, NoInputType
<1> HIDE DEF found, b, h, a
<1> QED BY <1>1, <1>2, <1>3, <1>4

LEMMA NothingSeenType == NothingSeen \in SeenInputs /\ ~NothingSeen.let_go
BY NoInputType, RecorderAssumption DEF NothingSeen, SeenInputs

\* What the history says of an input after one more poll has seen it.
LEMMA SeenCounts ==
  ASSUME Types, NEW found \in Inputs, Seen(found)
  PROVE  /\ seen' \in SeenInputs
         /\ Same(found, seen.input) =>
              /\ seen'.input = found /\ seen'.let_go = seen.let_go
              /\ seen'.polls = Stability \/ seen'.polls = seen.polls + 1
         /\ ~Same(found, seen.input) /\ Same(found, latched) =>
              seen'.input = seen.input /\ seen'.polls = seen.polls
         /\ ~Same(found, seen.input) /\ ~Same(found, latched) =>
              seen' = [input |-> found, polls |-> 1, let_go |-> FALSE]
<1>1. seen \in SeenInputs /\ Stability \in Nat \ {0}
  BY RecorderAssumption DEF Types
<1>2. CASE Same(found, seen.input)
  <2>1. seen' = [seen EXCEPT !.input = found, !.polls = IF @ = Stability THEN @ ELSE @ + 1]
    BY <1>2 DEF Seen
  <2>2. /\ seen'.input = found /\ seen'.let_go = seen.let_go
        /\ seen'.polls = IF seen.polls = Stability THEN seen.polls ELSE seen.polls + 1
    BY <1>1, <2>1 DEF SeenInputs
  <2>3. seen' \in SeenInputs
    <3>1. PICK polls \in 0..Stability : polls = IF seen.polls = Stability THEN seen.polls
                                                ELSE seen.polls + 1
      BY <1>1 DEF SeenInputs
    <3>2. seen' = [seen EXCEPT !.input = found, !.polls = polls]
      BY <2>1, <3>1
    <3> QED BY <1>1, <3>2 DEF SeenInputs
  <2> QED BY <1>2, <2>2, <2>3
<1>3. CASE ~Same(found, seen.input) /\ Same(found, latched)
  <2>1. PICK let_go \in BOOLEAN : seen' = [seen EXCEPT !.let_go = let_go]
    BY <1>1, <1>3 DEF Seen, SeenInputs
  <2> QED BY <1>1, <1>3, <2>1 DEF SeenInputs
<1>4. CASE ~Same(found, seen.input) /\ ~Same(found, latched)
  <2>1. seen' = [input |-> found, polls |-> 1, let_go |-> FALSE]
    BY <1>4 DEF Seen
  <2>2. seen' \in SeenInputs
    BY <1>1, <2>1 DEF SeenInputs
  <2> QED BY <1>4, <2>1, <2>2
<1> QED BY <1>2, <1>3, <1>4

\* A poll that brings the streak to some length, up to the stability, has seen
\* what it found as often; and it was not let go meanwhile, if nothing is held.
LEMMA StreakIsCounted ==
  ASSUME Inv, NEW found \in Inputs, Seen(found), ~Same(found, latched)
  PROVE  /\ seen'.input = found /\ seen'.polls >= Streak(found)
         /\ seen'.let_go => Valid(latched)
<1> USE DEF Inv
<1>1. /\ seen'.input = found /\ (seen'.let_go => seen.let_go)
      /\ seen'.polls = 1 \/ seen'.polls = Stability \/ seen'.polls = seen.polls + 1
      /\ seen'.polls >= 1
      /\ Same(found, seen.input) => seen'.polls = Stability \/ seen'.polls = seen.polls + 1
  <2>1. seen.polls \in Nat /\ Stability \in Nat \ {0}
    BY RecorderAssumption DEF Types, SeenInputs
  <2> QED BY <2>1, SeenCounts
<1>2. CASE Same(found, candidate) /\ streak > 0
  <2>1. Same(found, seen.input) /\ seen.polls >= streak
    BY <1>2 DEF StreakWasSeen, Same
  <2>2. Streak(found) = streak + 1 /\ streak + 1 <= Stability /\ streak \in Nat
    BY <1>2, RecorderAssumption DEF Streak, Types
  <2>3. seen.polls \in Nat /\ Stability \in Nat
    BY RecorderAssumption DEF Types, SeenInputs
  <2>4. seen'.polls >= Streak(found)
    BY <1>1, <2>1, <2>2, <2>3
  <2> QED BY <1>1, <2>4 DEF LetGoWhileHeld
<1>3. CASE ~(Same(found, candidate) /\ streak > 0)
  <2>1. Streak(found) = 1
    BY <1>3, RecorderAssumption DEF Streak, Types
  <2> QED BY <1>1, <2>1 DEF LetGoWhileHeld
<1> QED BY <1>2, <1>3

\* A recorder that was just made has seen nothing.
LEMMA InitInv == Init => Inv
<1> SUFFICES ASSUME Init PROVE Inv
  OBVIOUS
<1>1. Types
  BY NoInputType, NothingSeenType, RecorderAssumption DEF Init, Types
<1>2. UntouchedReadTheSame
  BY DEF Init, UntouchedReadTheSame
<1>3. StreakWasSeen /\ LetGoWhileHeld /\ HeldAtBeginIsSilent
  BY NoInputType, NothingSeenType DEF Init, StreakWasSeen, LetGoWhileHeld, HeldAtBeginIsSilent
<1> QED BY <1>1, <1>2, <1>3 DEF Inv

\* A poll that finds nothing, that finds what was answered last, that waits
\* or that answers.
LEMMA PollInv ==
  ASSUME Inv, Poll
  PROVE  Inv'
<1> USE DEF Inv
<1> DEFINE found == Detect(reading, baseline)
<1>1. /\ found \in Inputs
      /\ Valid(found) => Level(reading, <<found.kind, found.index>>)
                           # Level(baseline, <<found.kind, found.index>>)
  BY DetectedMoved
<1>2. UNCHANGED <<reading, baseline, untouched>>
  BY DEF Poll
<1>3. UntouchedReadTheSame'
  BY <1>2 DEF UntouchedReadTheSame
<1>4. CASE PollAtRest
  <2>1. /\ candidate' = NoInput /\ latched' = NoInput /\ answer' = NoInput
        /\ streak' = 0 /\ seen' = NothingSeen
    BY <1>4 DEF PollAtRest
  <2>2. Types'
    BY <1>2, <2>1, NoInputType, NothingSeenType, RecorderAssumption DEF Types
  <2>3. StreakWasSeen' /\ LetGoWhileHeld' /\ HeldAtBeginIsSilent'
    BY <2>1, NoInputType, NothingSeenType DEF StreakWasSeen, LetGoWhileHeld, HeldAtBeginIsSilent
  <2> QED BY <1>3, <2>2, <2>3
<1>5. CASE PollHeld
  <2>1. /\ answer' = NoInput /\ Seen(found) /\ UNCHANGED <<candidate, latched, streak>>
        /\ Valid(found) /\ Same(found, latched)
    BY <1>5 DEF PollHeld
  <2> HIDE DEF found
  <2>2. Types'
    BY <1>1, <1>2, <2>1, NoInputType, SeenCounts DEF Types
  <2>3. StreakWasSeen'
    <3> SUFFICES ASSUME streak > 0
                 PROVE  Same(seen'.input, candidate) /\ seen'.polls >= streak
      BY <2>1 DEF StreakWasSeen
    <3>1. Same(seen.input, candidate) /\ seen.polls >= streak
      BY DEF StreakWasSeen
    <3>2. /\ streak \in 0..(Stability - 1) /\ seen.polls \in Nat /\ Stability \in Nat
      BY RecorderAssumption DEF Types, SeenInputs
    <3>3. CASE Same(found, seen.input)
      <4>1. /\ seen'.input = found
            /\ seen'.polls = Stability \/ seen'.polls = seen.polls + 1
        BY <1>1, <2>1, <3>3, SeenCounts
      <4>2. seen'.polls >= streak
        BY <3>1, <3>2, <4>1
      <4> QED BY <3>1, <3>3, <4>1, <4>2 DEF Same
    <3>4. CASE ~Same(found, seen.input)
      BY <1>1, <2>1, <3>1, <3>4, SeenCounts
    <3> QED BY <3>3, <3>4
  <2>4. LetGoWhileHeld' /\ HeldAtBeginIsSilent'
    <3>1. found.kind = latched.kind
      BY <1>1, <2>1 DEF Types, Same, Inputs
    <3> QED BY <2>1, <3>1, NoInputType DEF LetGoWhileHeld, HeldAtBeginIsSilent, Valid
  <2> QED BY <1>3, <2>2, <2>3, <2>4
<1>6. CASE PollWaiting
  <2>1. /\ answer' = NoInput /\ Seen(found) /\ ~LongEnough(found) /\ ~Same(found, latched)
        /\ candidate' = IF Same(found, candidate) THEN candidate ELSE found
        /\ streak' = Streak(found) /\ UNCHANGED latched
    BY <1>6 DEF PollWaiting
  <2> HIDE DEF found
  <2>2. Types'
    <3>1. streak' \in 0..(Stability - 1)
      BY <2>1, RecorderAssumption DEF LongEnough, Streak, Types
    <3> QED BY <1>1, <1>2, <2>1, <3>1, NoInputType, SeenCounts DEF Types
  <2>3. /\ seen'.input = found /\ seen'.polls >= Streak(found)
        /\ seen'.let_go => Valid(latched)
    BY <1>1, <2>1, StreakIsCounted
  <2>4. StreakWasSeen' /\ LetGoWhileHeld'
    BY <2>1, <2>3 DEF StreakWasSeen, LetGoWhileHeld, Same
  <2>5. HeldAtBeginIsSilent'
    BY <2>1, NoInputType DEF HeldAtBeginIsSilent
  <2> QED BY <1>3, <2>2, <2>4, <2>5
<1>7. CASE PollAnswers
  <2>1. /\ answer' = found /\ Seen(found) /\ candidate' = NoInput /\ streak' = 0
        /\ latched' = found /\ Valid(found)
    BY <1>7 DEF PollAnswers
  <2> HIDE DEF found
  <2>2. Types'
    BY <1>1, <1>2, <2>1, NoInputType, SeenCounts, RecorderAssumption DEF Types
  <2>3. HeldAtBeginIsSilent'
    <3>1. <<found.kind, found.index>> \notin untouched
      BY <1>1, <2>1 DEF UntouchedReadTheSame
    <3> QED BY <1>2, <2>1, <3>1 DEF HeldAtBeginIsSilent
  <2>4. StreakWasSeen' /\ LetGoWhileHeld'
    BY <2>1 DEF StreakWasSeen, LetGoWhileHeld
  <2> QED BY <1>3, <2>2, <2>3, <2>4
<1> QED BY <1>4, <1>5, <1>6, <1>7 DEF Poll

\* The actions of the game and of the pad.
LEMMA NextInv == Inv /\ [Next]_vars => Inv'
<1> SUFFICES ASSUME Inv, [Next]_vars PROVE Inv'
  OBVIOUS
<1> USE DEF Inv
<1>1. ASSUME NEW r \in Readings, Frame(r) PROVE Inv'
  <2>1. /\ reading' = r /\ untouched' \subseteq untouched
        /\ \A src \in untouched' : Level(reading', src) = Level(reading, src)
        /\ UNCHANGED <<baseline, candidate, latched, streak, answer, seen>>
    BY <1>1 DEF Frame, recorder
  <2>2. Types' /\ StreakWasSeen' /\ LetGoWhileHeld'
    BY <2>1 DEF Types, StreakWasSeen, LetGoWhileHeld
  <2>3. UntouchedReadTheSame'
    BY <2>1 DEF UntouchedReadTheSame
  <2>4. HeldAtBeginIsSilent'
    BY <2>1 DEF HeldAtBeginIsSilent
  <2> QED BY <2>2, <2>3, <2>4
<1>2. CASE Begin
  <2>1. /\ baseline' = reading /\ reading' = reading /\ candidate' = NoInput
        /\ latched' = NoInput /\ streak' = 0 /\ answer' = NoInput /\ seen' = NothingSeen
    BY <1>2 DEF Begin
  <2>2. Types'
    BY <2>1, NoInputType, NothingSeenType, RecorderAssumption DEF Types
  <2>3. UntouchedReadTheSame'
    BY <2>1 DEF UntouchedReadTheSame
  <2>4. StreakWasSeen' /\ LetGoWhileHeld' /\ HeldAtBeginIsSilent'
    BY <2>1, NoInputType, NothingSeenType DEF StreakWasSeen, LetGoWhileHeld, HeldAtBeginIsSilent
  <2> QED BY <2>2, <2>3, <2>4
<1>3. CASE Poll
  BY <1>3, PollInv
<1>4. CASE UNCHANGED <<reading, baseline, candidate, latched, streak, answer, seen, untouched>>
  BY <1>4 DEF Types, UntouchedReadTheSame, StreakWasSeen, LetGoWhileHeld, HeldAtBeginIsSilent
<1>5. ASSUME NEW t \in Targets, Bind(t) PROVE Inv'
  BY <1>4, <1>5 DEF Bind, recorder
<1>6. ASSUME NEW ts, Clear(ts) PROVE Inv'
  BY <1>4, <1>6 DEF Clear, recorder
<1>7. CASE UNCHANGED vars
  BY <1>4, <1>7 DEF vars, recorder, history
<1> QED BY <1>1, <1>2, <1>3, <1>5, <1>6, <1>7 DEF Next

\* The invariant holds of every state of the recorder.
THEOREM InvHolds == Spec => []Inv
BY InitInv, NextInv, PTL DEF Spec

\* However long a screen is open: what was held when it appeared, and stayed
\* held, is never taken for an answer.
THEOREM HeldIsNeverAnswered == Spec => []HeldAtBeginIsSilent
<1>1. Inv => HeldAtBeginIsSilent
  BY DEF Inv
<1> QED BY <1>1, InvHolds, PTL

\* No answer comes before the input was seen as often as stability asks for,
\* whatever else moved in between; and unless an input answered before is held,
\* it stayed moved all the while.
THEOREM AnswersWereSeen == Spec => AnswerWasSeenLongEnough
<1> DEFINE SeenLongEnough == /\ seen'.input = answer' /\ seen'.polls >= Stability
                             /\ Valid(latched) \/ ~seen'.let_go
<1>1. ASSUME Inv, Poll, Valid(answer') PROVE SeenLongEnough
  <2> DEFINE found == Detect(reading, baseline)
  <2>1. PollAnswers
    BY <1>1, NoInputType DEF Poll, PollAtRest, PollHeld, PollWaiting
  <2>2. answer' = found /\ Seen(found) /\ Streak(found) >= Stability /\ ~Same(found, latched)
    BY <2>1 DEF PollAnswers, LongEnough
  <2>3. found \in Inputs
    BY <1>1, DetectedMoved DEF Inv
  <2> HIDE DEF found
  <2>4. /\ seen'.input = found /\ seen'.polls >= Streak(found)
        /\ seen'.let_go => Valid(latched)
    BY <1>1, <2>2, <2>3, StreakIsCounted
  <2>5. seen'.polls \in Nat /\ Streak(found) \in Nat
    BY <1>1, <2>2, <2>3, SeenCounts, RecorderAssumption DEF Inv, Types, Streak, SeenInputs
  <2>6. seen'.polls >= Stability
    BY <2>2, <2>4, <2>5, RecorderAssumption
  <2> QED BY <2>2, <2>4, <2>6
<1>2. Inv => [Poll /\ Valid(answer') => SeenLongEnough]_vars
  BY <1>1
<1> QED BY <1>2, InvHolds, PTL DEF AnswerWasSeenLongEnough
-----------------------------------------------------------------------------
(* the bindings *)

\* Inputs the device has, and the entries that bind them.
RealInputs == {in \in Inputs : Valid(in) => IsReal(in)}

Bindings == [output : Targets, input : {in \in RealInputs : Valid(in)}]

\* What is bound, and that no output is bound twice.
Pairs(list) == {<<list[i].output, list[i].input>> : i \in DOMAIN list}
Once(list)  == \A i, j \in DOMAIN list : list[i].output = list[j].output => i = j

BindingInv ==
  /\ candidate \in RealInputs /\ latched \in RealInputs /\ answer \in RealInputs
  /\ entries \in Seq(Bindings)
  /\ Pairs(entries) = wish /\ Once(entries)

\* An absent input needs no device.
LEMMA NoInputIsReal == NoInput \in RealInputs
BY NoInputType DEF RealInputs

\* What detect() finds is an input of the device.
LEMMA DetectedIsReal == ASSUME Types PROVE Detect(reading, baseline) \in RealInputs
<1> DEFINE found == Detect(reading, baseline)
<1>1. found \in Inputs /\ (Valid(found) => IsReal(found))
  BY DetectedMoved
<1> HIDE DEF found
<1>2. found \in RealInputs
  BY <1>1 DEF RealInputs
<1> QED BY <1>2 DEF found

\* The inputs of the proofs are those of the type invariant.
LEMMA RealIsTyped == ASSUME NEW in \in RealInputs PROVE InputType(in)
<1>1. in \in Inputs /\ (Valid(in) => <<in.kind, in.index>> \in Sources)
  BY DEF RealInputs, IsReal
<1>2. DOMAIN in = DOMAIN NoInput
  BY <1>1 DEF Inputs, NoInput, RawInput
<1>3. /\ in.kind \in Kinds /\ in.direction \in {-1, 0, 1}
      /\ in.hat_mask \subseteq Directions /\ in.rests_at_extreme \in BOOLEAN
  BY <1>1 DEF Inputs
<1> QED BY <1>1, <1>2, <1>3 DEF InputType

\* note() leaves the other outputs bound to what they were, and this output
\* to the new input alone.
LEMMA NotedReplaces ==
  ASSUME entries \in Seq(Bindings), Once(entries),
         NEW target \in Targets, NEW in \in RealInputs, Valid(in)
  PROVE  /\ Noted(target, in) \in Seq(Bindings) /\ Once(Noted(target, in))
         /\ Pairs(Noted(target, in))
              = {w \in Pairs(entries) : w[1] # target} \cup {<<target, in>>}
<1> DEFINE new == [output |-> target, input |-> in]
           list == Noted(target, in)
<1>1. /\ Len(entries) \in Nat /\ DOMAIN entries = 1..Len(entries)
      /\ \A i \in DOMAIN entries : entries[i] \in Bindings
      /\ new \in Bindings /\ new.output = target /\ new.input = in
  BY LenProperties, ElementOfSeq DEF Bindings
<1> HIDE DEF new
<1>2. CASE \E i \in DOMAIN entries : entries[i].output = target
  <2>1. list = [i \in DOMAIN entries |-> IF entries[i].output = target THEN new ELSE entries[i]]
    BY <1>2 DEF Noted, new
  <2> HIDE DEF list
  <2>2. list \in Seq(Bindings)
    <3>1. list \in [1..Len(entries) -> Bindings]
      BY <1>1, <2>1
    <3> QED BY <1>1, <3>1, SeqDef
  <2>3. Once(list)
    <3>1. \A i \in DOMAIN entries : list[i].output = entries[i].output
      BY <1>1, <2>1
    <3> QED BY <2>1, <3>1 DEF Once
  <2>4. PICK k \in DOMAIN entries : entries[k].output = target
    BY <1>2
  <2>5. /\ DOMAIN list = DOMAIN entries /\ list[k] = new
        /\ \A i \in DOMAIN entries : i # k => list[i] = entries[i] /\ entries[i].output # target
    BY <2>1, <2>4 DEF Once
  <2>6. Pairs(list) = {w \in Pairs(entries) : w[1] # target} \cup {<<target, in>>}
    BY <1>1, <2>4, <2>5 DEF Pairs
  <2> QED BY <2>2, <2>3, <2>6 DEF list
<1>3. CASE ~ \E i \in DOMAIN entries : entries[i].output = target
  <2>1. list = Append(entries, new)
    BY <1>3 DEF Noted, new
  <2> HIDE DEF list
  <2>2. /\ list \in Seq(Bindings) /\ Len(list) = Len(entries) + 1
        /\ \A i \in 1..Len(entries) : list[i] = entries[i]
        /\ list[Len(entries) + 1] = new
    BY <1>1, <2>1, AppendProperties
  <2> DEFINE last == Len(entries) + 1
  <2>3. DOMAIN list = DOMAIN entries \cup {last} /\ last \notin DOMAIN entries
    <3>1. DOMAIN list = 1..(Len(entries) + 1)
      BY <2>2, LenProperties
    <3> QED BY <1>1, <3>1
  <2>4. list[last] = new /\ \A i \in DOMAIN entries : list[i] = entries[i]
    BY <1>1, <2>2
  <2> HIDE DEF last
  <2>5. Once(list)
    BY <1>1, <1>3, <2>3, <2>4 DEF Once
  <2>6. Pairs(list) = {w \in Pairs(entries) : w[1] # target} \cup {<<target, in>>}
    BY <1>1, <1>3, <2>3, <2>4 DEF Pairs
  <2> QED BY <2>2, <2>5, <2>6 DEF list
<1> QED BY <1>2, <1>3

\* clear() leaves the outputs it is not about as they were.
LEMMA ClearedKeepsOthers ==
  ASSUME entries \in Seq(Bindings), Once(entries), NEW targets, Clear(targets)
  PROVE  /\ entries' \in Seq(Bindings) /\ Once(entries')
         /\ Pairs(entries') = {w \in Pairs(entries) : w[1] \notin targets}
<1> DEFINE S == Staying(targets)
           n == Cardinality(S)
<1>1. /\ Len(entries) \in Nat /\ DOMAIN entries = 1..Len(entries)
      /\ \A i \in DOMAIN entries : entries[i] \in Bindings
  BY LenProperties, ElementOfSeq
<1>2. IsFiniteSet(S)
  <2>1. S \subseteq 1..Len(entries)
    BY <1>1 DEF Staying
  <2>2. IsFiniteSet(1..Len(entries))
    BY <1>1, FS_Interval
  <2> HIDE DEF S
  <2> QED BY <2>1, <2>2, FS_Subset
<1>3. PICK kept \in Bijection(1..n, S) :
        /\ \A i, j \in DOMAIN kept : i < j => kept[i] < kept[j]
        /\ entries' = [i \in DOMAIN kept |-> entries[kept[i]]]
  BY DEF Clear
<1>4. \A i \in S : i \in DOMAIN entries /\ entries[i].output \notin targets
  BY DEF Staying
<1>5. \A i \in DOMAIN entries : entries[i].output \notin targets => i \in S
  BY DEF Staying
<1> HIDE DEF S
<1>6. /\ n \in Nat /\ kept \in [1..n -> S]
      /\ \A i \in S : \E k \in 1..n : kept[k] = i
  BY <1>2, <1>3, Enumeration
<1>7. \A i, j \in 1..n : kept[i] = kept[j] => i = j
  BY <1>3 DEF Bijection, Injection, IsInjective
<1> HIDE DEF n
<1>8. DOMAIN entries' = 1..n /\ \A k \in 1..n : entries'[k] = entries[kept[k]]
  BY <1>3, <1>6
<1>9. entries' \in Seq(Bindings)
  <2>1. entries' \in [1..n -> Bindings]
    BY <1>1, <1>3, <1>4, <1>6
  <2> QED BY <1>6, <2>1, SeqDef
<1>10. Once(entries')
  <2> SUFFICES ASSUME NEW i \in 1..n, NEW j \in 1..n, entries'[i].output = entries'[j].output
               PROVE  i = j
    BY <1>8 DEF Once
  <2>1. kept[i] = kept[j]
    BY <1>4, <1>6, <1>8 DEF Once
  <2> QED BY <1>7, <2>1
<1>11. Pairs(entries') = {w \in Pairs(entries) : w[1] \notin targets}
  <2>1. ASSUME NEW w \in Pairs(entries') PROVE w \in Pairs(entries) /\ w[1] \notin targets
    <3>1. PICK k \in 1..n : w = <<entries'[k].output, entries'[k].input>>
      BY <1>8 DEF Pairs
    <3>2. kept[k] \in DOMAIN entries /\ entries[kept[k]].output \notin targets
      BY <1>4, <1>6
    <3>3. w = <<entries[kept[k]].output, entries[kept[k]].input>>
      BY <1>8, <3>1
    <3> QED BY <3>2, <3>3 DEF Pairs
  <2>2. ASSUME NEW w \in Pairs(entries), w[1] \notin targets PROVE w \in Pairs(entries')
    <3>1. PICK i \in DOMAIN entries : w = <<entries[i].output, entries[i].input>>
      BY DEF Pairs
    <3>2. PICK k \in 1..n : kept[k] = i
      BY <1>5, <1>6, <2>2, <3>1
    <3> QED BY <1>8, <3>1, <3>2 DEF Pairs
  <2> QED BY <2>1, <2>2
<1> QED BY <1>9, <1>10, <1>11

\* Polling finds inputs of the device; binding and clearing keep the entries
\* and the wishes alike.
LEMMA NextBindingInv == Types /\ BindingInv /\ [Next]_vars => BindingInv'
<1> SUFFICES ASSUME Types, BindingInv, [Next]_vars PROVE BindingInv'
  OBVIOUS
<1>1. CASE UNCHANGED <<candidate, latched, answer, entries, wish>>
  BY <1>1 DEF BindingInv
<1>2. ASSUME NEW r, Frame(r) PROVE BindingInv'
  BY <1>1, <1>2 DEF Frame, recorder
<1>3. CASE Begin
  BY <1>3, NoInputIsReal DEF Begin, BindingInv
<1>4. CASE Poll
  <2> DEFINE found == Detect(reading, baseline)
  <2>1. found \in RealInputs
    BY DetectedIsReal
  <2>2. UNCHANGED <<entries, wish>>
    BY <1>4 DEF Poll
  <2>3. /\ candidate' \in {NoInput, candidate, found}
        /\ latched' \in {NoInput, latched, found}
        /\ answer' \in {NoInput, found}
    BY <1>4 DEF Poll, PollAtRest, PollHeld, PollWaiting, PollAnswers
  <2> HIDE DEF found
  <2> QED BY <2>1, <2>2, <2>3, NoInputIsReal DEF BindingInv
<1>5. ASSUME NEW target \in Targets, Bind(target) PROVE BindingInv'
  <2>1. /\ entries' = Noted(target, answer)
        /\ wish' = {w \in wish : w[1] # target} \cup {<<target, answer>>}
        /\ UNCHANGED <<candidate, latched, answer>> /\ Valid(answer)
    BY <1>5 DEF Bind, recorder
  <2>2. /\ Noted(target, answer) \in Seq(Bindings) /\ Once(Noted(target, answer))
        /\ Pairs(Noted(target, answer))
             = {w \in Pairs(entries) : w[1] # target} \cup {<<target, answer>>}
    BY <2>1, NotedReplaces DEF BindingInv
  <2> QED BY <2>1, <2>2 DEF BindingInv
<1>6. ASSUME NEW targets, Clear(targets) PROVE BindingInv'
  <2>1. /\ wish' = {w \in wish : w[1] \notin targets}
        /\ UNCHANGED <<candidate, latched, answer>>
    BY <1>6 DEF Clear, recorder
  <2>2. /\ entries' \in Seq(Bindings) /\ Once(entries')
        /\ Pairs(entries') = {w \in Pairs(entries) : w[1] \notin targets}
    BY <1>6, ClearedKeepsOthers DEF BindingInv
  <2> QED BY <2>1, <2>2 DEF BindingInv
<1>7. CASE UNCHANGED vars
  BY <1>1, <1>7 DEF vars, recorder, history
<1> QED BY <1>2, <1>3, <1>4, <1>5, <1>6, <1>7 DEF Next

\* The entries of every state are the wishes.
THEOREM BindingInvHolds == Spec => []BindingInv
<1>1. Init => BindingInv
  <2> SUFFICES ASSUME Init PROVE BindingInv
    OBVIOUS
  <2>1. entries \in Seq(Bindings) /\ DOMAIN entries = {}
    BY DEF Init
  <2> QED BY <2>1, NoInputIsReal DEF Init, BindingInv, Pairs, Once
<1>2. Inv => Types
  BY DEF Inv
<1> QED BY <1>1, <1>2, InvHolds, NextBindingInv, PTL DEF Spec

\* Every variable of the recorder has its type, and a streak never outgrows
\* the stability asked for: what is found, answered and bound is an input the
\* device has.
THEOREM RecorderIsWellTyped == Spec => []TypeOK
<1>1. Inv /\ BindingInv => TypeOK
  <2> SUFFICES ASSUME Inv, BindingInv PROVE TypeOK
    OBVIOUS
  <2>1. reading \in Readings /\ baseline \in Readings /\ streak \in 0..(Stability - 1)
    BY DEF Inv, Types
  <2>2. InputType(candidate) /\ InputType(latched) /\ InputType(answer)
    BY RealIsTyped DEF BindingInv
  <2>3. ASSUME NEW i \in DOMAIN entries
        PROVE  entries[i].output \in Targets /\ InputType(entries[i].input)
    <3>1. entries[i] \in Bindings
      BY LenProperties, ElementOfSeq DEF BindingInv
    <3> QED BY <3>1, RealIsTyped DEF Bindings
  <2> QED BY <2>1, <2>2, <2>3 DEF TypeOK
<1> QED BY <1>1, InvHolds, BindingInvHolds, PTL

\* However often outputs are bound, bound again and cleared, the entries hold
\* the last input bound to each, once: so does the line written from them.
THEOREM EntriesAreAlwaysTheWishes == Spec => []EntriesAreTheWishes
<1>1. BindingInv => EntriesAreTheWishes
  BY DEF BindingInv, EntriesAreTheWishes, Pairs, Once
<1> QED BY <1>1, BindingInvHolds, PTL
-----------------------------------------------------------------------------
(* the line that the recorder writes *)

\* The binding that is read back from the field of a recorded input.
ReadBack(in, target, kind) ==
  ParseBinding([output |-> OutputOf(target, kind), half |-> 0, source |-> SourceText(in, kind)])
-----------------------------------------------------------------------------
\* An index of up to 15 bits survives the cast to 16.
LEMMA IndexSurvives == ASSUME NEW index \in Nat, index < 32768 PROVE Int16(index) = index
BY DEF Int16

\* What is written of an axis: taken whole, with a tilde if it was moved down,
\* or the half it was moved in.
LEMMA AxisText ==
  ASSUME NEW in, in.kind = "Axis", in.direction \in {-1, 1}, NEW kind
  PROVE  /\ SourceText(in, kind).letter = "a" /\ SourceText(in, kind).number = in.index
         /\ Whole(in, kind) => /\ SourceText(in, kind).half = 0
                               /\ in.direction = 1 => SourceText(in, kind).tilde = FALSE
                               /\ in.direction = -1 => SourceText(in, kind).tilde = TRUE
         /\ ~Whole(in, kind) => /\ SourceText(in, kind).half = in.direction
                                /\ SourceText(in, kind).tilde = FALSE
<1> DEFINE plain == [letter |-> "b", number |-> in.index, mask |-> -1, half |-> 0, tilde |-> FALSE]
           text == SourceText(in, kind)
<1>1. CASE Whole(in, kind)
  <2>1. text = [plain EXCEPT !.letter = "a", !.tilde = in.direction < 0]
    BY <1>1 DEF SourceText
  <2> HIDE DEF text
  <2>2. text.letter = "a" /\ text.number = in.index /\ text.half = 0
    BY <2>1
  <2>3. in.direction = 1 => text.tilde = FALSE
    <3>1. in.direction = 1 => (in.direction < 0) = FALSE
      OBVIOUS
    <3> QED BY <2>1, <3>1
  <2>4. in.direction = -1 => text.tilde = TRUE
    <3>1. in.direction = -1 => (in.direction < 0) = TRUE
      OBVIOUS
    <3> QED BY <2>1, <3>1
  <2> QED BY <1>1, <2>2, <2>3, <2>4 DEF text
<1>2. CASE ~Whole(in, kind)
  <2>1. text = [plain EXCEPT !.letter = "a", !.half = in.direction]
    BY <1>2 DEF SourceText
  <2> HIDE DEF text
  <2>2. text.letter = "a" /\ text.number = in.index /\ text.half = in.direction
        /\ text.tilde = FALSE
    BY <2>1
  <2> QED BY <1>2, <2>2 DEF text
<1> QED BY <1>1, <1>2

\* What is read of it.
LEMMA AxisReadBack ==
  ASSUME NEW in, in.kind = "Axis", Int16(in.index) = in.index, in.direction \in {-1, 1},
         NEW target, NEW kind
  PROVE  LET e == ReadBack(in, target, kind)
             text == SourceText(in, kind)
         IN /\ e.dst.kind = kind /\ e.dst_half = 0
            /\ e.binding.src = "Axis" /\ e.binding.src_index = in.index
            /\ e.binding.src_half = text.half /\ e.binding.src_invert = text.tilde
<1> DEFINE text == SourceText(in, kind)
<1>1. text.letter = "a" /\ text.number = in.index
  BY AxisText
<1> HIDE DEF text
<1>2. LET b == ParseSource(text)
      IN /\ b.src = "Axis" /\ b.src_index = in.index
         /\ b.src_half = text.half /\ b.src_invert = text.tilde
  BY <1>1 DEF ParseSource
<1>3. ReadBack(in, target, kind) = [binding |-> ParseSource(text), dst |-> OutputOf(target, kind), dst_half |-> 0]
  BY DEF ReadBack, ParseBinding, text
<1> QED BY <1>2, <1>3 DEF OutputOf, text

\* An axis that was bound drives its output: all the way when it is pushed the
\* way it was answered, not at all when it is let go, a trigger also from an
\* axis that rests at the end of its travel; and never outside the range of
\* the output, wherever the axis is.
THEOREM RecordedAxisDrives ==
  ASSUME NEW in, in.kind = "Axis", Int16(in.index) = in.index, in.direction \in {-1, 1},
         NEW target, NEW kind \in {"Stick", "Trigger"},
         NEW raw, in.index \in DOMAIN raw.axis, raw.axis[in.index] \in (-Full)..Full
  PROVE  LET value == Contribution(ReadBack(in, target, kind), raw)
         IN /\ value \in (IF kind = "Trigger" THEN 0 ELSE -Full)..Full
            /\ Pushed(in, raw) => value = Full
            /\ LetGo(in, raw) /\ ~(kind = "Stick" /\ in.rests_at_extreme) => value = 0
<1> DEFINE e == ReadBack(in, target, kind)
           v == raw.axis[in.index]
           direction == in.direction
           value == Contribution(e, raw)
<1> SUFFICES /\ value \in (IF kind = "Trigger" THEN 0 ELSE -Full)..Full
             /\ Pushed(in, raw) => value = Full
             /\ LetGo(in, raw) /\ ~(kind = "Stick" /\ in.rests_at_extreme) => value = 0
  OBVIOUS
<1>1. /\ e.dst.kind = kind /\ e.dst_half = 0
      /\ e.binding.src = "Axis" /\ e.binding.src_index = in.index
      /\ e.binding.src_half = SourceText(in, kind).half
      /\ e.binding.src_invert = SourceText(in, kind).tilde
  BY AxisReadBack
<1>2. /\ Pushed(in, raw) => v = direction * Full
      /\ LetGo(in, raw) => v = IF in.rests_at_extreme THEN -direction * Full ELSE 0
  BY DEF Pushed, LetGo
<1>3. v \in Int /\ -Full <= v /\ v <= Full /\ Full \in Nat \ {0}
  BY LineAssumption
<1>4. RawAxis(raw, e.binding.src_index) = v
  BY <1>1 DEF RawAxis
<1>5. direction \in {-1, 1}
  OBVIOUS
<1>6. CASE Whole(in, kind)
  <2>1. /\ e.binding.src_half = 0
        /\ direction = 1 => e.binding.src_invert = FALSE
        /\ direction = -1 => e.binding.src_invert = TRUE
    BY <1>1, <1>6, AxisText
  <2>2. kind = "Trigger" => in.rests_at_extreme
    BY <1>6 DEF Whole
  <2> HIDE DEF e, v, direction
  <2>3. SourceValue(e.binding, raw) = direction * v
    <3>1. CASE direction = 1
      BY <1>1, <1>3, <1>4, <2>1, <3>1 DEF SourceValue, AxisSource, Halved
    <3>2. CASE direction = -1
      BY <1>1, <1>3, <1>4, <2>1, <3>2 DEF SourceValue, AxisSource, Halved
    <3> QED BY <1>5, <3>1, <3>2
  <2>4. CASE kind = "Stick"
    <3>1. value = direction * v
      BY <1>1, <2>3, <2>4 DEF Contribution, Rescaled
    <3> HIDE DEF value
    <3> QED BY <1>2, <1>3, <1>5, <2>4, <3>1
  <2>5. CASE kind = "Trigger"
    <3>1. value = (direction * v + Full) \div 2
      BY <1>1, <2>1, <2>3, <2>5 DEF Contribution, Rescaled
    <3> HIDE DEF value
    <3> QED BY <1>2, <1>3, <1>5, <2>2, <2>5, <3>1
  <2> QED BY <2>4, <2>5
<1>7. CASE ~Whole(in, kind)
  <2>1. e.binding.src_half = direction /\ e.binding.src_invert = FALSE
    BY <1>1, <1>7, AxisText
  <2>2. kind = "Trigger" /\ ~in.rests_at_extreme
    BY <1>7 DEF Whole
  <2> HIDE DEF e, v, direction
  <2>3. SourceValue(e.binding, raw) = IF direction * v > 0 THEN direction * v ELSE 0
    <3>1. AxisSource(e.binding, v) = Halved(v, direction)
      BY <2>1 DEF AxisSource
    <3>2. Halved(v, direction) = IF direction * v > 0 THEN direction * v ELSE 0
      BY <1>3, <1>5 DEF Halved
    <3> QED BY <1>1, <1>4, <3>1, <3>2 DEF SourceValue
  <2>4. value = IF direction * v > 0 THEN direction * v ELSE 0
    BY <1>1, <1>5, <2>1, <2>3 DEF Contribution, Rescaled
  <2> HIDE DEF value
  <2> QED BY <1>2, <1>3, <1>5, <2>2, <2>4
<1> QED BY <1>6, <1>7
-----------------------------------------------------------------------------
(* the whole line *)

\* The sum over the bindings of an output, where there is but one.  The fold
\* of the library recurs over the subsets of what it sums; of one binding
\* these are two.
LEMMA SumOfOne ==
  ASSUME NEW applied, NEW raw, NEW output, NEW i, Drivers(applied, output) = {i},
         Contribution(applied[i], raw) \in Int
  PROVE  Sum(applied, raw, output) = Contribution(applied[i], raw)
<1> DEFINE Value(x) == Contribution(applied[x], raw)
           Unrolled(g) == [s \in SUBSET {i} |-> IF s = {} THEN 0
                         ELSE Value(CHOOSE x \in s : TRUE) + g[s \ {CHOOSE x \in s : TRUE}]]
           iter == CHOOSE g : g = Unrolled(g)
           h == [s \in SUBSET {i} |-> IF s = {} THEN 0 ELSE Value(i)]
<1>1. Sum(applied, raw, output) = iter[{i}]
  BY DEF Sum, MapThenSumSet, MapThenFoldSet
<1>2. Value(i) \in Int
  OBVIOUS
<1> HIDE DEF Value
<1>3. (CHOOSE x \in {i} : TRUE) = i
  OBVIOUS
<1>4. SUBSET {i} = {{}, {i}}
  OBVIOUS
<1>5. h = Unrolled(h)
  BY <1>2, <1>3, <1>4
<1> HIDE DEF h, Unrolled
<1>6. iter = Unrolled(iter)
  BY <1>5
<1> HIDE DEF iter
<1>7. iter[{}] = 0
  BY <1>4, <1>6 DEF Unrolled
<1>8. iter[{i}] = Value(i) + iter[{i} \ {i}]
  BY <1>3, <1>4, <1>6 DEF Unrolled
<1>9. {i} \ {i} = {}
  OBVIOUS
<1>10. iter[{i}] = Value(i)
  BY <1>2, <1>7, <1>8, <1>9
<1> QED BY <1>1, <1>10 DEF Value

\* A mask is read back as it was written.
LEMMA MaskReadBack ==
  ASSUME NEW mask \in SUBSET {1, 2, 4, 8}
  PROVE  MaskNumber(mask) \in 0..255 /\ Bits(MaskNumber(mask)) = mask
<1> DEFINE n == (IF 1 \in mask THEN 1 ELSE 0) + (IF 2 \in mask THEN 2 ELSE 0)
                  + (IF 4 \in mask THEN 4 ELSE 0) + (IF 8 \in mask THEN 8 ELSE 0)
<1>1. n \in 0..15
  OBVIOUS
<1>2. /\ (n \div 1) % 2 = 1 <=> 1 \in mask
      /\ (n \div 2) % 2 = 1 <=> 2 \in mask
      /\ (n \div 4) % 2 = 1 <=> 4 \in mask
      /\ (n \div 8) % 2 = 1 <=> 8 \in mask
  OBVIOUS
<1> HIDE DEF n
<1>3. n \div 16 = 0 /\ n \div 32 = 0 /\ n \div 64 = 0 /\ n \div 128 = 0 /\ 0 % 2 = 0
  BY <1>1
<1>4. Bits(n) = mask
  <2>1. \A bit \in {1, 2, 4, 8} : (n \div bit) % 2 = 1 <=> bit \in mask
    BY <1>2
  <2>2. \A bit \in {16, 32, 64, 128} : ~((n \div bit) % 2 = 1) /\ bit \notin mask
    BY <1>3
  <2>3. \A bit \in {1, 2, 4, 8, 16, 32, 64, 128} : (n \div bit) % 2 = 1 <=> bit \in mask
    BY <2>1, <2>2
  <2>4. \A bit \in mask : bit \in {1, 2, 4, 8, 16, 32, 64, 128}
    OBVIOUS
  <2>5. Bits(n) \subseteq mask
    BY <2>3 DEF Bits
  <2>6. mask \subseteq Bits(n)
    BY <2>3, <2>4 DEF Bits
  <2> QED BY <2>5, <2>6
<1>5. \E k \in 0..255 : Bits(k) = mask
  <2>1. n \in 0..255
    BY <1>1
  <2> QED BY <1>4, <2>1
<1> QED BY <1>5 DEF MaskNumber

\* What is read of a button and of a hat.
LEMMA ButtonReadBack ==
  ASSUME NEW in, in.kind = "Button", Int16(in.index) = in.index, NEW target, NEW kind
  PROVE  LET e == ReadBack(in, target, kind)
         IN /\ e.dst = OutputOf(target, kind) /\ e.dst_half = 0
            /\ e.binding.src = "Button" /\ e.binding.src_index = in.index
<1> DEFINE text == SourceText(in, kind)
<1>1. text.letter = "b" /\ text.number = in.index
  BY DEF SourceText
<1> HIDE DEF text
<1>2. ParseSource(text).src = "Button" /\ ParseSource(text).src_index = in.index
  BY <1>1 DEF ParseSource
<1>3. ReadBack(in, target, kind)
        = [binding |-> ParseSource(text), dst |-> OutputOf(target, kind), dst_half |-> 0]
  BY DEF ReadBack, ParseBinding, text
<1> QED BY <1>2, <1>3

LEMMA HatReadBack ==
  ASSUME NEW in, in.kind = "Hat", Int16(in.index) = in.index,
         in.hat_mask \in SUBSET {1, 2, 4, 8}, NEW target, NEW kind
  PROVE  LET e == ReadBack(in, target, kind)
         IN /\ e.dst = OutputOf(target, kind) /\ e.dst_half = 0
            /\ e.binding.src = "Hat" /\ e.binding.src_index = in.index
            /\ e.binding.hat_mask = in.hat_mask
<1> DEFINE text == SourceText(in, kind)
           n == MaskNumber(in.hat_mask)
<1>1. text.letter = "h" /\ text.number = in.index /\ text.mask = n
  BY DEF SourceText
<1>2. n \in 0..255 /\ Bits(n) = in.hat_mask
  BY MaskReadBack
<1> HIDE DEF text, n
<1>3. UInt8(n) = n
  BY <1>2 DEF UInt8
<1>4. /\ ParseSource(text).src = "Hat" /\ ParseSource(text).src_index = in.index
      /\ ParseSource(text).hat_mask = in.hat_mask
  BY <1>1, <1>2, <1>3 DEF ParseSource
<1>5. ReadBack(in, target, kind)
        = [binding |-> ParseSource(text), dst |-> OutputOf(target, kind), dst_half |-> 0]
  BY DEF ReadBack, ParseBinding, text
<1> QED BY <1>4, <1>5

\* What a binding is made of, of which this and the next lemma speak: an input
\* the device has, and readings of the device.
LEMMA RealInputFacts ==
  ASSUME NEW in \in RealInputs, Valid(in)
  PROVE  /\ in.kind \in {"Button", "Hat", "Axis"}
         /\ in.index \in Nat /\ Int16(in.index) = in.index
         /\ in.kind = "Button" => in.index \in 1..NButtons
         /\ in.kind = "Hat" => /\ in.index \in 1..NHats
                               /\ in.hat_mask \in SUBSET {1, 2, 4, 8} /\ in.hat_mask # {}
         /\ in.kind = "Axis" => in.index \in 1..NAxes /\ in.direction \in {-1, 1}
<1>1. in \in Inputs /\ IsReal(in)
  BY DEF RealInputs
<1>2. /\ in.kind \in {"Button", "Hat", "Axis"} /\ in.index \in Nat
      /\ in.hat_mask \in SUBSET {1, 2, 4, 8}
  <2>1. in.kind \in Kinds /\ in.index \in Nat /\ in.hat_mask \in SUBSET Directions
    BY <1>1 DEF Inputs
  <2>2. in.kind \in {"Button", "Hat", "Axis"}
    BY <2>1 DEF Kinds, Valid
  <2>3. Directions \subseteq {1, 2, 4, 8}
    BY RecordedAssumption
  <2> QED BY <2>1, <2>2, <2>3
<1>3. /\ in.kind = "Button" => in.index \in 1..NButtons
      /\ in.kind = "Hat" => in.index \in 1..NHats
      /\ in.kind = "Axis" => in.index \in 1..NAxes
  BY <1>1, <1>2 DEF IsReal, Sources
<1>4. in.index < 32768
  BY <1>2, <1>3, RecordedAssumption, RecorderAssumption
<1>5. Int16(in.index) = in.index
  BY <1>2, <1>4, IndexSurvives
<1> QED BY <1>1, <1>2, <1>3, <1>5 DEF IsReal

\* Pushed, an input presses the button it was bound to; let go, it does not:
\* an axis is written as the half it moved in, and rests outside it.
LEMMA RecordedInputPresses ==
  ASSUME NEW in \in RealInputs, Valid(in), NEW target, NEW raw \in Readings
  PROVE  LET b == ReadBack(in, target, "Button").binding
         IN /\ Pushed(in, raw) => SourcePressed(b, raw)
            /\ LetGo(in, raw) => ~SourcePressed(b, raw)
<1> DEFINE b == ReadBack(in, target, "Button").binding
<1> SUFFICES /\ Pushed(in, raw) => SourcePressed(b, raw)
             /\ LetGo(in, raw) => ~SourcePressed(b, raw)
  OBVIOUS
<1>1. /\ DOMAIN raw.button = 1..NButtons /\ DOMAIN raw.hat = 1..NHats
      /\ DOMAIN raw.axis = 1..NAxes
  BY DEF Readings
<1>2. CASE in.kind = "Button"
  <2>1. b.src = "Button" /\ b.src_index = in.index /\ in.index \in DOMAIN raw.button
    BY <1>1, <1>2, ButtonReadBack, RealInputFacts
  <2> HIDE DEF b
  <2> QED BY <1>2, <2>1 DEF Pushed, LetGo, SourcePressed, RawButton
<1>3. CASE in.kind = "Hat"
  <2>1. /\ b.src = "Hat" /\ b.src_index = in.index /\ b.hat_mask = in.hat_mask
        /\ in.index \in DOMAIN raw.hat /\ in.hat_mask # {}
    BY <1>1, <1>3, HatReadBack, RealInputFacts
  <2> HIDE DEF b
  <2>2. RawHat(raw, b.src_index) = raw.hat[in.index]
    BY <2>1 DEF RawHat
  <2>3. SourcePressed(b, raw) <=> in.hat_mask \subseteq raw.hat[in.index]
    BY <2>1, <2>2 DEF SourcePressed
  <2> QED BY <1>3, <2>1, <2>3 DEF Pushed, LetGo
<1>4. CASE in.kind = "Axis"
  <2> DEFINE v == raw.axis[in.index]
             direction == in.direction
  <2>1. /\ in.index \in DOMAIN raw.axis /\ direction \in {-1, 1}
        /\ Int16(in.index) = in.index
    BY <1>1, <1>4, RealInputFacts
  <2>2. ~Whole(in, "Button")
    BY DEF Whole
  <2>3. /\ b.src = "Axis" /\ b.src_index = in.index
        /\ b.src_half = direction /\ b.src_invert = FALSE
    <3>1. SourceText(in, "Button").half = direction /\ SourceText(in, "Button").tilde = FALSE
      BY <1>4, <2>1, <2>2, AxisText
    <3>2. /\ b.src = "Axis" /\ b.src_index = in.index
          /\ b.src_half = SourceText(in, "Button").half
          /\ b.src_invert = SourceText(in, "Button").tilde
      BY <1>4, <2>1, AxisReadBack
    <3> HIDE DEF b
    <3> QED BY <3>1, <3>2
  <2>4. v \in Int /\ Full \in Nat \ {0}
    BY <2>1, RecorderAssumption, LineAssumption DEF Readings
  <2>5. /\ Pushed(in, raw) => v = direction * Full
        /\ LetGo(in, raw) => v = IF in.rests_at_extreme THEN -direction * Full ELSE 0
    BY <1>4 DEF Pushed, LetGo
  <2>6. RawAxis(raw, b.src_index) = v
    BY <2>1, <2>3 DEF RawAxis
  <2> HIDE DEF b, v, direction
  <2>7. AxisSource(b, v) = IF direction * v > 0 THEN direction * v ELSE 0
    <3>1. AxisSource(b, v) = Halved(v, direction)
      BY <2>3 DEF AxisSource
    <3> QED BY <2>1, <2>4, <3>1 DEF Halved
  <2>8. SourcePressed(b, raw) <=> 2 * AxisSource(b, v) > Full
    BY <2>3, <2>6 DEF SourcePressed
  <2>9. Pushed(in, raw) => AxisSource(b, v) = Full
    BY <2>1, <2>4, <2>5, <2>7
  <2>10. LetGo(in, raw) => AxisSource(b, v) = 0
    BY <2>1, <2>4, <2>5, <2>7
  <2> QED BY <2>4, <2>8, <2>9, <2>10
<1> QED BY <1>2, <1>3, <1>4, RealInputFacts

\* Pushed, an input drives the axis it was bound to all the way; let go, not
\* at all.
LEMMA RecordedInputDrives ==
  ASSUME NEW in \in RealInputs, Valid(in), NEW target, NEW kind \in {"Stick", "Trigger"},
         NEW raw \in Readings
  PROVE  LET value == Contribution(ReadBack(in, target, kind), raw)
         IN /\ value \in (IF kind = "Trigger" THEN 0 ELSE -Full)..Full
            /\ Pushed(in, raw) => value = Full
            /\ LetGo(in, raw) /\ ~(kind = "Stick" /\ in.rests_at_extreme) => value = 0
<1> DEFINE e == ReadBack(in, target, kind)
           value == Contribution(e, raw)
<1> SUFFICES /\ value \in (IF kind = "Trigger" THEN 0 ELSE -Full)..Full
             /\ Pushed(in, raw) => value = Full
             /\ LetGo(in, raw) /\ ~(kind = "Stick" /\ in.rests_at_extreme) => value = 0
  OBVIOUS
<1>1. /\ DOMAIN raw.button = 1..NButtons /\ DOMAIN raw.hat = 1..NHats
      /\ DOMAIN raw.axis = 1..NAxes
  BY DEF Readings
<1>2. Full \in Nat \ {0}
  BY LineAssumption
<1>3. ASSUME e.binding.src # "Axis", e.dst_half = 0,
             Pushed(in, raw) => SourcePressed(e.binding, raw),
             LetGo(in, raw) => ~SourcePressed(e.binding, raw)
      PROVE  /\ value \in (IF kind = "Trigger" THEN 0 ELSE -Full)..Full
             /\ Pushed(in, raw) => value = Full
             /\ LetGo(in, raw) => value = 0
  <2> HIDE DEF e
  <2>1. value = IF SourcePressed(e.binding, raw) THEN Full ELSE 0
    BY <1>3 DEF Contribution, SourceValue, Rescaled
  <2> HIDE DEF value
  <2> QED BY <1>2, <1>3, <2>1
<1>4. CASE in.kind = "Button"
  <2>1. /\ e.binding.src = "Button" /\ e.binding.src_index = in.index /\ e.dst_half = 0
        /\ in.index \in DOMAIN raw.button
    BY <1>1, <1>4, ButtonReadBack, RealInputFacts
  <2>2. /\ Pushed(in, raw) => SourcePressed(e.binding, raw)
        /\ LetGo(in, raw) => ~SourcePressed(e.binding, raw)
    <3> HIDE DEF e
    <3> QED BY <1>4, <2>1 DEF Pushed, LetGo, SourcePressed, RawButton
  <2> HIDE DEF e, value
  <2> QED BY <1>3, <2>1, <2>2
<1>5. CASE in.kind = "Hat"
  <2>1. /\ e.binding.src = "Hat" /\ e.binding.src_index = in.index /\ e.dst_half = 0
        /\ e.binding.hat_mask = in.hat_mask
        /\ in.index \in DOMAIN raw.hat /\ in.hat_mask # {}
    BY <1>1, <1>5, HatReadBack, RealInputFacts
  <2>2. /\ Pushed(in, raw) => SourcePressed(e.binding, raw)
        /\ LetGo(in, raw) => ~SourcePressed(e.binding, raw)
    <3> HIDE DEF e
    <3>1. RawHat(raw, e.binding.src_index) = raw.hat[in.index]
      BY <2>1 DEF RawHat
    <3>2. SourcePressed(e.binding, raw) <=> in.hat_mask \subseteq raw.hat[in.index]
      BY <2>1, <3>1 DEF SourcePressed
    <3> QED BY <1>5, <2>1, <3>2 DEF Pushed, LetGo
  <2> HIDE DEF e, value
  <2> QED BY <1>3, <2>1, <2>2
<1>6. CASE in.kind = "Axis"
  <2>1. /\ in.index \in DOMAIN raw.axis /\ in.direction \in {-1, 1}
        /\ Int16(in.index) = in.index
    BY <1>1, <1>6, RealInputFacts
  <2>2. raw.axis[in.index] \in (-Full)..Full
    <3>1. raw.axis[in.index] \in AxisValues
      BY <1>1, <2>1 DEF Readings
    <3>2. AxisValues \subseteq Int /\ \A v \in AxisValues : -Full <= v /\ v <= Full
      BY RecorderAssumption, RecordedAssumption
    <3> DEFINE v == raw.axis[in.index]
    <3>3. v \in Int /\ -Full <= v /\ v <= Full
      BY <3>1, <3>2
    <3> HIDE DEF v
    <3>4. v \in (-Full)..Full
      BY <1>2, <3>3
    <3> QED BY <3>4 DEF v
  <2> HIDE DEF e, value
  <2> QED BY <1>6, <2>1, <2>2, RecordedAxisDrives DEF e, value
<1> QED BY <1>4, <1>5, <1>6, RealInputFacts

\* The line applied has a binding for every entry, read back from its field,
\* and no other binding for its output.
LEMMA LineReadBack ==
  ASSUME BindingInv, NEW kind \in OutputKinds
  PROVE  LET applied == AppliedLine(kind)
         IN /\ DOMAIN applied = DOMAIN entries
            /\ \A i \in DOMAIN entries :
                 /\ applied[i] = ReadBack(entries[i].input, entries[i].output, kind)
                 /\ Drivers(applied, OutputOf(entries[i].output, kind)) = {i}
<1> DEFINE applied == AppliedLine(kind)
           fields == LineFields(kind)
           Field(i) == [output |-> OutputOf(entries[i].output, kind), half |-> 0,
                        source |-> SourceText(entries[i].input, kind)]
<1>1. \A i \in DOMAIN entries : /\ entries[i].output \in Targets
                                /\ entries[i].input \in RealInputs /\ Valid(entries[i].input)
  <2>1. \A i \in DOMAIN entries : entries[i] \in Bindings
    BY LenProperties, ElementOfSeq DEF BindingInv
  <2> QED BY <2>1 DEF Bindings
<1>2. DOMAIN fields = DOMAIN entries /\ \A i \in DOMAIN entries : fields[i] = Field(i)
  BY DEF LineFields
<1>3. ASSUME NEW i \in DOMAIN entries PROVE IsBinding(Field(i))
  <2> DEFINE in == entries[i].input
             text == SourceText(in, kind)
  <2>1. /\ in.kind \in {"Button", "Hat", "Axis"} /\ in.index \in Nat
        /\ in.kind = "Hat" => in.hat_mask \in SUBSET {1, 2, 4, 8}
        /\ in.kind = "Axis" => in.direction \in {-1, 1}
    BY <1>1, RealInputFacts
  <2> HIDE DEF in
  <2>2. IsSource(text)
    <3>1. CASE in.kind = "Button"
      <4>1. text.letter = "b" /\ text.number = in.index
        BY <3>1 DEF SourceText
      <4> HIDE DEF text
      <4> QED BY <2>1, <4>1 DEF IsSource
    <3>2. CASE in.kind = "Hat"
      <4>1. text.letter = "h" /\ text.number = in.index /\ text.mask = MaskNumber(in.hat_mask)
        BY <3>2 DEF SourceText
      <4>2. MaskNumber(in.hat_mask) \in Nat
        BY <2>1, <3>2, MaskReadBack
      <4> HIDE DEF text
      <4> QED BY <2>1, <4>1, <4>2 DEF IsSource
    <3>3. CASE in.kind = "Axis"
      <4>1. text.letter = "a" /\ text.number = in.index
        BY <2>1, <3>3, AxisText
      <4> HIDE DEF text
      <4> QED BY <2>1, <4>1 DEF IsSource
    <3> QED BY <2>1, <3>1, <3>2, <3>3
  <2>3. OutputOf(entries[i].output, kind) \in Outputs
    BY <1>1, RecordedAssumption DEF OutputOf
  <2> HIDE DEF text
  <2>4. Field(i).output = OutputOf(entries[i].output, kind) /\ Field(i).source = text
    BY DEF text, in
  <2> HIDE DEF Field
  <2> QED BY <2>2, <2>3, <2>4 DEF IsBinding
<1>4. applied = [i \in {k \in DOMAIN fields : IsBinding(fields[k])} |-> ParseBinding(fields[i])]
  BY DEF AppliedLine, ParseFields
<1>5. \A i \in DOMAIN entries :
        ParseBinding(Field(i)) = ReadBack(entries[i].input, entries[i].output, kind)
  BY DEF ReadBack
<1> HIDE DEF applied, fields, Field
<1>6. /\ DOMAIN applied = DOMAIN entries
      /\ \A i \in DOMAIN entries :
           applied[i] = ReadBack(entries[i].input, entries[i].output, kind)
  BY <1>2, <1>3, <1>4, <1>5
<1>7. \A i \in DOMAIN entries : applied[i].dst = OutputOf(entries[i].output, kind)
  BY <1>6 DEF ReadBack, ParseBinding
<1>8. ASSUME NEW i \in DOMAIN entries, NEW j \in DOMAIN entries,
             OutputOf(entries[j].output, kind) = OutputOf(entries[i].output, kind)
      PROVE  j = i
  <2>1. entries[j].output = entries[i].output
    BY <1>8 DEF OutputOf
  <2> QED BY <2>1 DEF BindingInv, Once
<1>9. \A i \in DOMAIN entries : Drivers(applied, OutputOf(entries[i].output, kind)) = {i}
  BY <1>6, <1>7, <1>8 DEF Drivers
<1> QED BY <1>6, <1>9 DEF applied

\* The line of any recorder, parsed and applied, drives every output it binds
\* the way the output was asked for, and lets it rest when the input does.
THEOREM LineAlwaysDrives == Spec => []LineDrivesItsOutputs
<1>1. BindingInv => LineDrivesItsOutputs
  <2> SUFFICES ASSUME BindingInv, NEW kind \in OutputKinds,
                      NEW i \in DOMAIN entries, NEW raw \in Readings
               PROVE  LET applied == AppliedLine(kind)
                          in == entries[i].input
                          o  == OutputOf(entries[i].output, kind)
                      IN IF kind = "Button"
                         THEN /\ Pushed(in, raw) => ButtonOut(applied, raw, o)
                              /\ LetGo(in, raw) => ~ButtonOut(applied, raw, o)
                         ELSE /\ Pushed(in, raw) => AxisOut(applied, raw, o) = Full
                              /\ LetGo(in, raw) /\ ~(kind = "Stick" /\ in.rests_at_extreme)
                                   => AxisOut(applied, raw, o) = 0
    BY DEF LineDrivesItsOutputs
  <2> DEFINE applied == AppliedLine(kind)
             in == entries[i].input
             o  == OutputOf(entries[i].output, kind)
  <2>1. in \in RealInputs /\ Valid(in)
    <3>1. entries[i] \in Bindings
      BY LenProperties, ElementOfSeq DEF BindingInv
    <3> QED BY <3>1 DEF Bindings
  <2>2. applied[i] = ReadBack(in, entries[i].output, kind) /\ Drivers(applied, o) = {i}
    BY LineReadBack
  <2>3. o.kind = kind
    BY DEF OutputOf
  <2> HIDE DEF applied, in, o
  <2>4. CASE kind = "Button"
    <3>1. ButtonOut(applied, raw, o) <=> SourcePressed(applied[i].binding, raw)
      BY <2>2 DEF ButtonOut
    <3>2. /\ Pushed(in, raw) => ButtonOut(applied, raw, o)
          /\ LetGo(in, raw) => ~ButtonOut(applied, raw, o)
      BY <2>1, <2>2, <2>4, <3>1, RecordedInputPresses
    <3> QED BY <2>4, <3>2 DEF applied, in, o
  <2>5. CASE kind \in {"Stick", "Trigger"}
    <3> DEFINE value == Contribution(applied[i], raw)
               low == IF kind = "Trigger" THEN 0 ELSE -Full
    <3>1. /\ value \in low..Full
          /\ Pushed(in, raw) => value = Full
          /\ LetGo(in, raw) /\ ~(kind = "Stick" /\ in.rests_at_extreme) => value = 0
      BY <2>1, <2>2, <2>5, RecordedInputDrives
    <3>2. low \in Int /\ Full \in Int
      BY LineAssumption
    <3> HIDE DEF value, low
    <3>3. value \in Int
      BY <3>1, <3>2
    <3>4. Sum(applied, raw, o) = value
      BY <2>2, <3>3, SumOfOne DEF value
    <3>5. AxisOut(applied, raw, o) = Clamp(value, low)
      BY <2>3, <3>4 DEF AxisOut, low
    <3>6. Clamp(value, low) = value
      BY <3>1, <3>2 DEF Clamp
    <3>7. /\ Pushed(in, raw) => AxisOut(applied, raw, o) = Full
          /\ LetGo(in, raw) /\ ~(kind = "Stick" /\ in.rests_at_extreme)
               => AxisOut(applied, raw, o) = 0
      BY <3>1, <3>5, <3>6
    <3>8. kind # "Button"
      BY <2>5
    <3> QED BY <3>7, <3>8 DEF applied, in, o
  <2> QED BY <2>4, <2>5 DEF OutputKinds
<1> QED BY <1>1, BindingInvHolds, PTL
-----------------------------------------------------------------------------
\* An angle falls in the sector of a direction it is no further from than half
\* of the 45 degrees between two of them.
LEMMA SectorIsNearest ==
  ASSUME NEW c \in Nat, c <= 36000
  PROVE  \E k \in 0..8 : /\ 4500 * k <= c + 2250 /\ c + 2250 < 4500 * (k + 1)
                         /\ Sector(c) = k % 8
BY DEF Sector

\* The hat of a raw backend shows the direction nearest to the angle it is
\* held at, all the way round; angles past a whole turn are no direction.
THEOREM HatIsNearestDirection ==
  /\ \A c \in Nat : c <= 36000 =>
       \E k \in 0..8 : /\ 4500 * k - 2250 <= c /\ c < 4500 * k + 2250
                       /\ HatMaskFromCentidegrees(c) = EightWay[(k % 8) + 1]
  /\ \A c \in Nat : c > 36000 => HatMaskFromCentidegrees(c) = {}
<1>1. ASSUME NEW c \in Nat, c <= 36000
      PROVE  \E k \in 0..8 : /\ 4500 * k - 2250 <= c /\ c < 4500 * k + 2250
                             /\ HatMaskFromCentidegrees(c) = EightWay[(k % 8) + 1]
  <2>1. c % 65536 # 65535 /\ ~(c > 36000)
    BY <1>1
  <2>2. HatMaskFromCentidegrees(c) = EightWay[Sector(c) + 1]
    BY <2>1 DEF HatMaskFromCentidegrees
  <2>3. PICK k \in 0..8 : /\ 4500 * k <= c + 2250 /\ c + 2250 < 4500 * (k + 1)
                         /\ Sector(c) = k % 8
    BY <1>1, SectorIsNearest
  <2>4. HatMaskFromCentidegrees(c) = EightWay[(k % 8) + 1]
    BY <2>2, <2>3
  <2> QED BY <2>3, <2>4
<1>2. \A c \in Nat : c > 36000 => HatMaskFromCentidegrees(c) = {}
  BY DEF HatMaskFromCentidegrees
<1> QED BY <1>1, <1>2

\* A hat of four positions shows the directions that the even positions of one
\* of eight show, and a position the direction of its angle, whatever number
\* the positions begin with.
THEOREM HatsAgree ==
  /\ \A minimum \in Int, p \in 0..3 :
       HatMaskFromPosition(minimum + p, minimum, minimum + 3)
         = HatMaskFromPosition(minimum + 2 * p, minimum, minimum + 7)
  /\ \A minimum \in Int, p \in 0..7 :
       HatMaskFromPosition(minimum + p, minimum, minimum + 7)
         = HatMaskFromCentidegrees(4500 * p)
<1>1. ASSUME NEW minimum \in Int, NEW p \in 0..7
      PROVE  HatMaskFromPosition(minimum + p, minimum, minimum + 7) = EightWay[p + 1]
  BY DEF HatMaskFromPosition
<1>2. ASSUME NEW minimum \in Int, NEW p \in 0..3
      PROVE  HatMaskFromPosition(minimum + p, minimum, minimum + 3) = EightWay[2 * p + 1]
  BY DEF HatMaskFromPosition
<1>3. ASSUME NEW p \in 0..7
      PROVE  HatMaskFromCentidegrees(4500 * p) = EightWay[p + 1]
  <2>1. Sector(4500 * p) = p
    BY DEF Sector
  <2>2. 4500 * p <= 36000 /\ (4500 * p) % 65536 # 65535
    OBVIOUS
  <2> QED BY <2>1, <2>2 DEF HatMaskFromCentidegrees
<1>4. ASSUME NEW p \in 0..3 PROVE 2 * p \in 0..7
  OBVIOUS
<1> QED BY <1>1, <1>2, <1>3, <1>4
=============================================================================
