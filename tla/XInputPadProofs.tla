--------------------------- MODULE XInputPadProofs ---------------------------
(***************************************************************************)
(* What holds of a pad of the XInput backend for any intensities,          *)
(* durations, tolerance and number of calls.                               *)
(*                                                                         *)
(* That a timed rumble is over in time is not inductive: a request that is *)
(* swallowed relies on the timer the earlier, equal request started.       *)
(* TimerCovers says how long that timer can still run: while the pad may   *)
(* be moving, the backend's timer is set and has no more left than the     *)
(* duration that is remembered, and no more than the game was promised.    *)
(***************************************************************************)
EXTENDS XInputPad, TLAPS

\* The timer of the last request a device was sent covers its motors.
TimerCovers ==
  open =>
    /\ device.live /\ device.sent.has /\ device.sent.duration > 0 =>
         hw.motor = 0 \/ (pad.timed /\ pad.left <= device.sent.duration)
    /\ promise.timed =>
         /\ hw.plugged /\ device.live /\ device.sent.has /\ device.sent.duration > 0
         /\ hw.motor = 0 \/ (pad.timed /\ pad.left <= promise.left)

\* A pad that is gone has no motor to stop.
GoneIsQuiet == ~hw.plugged => hw.motor = 0

\* A pad the backend does not hold has not been sent anything, so ending the
\* Context without it leaves it quiet.
UnseenIsQuiet == open /\ ~pad.connected => hw.motor = 0

Inv ==
  /\ TypeOK /\ PadIsDevice /\ QuietAfterDestroy
  /\ TimerCovers /\ GoneIsQuiet /\ UnseenIsQuiet

-----------------------------------------------------------------------------
\* What the assumptions say of the constants.
LEMMA ConstantTypes ==
  /\ 0 \in Levels /\ Levels \subseteq Nat
  /\ 0 \in Durations /\ Durations \subseteq Nat
  /\ Tolerance \in Nat \ {0} /\ MaxPacket \in Nat /\ MaxCalls \in Nat
BY RumbleAssumption, XInputAssumption

\* A Context that was just made has no pad and no timer.
LEMMA InitInv == Init => Inv
<1> SUFFICES ASSUME Init PROVE Inv
  OBVIOUS
<1> USE ConstantTypes
<1>1. TypeOK
  BY DEF Init, TypeOK, NoDevice, NothingSent, Records, Quiet
<1>2. PadIsDevice /\ QuietAfterDestroy /\ TimerCovers /\ GoneIsQuiet /\ UnseenIsQuiet
  BY DEF Init, PadIsDevice, QuietAfterDestroy, TimerCovers, GoneIsQuiet, UnseenIsQuiet,
         NoDevice, NothingSent, Quiet
<1> QED BY <1>1, <1>2 DEF Inv

\* A motor that was set to zero is at zero.
LEMMA StoppedMotor ==
  ASSUME TypeOK, GoneIsQuiet
  PROVE  /\ SetMotor(hw, 0) \in [plugged : BOOLEAN, held : BOOLEAN,
                                 packet : 0..MaxPacket, motor : Levels]
         /\ SetMotor(hw, 0).motor = 0
         /\ SetMotor(hw, 0).plugged = hw.plugged
         /\ SetMotor(hw, 0).packet = hw.packet
         /\ SetMotor(hw, 0).held = hw.held
<1>1. CASE hw.plugged
  BY <1>1, ConstantTypes DEF SetMotor, TypeOK
<1>2. CASE ~hw.plugged
  BY <1>2 DEF SetMotor, TypeOK, GoneIsQuiet
<1> QED BY <1>1, <1>2

\* update() in its three cases: nothing to look at, a pad that is gone, and a
\* pad that was read.
LEMMA UpdateInv ==
  ASSUME Inv, Update
  PROVE  Inv'
<1> USE DEF Inv
<1>1. first' = FALSE /\ open /\ UNCHANGED <<promise, calls, open>>
  BY DEF Update
<1>2. CASE UNCHANGED <<hw, pad, device>>
  BY <1>1, <1>2 DEF TypeOK, PadIsDevice, QuietAfterDestroy, TimerCovers, GoneIsQuiet,
                    UnseenIsQuiet
<1>3. CASE /\ ~hw.plugged /\ hw' = hw
           /\ pad' = [pad EXCEPT !.connected = FALSE]
           /\ device' = [device EXCEPT !.live = FALSE]
  <2>1. /\ pad' \in [connected : BOOLEAN, last_packet : Nat, timed : BOOLEAN, left : Nat]
        /\ ~pad'.connected /\ pad'.last_packet = pad.last_packet
    BY <1>3 DEF TypeOK
  <2>2. device' \in [live : BOOLEAN, down : BOOLEAN, sent : Records] /\ ~device'.live
    BY <1>3 DEF TypeOK
  <2>3. TypeOK'
    BY <1>1, <1>3, <2>1, <2>2 DEF TypeOK
  <2>4. PadIsDevice' /\ QuietAfterDestroy' /\ GoneIsQuiet' /\ UnseenIsQuiet'
    BY <1>1, <1>3, <2>1, <2>2 DEF PadIsDevice, QuietAfterDestroy, GoneIsQuiet, UnseenIsQuiet
  <2>5. TimerCovers'
    BY <1>1, <1>3, <2>2 DEF TimerCovers
  <2> QED BY <2>3, <2>4, <2>5
<1>4. ASSUME NEW p, NEW d, hw.plugged,
             p = IF pad.connected THEN pad ELSE NewPad(pad),
             d = IF pad.connected THEN device ELSE NewDevice,
             pad' = Polled(p, hw),
             device' = IF News(p, hw) THEN [d EXCEPT !.down = hw.held] ELSE d,
             hw' = IF Expired(p, hw) THEN SetMotor(hw, 0) ELSE hw
      PROVE  Inv'
  <2>1. /\ p \in [connected : BOOLEAN, last_packet : Nat, timed : BOOLEAN, left : Nat]
        /\ p.connected /\ p.timed = pad.timed /\ p.left = pad.left
    BY <1>4 DEF TypeOK, NewPad
  <2>2. /\ d \in [live : BOOLEAN, down : BOOLEAN, sent : Records]
        /\ d.live /\ d.sent = IF pad.connected THEN device.sent ELSE NothingSent
    BY <1>1, <1>4, ConstantTypes DEF TypeOK, PadIsDevice, NewDevice, NothingSent, Records
  <2>3. /\ pad' \in [connected : BOOLEAN, last_packet : Nat, timed : BOOLEAN, left : Nat]
        /\ pad'.connected /\ pad'.last_packet = hw.packet /\ pad'.left = pad.left
        /\ pad'.timed = (pad.timed /\ ~Expired(p, hw))
    <3>1. hw.packet \in Nat /\ (p.timed /\ ~Expired(p, hw)) \in BOOLEAN
      BY <2>1, ConstantTypes DEF TypeOK
    <3> QED BY <1>4, <2>1, <3>1 DEF Polled
  <2>4. /\ device' \in [live : BOOLEAN, down : BOOLEAN, sent : Records]
        /\ device'.live /\ device'.sent = d.sent
    BY <1>4, <2>2 DEF TypeOK
  <2>5. /\ hw' \in [plugged : BOOLEAN, held : BOOLEAN, packet : 0..MaxPacket, motor : Levels]
        /\ hw'.plugged /\ hw'.packet = hw.packet
        /\ hw'.motor = IF Expired(p, hw) THEN 0 ELSE hw.motor
    BY <1>4, StoppedMotor DEF TypeOK
  <2>6. pad'.last_packet <= hw'.packet
    <3>1. hw.packet \in Nat
      BY ConstantTypes DEF TypeOK
    <3> QED BY <2>3, <2>5, <3>1
  <2>7. TypeOK'
    BY <1>1, <2>3, <2>4, <2>5, <2>6 DEF TypeOK
  <2>8. PadIsDevice' /\ QuietAfterDestroy' /\ GoneIsQuiet' /\ UnseenIsQuiet'
    BY <1>1, <2>3, <2>4, <2>5 DEF PadIsDevice, QuietAfterDestroy, GoneIsQuiet, UnseenIsQuiet
  <2>9. TimerCovers'
    <3>1. CASE pad.connected
      BY <1>1, <2>2, <2>3, <2>4, <2>5, <3>1 DEF TimerCovers, PadIsDevice
    <3>2. CASE ~pad.connected
      <4>1. ~promise.timed /\ ~device'.sent.has
        BY <1>1, <2>2, <2>4, <3>2 DEF TimerCovers, PadIsDevice, NothingSent
      <4> QED BY <1>1, <4>1 DEF TimerCovers
    <3> QED BY <3>1, <3>2
  <2> QED BY <2>7, <2>8, <2>9
<1> QED BY <1>2, <1>3, <1>4 DEF Update

\* A rumble call: swallowed or refused with nothing changed, or taken.
LEMMA RumbleInv ==
  ASSUME Inv, NEW level \in Levels, NEW duration \in Durations, RumbleCall(level, duration)
  PROVE  Inv'
<1> USE DEF Inv
<1>1. /\ open /\ device.live /\ pad.connected
      /\ calls' = calls + 1 /\ calls' \in 0..MaxCalls
      /\ UNCHANGED <<first, open>>
  BY ConstantTypes DEF RumbleCall, PadIsDevice, TypeOK
<1>2. /\ promise' \in [level : Levels, timed : BOOLEAN, left : Nat]
      /\ promise'.timed = (hw.plugged /\ duration > 0)
      /\ promise'.timed => promise'.left = duration
  <2>1. duration \in Nat /\ (duration > 0) \in BOOLEAN
    BY ConstantTypes
  <2>2. Quiet \in [level : Levels, timed : BOOLEAN, left : Nat] /\ ~Quiet.timed
    BY ConstantTypes DEF Quiet
  <2> QED BY <2>1, <2>2 DEF RumbleCall
<1>3. CASE /\ UNCHANGED <<hw, pad, device>>
           /\ Swallowed(device.sent, level, duration) \/ ~pad.connected \/ ~hw.plugged
  <2>1. TypeOK'
    BY <1>1, <1>2, <1>3 DEF TypeOK
  <2>2. PadIsDevice' /\ QuietAfterDestroy' /\ GoneIsQuiet' /\ UnseenIsQuiet'
    BY <1>1, <1>3 DEF PadIsDevice, QuietAfterDestroy, GoneIsQuiet, UnseenIsQuiet
  <2>3. hw.plugged => device.sent.has /\ device.sent.duration = duration
    BY <1>1, <1>3 DEF Swallowed
  <2>4. TimerCovers'
    BY <1>1, <1>2, <1>3, <2>3 DEF TimerCovers
  <2> QED BY <2>1, <2>2, <2>4
<1>4. CASE /\ ~(Swallowed(device.sent, level, duration) \/ ~pad.connected \/ ~hw.plugged)
           /\ hw' = SetMotor(hw, level)
           /\ pad' = Armed(pad, duration)
           /\ device' = [device EXCEPT !.sent = Sent(level, duration)]
  <2>1. /\ hw' \in [plugged : BOOLEAN, held : BOOLEAN, packet : 0..MaxPacket, motor : Levels]
        /\ hw'.plugged /\ hw'.packet = hw.packet
    BY <1>4 DEF SetMotor, TypeOK
  <2>2. /\ pad' \in [connected : BOOLEAN, last_packet : Nat, timed : BOOLEAN, left : Nat]
        /\ pad'.connected = pad.connected /\ pad'.last_packet = pad.last_packet
        /\ pad'.timed = (duration > 0) /\ pad'.left = duration
    <3>1. duration \in Nat /\ (duration > 0) \in BOOLEAN
      BY ConstantTypes
    <3> QED BY <1>4, <3>1 DEF Armed, TypeOK
  <2>3. /\ device' \in [live : BOOLEAN, down : BOOLEAN, sent : Records]
        /\ device'.live = device.live /\ device'.sent = Sent(level, duration)
    <3>1. Sent(level, duration) \in Records
      BY DEF Sent, Records
    <3> QED BY <1>4, <3>1 DEF TypeOK
  <2>4. TypeOK'
    BY <1>1, <1>2, <2>1, <2>2, <2>3 DEF TypeOK
  <2>5. PadIsDevice' /\ QuietAfterDestroy' /\ GoneIsQuiet' /\ UnseenIsQuiet'
    BY <1>1, <2>1, <2>2, <2>3 DEF PadIsDevice, QuietAfterDestroy, GoneIsQuiet, UnseenIsQuiet
  <2>6. TimerCovers'
    <3>1. duration \in Nat
      BY ConstantTypes
    <3>2. device'.sent.has /\ device'.sent.duration = duration
      BY <2>3 DEF Sent
    <3> QED BY <1>1, <1>2, <2>1, <2>2, <2>3, <3>1, <3>2 DEF TimerCovers
  <2> QED BY <2>4, <2>5, <2>6
<1> QED BY <1>3, <1>4 DEF RumbleCall

\* Destroying the Context stops every motor there can be.
LEMMA DestroyInv ==
  ASSUME Inv, Destroy
  PROVE  Inv'
<1> USE DEF Inv
<1>1. /\ open /\ open' = FALSE /\ hw' = Stopped(hw)
      /\ UNCHANGED <<pad, first, promise, calls>>
  BY DEF Destroy
<1>2. /\ hw' \in [plugged : BOOLEAN, held : BOOLEAN, packet : 0..MaxPacket, motor : Levels]
      /\ hw'.motor = 0 /\ hw'.packet = hw.packet
  BY <1>1, StoppedMotor DEF Stopped, TypeOK, PadIsDevice, UnseenIsQuiet
<1>3. device' \in [live : BOOLEAN, down : BOOLEAN, sent : Records]
  BY DEF Destroy, TypeOK
<1>4. TypeOK'
  BY <1>1, <1>2, <1>3 DEF TypeOK
<1> QED BY <1>1, <1>2, <1>4
        DEF PadIsDevice, QuietAfterDestroy, TimerCovers, GoneIsQuiet, UnseenIsQuiet

\* The player: a pad that comes, goes or moves sends its motor to zero or
\* leaves it.
LEMMA WorldInv ==
  ASSUME Inv, Unplug \/ Move \/ \E held \in BOOLEAN : Plug(held)
  PROVE  Inv'
<1> USE DEF Inv
<1>1. /\ UNCHANGED <<pad, device, first, calls, open>>
      /\ promise' = promise \/ promise' = Quiet
  BY DEF Unplug, Move, Plug
<1>2. /\ hw' \in [plugged : BOOLEAN, held : BOOLEAN, packet : 0..MaxPacket, motor : Levels]
      /\ hw'.packet >= hw.packet
      /\ hw'.motor = 0 \/ (hw'.motor = hw.motor /\ hw.plugged)
      /\ ~hw'.plugged => hw'.motor = 0
  <2>1. hw.packet \in Nat /\ hw.packet + 1 > hw.packet
    BY ConstantTypes DEF TypeOK
  <2>2. CASE Unplug
    <3>1. hw' = [hw EXCEPT !.plugged = FALSE, !.motor = 0]
      BY <2>2 DEF Unplug
    <3>2. /\ hw' \in [plugged : BOOLEAN, held : BOOLEAN, packet : 0..MaxPacket,
                     motor : Levels]
          /\ hw'.packet = hw.packet /\ hw'.motor = 0
      BY <3>1, ConstantTypes DEF TypeOK
    <3> QED BY <2>1, <3>2
  <2>3. CASE Move
    <3>1. hw.packet + 1 \in 0..MaxPacket /\ (~hw.held) \in BOOLEAN /\ hw.plugged
      BY <2>1, <2>3, ConstantTypes DEF Move, TypeOK
    <3>2. hw' = [hw EXCEPT !.held = ~hw.held, !.packet = hw.packet + 1]
      BY <2>3 DEF Move
    <3>3. /\ hw' \in [plugged : BOOLEAN, held : BOOLEAN, packet : 0..MaxPacket,
                     motor : Levels]
          /\ hw'.packet = hw.packet + 1 /\ hw'.motor = hw.motor /\ hw'.plugged
      BY <3>1, <3>2 DEF TypeOK
    <3> QED BY <2>1, <3>1, <3>3
  <2>4. CASE \E held \in BOOLEAN : Plug(held)
    <3> PICK held \in BOOLEAN : Plug(held)
      BY <2>4
    <3>1. hw.packet + 1 \in 0..MaxPacket
      BY <2>1, ConstantTypes DEF Plug
    <3>2. hw' = [plugged |-> TRUE, held |-> held, packet |-> hw.packet + 1, motor |-> 0]
      BY DEF Plug
    <3>3. /\ hw' \in [plugged : BOOLEAN, held : BOOLEAN, packet : 0..MaxPacket,
                     motor : Levels]
          /\ hw'.packet = hw.packet + 1 /\ hw'.motor = 0 /\ hw'.plugged
      BY <3>1, <3>2, ConstantTypes
    <3> QED BY <2>1, <3>3
  <2> QED BY <2>2, <2>3, <2>4
<1>3. Quiet \in [level : Levels, timed : BOOLEAN, left : Nat] /\ ~Quiet.timed
  BY ConstantTypes DEF Quiet
<1>4. pad'.last_packet <= hw'.packet
  BY <1>1, <1>2, ConstantTypes DEF TypeOK
<1>5. TypeOK'
  BY <1>1, <1>2, <1>3, <1>4 DEF TypeOK
<1>6. PadIsDevice' /\ QuietAfterDestroy' /\ GoneIsQuiet' /\ UnseenIsQuiet'
  BY <1>1, <1>2 DEF PadIsDevice, QuietAfterDestroy, GoneIsQuiet, UnseenIsQuiet
<1>7. promise'.timed => promise' = promise /\ hw'.plugged
  <2>1. Unplug => promise' = Quiet
    BY DEF Unplug
  <2>2. Move => hw'.plugged
    BY DEF Move, TypeOK
  <2>3. (\E held \in BOOLEAN : Plug(held)) => hw'.plugged
    BY DEF Plug
  <2> QED BY <1>1, <1>3, <2>1, <2>2, <2>3
<1>8. TimerCovers'
  BY <1>1, <1>2, <1>7 DEF TimerCovers
<1> QED BY <1>5, <1>6, <1>8

\* The backend's timer and the game's promise run down together.
LEMMA TickInv ==
  ASSUME Inv, Tick
  PROVE  Inv'
<1> USE DEF Inv
<1>1. UNCHANGED <<hw, device, first, calls, open>>
  BY DEF Tick
<1>2. /\ pad' \in [connected : BOOLEAN, last_packet : Nat, timed : BOOLEAN, left : Nat]
      /\ pad'.connected = pad.connected /\ pad'.timed = pad.timed
      /\ pad'.last_packet = pad.last_packet /\ pad'.left = Less(pad.left)
  BY DEF Tick, TypeOK, Less
<1>3. /\ promise' \in [level : Levels, timed : BOOLEAN, left : Nat]
      /\ promise'.timed = promise.timed /\ promise'.left = Less(promise.left)
  BY DEF Tick, TypeOK, Less
<1>4. pad.left \in Nat /\ promise.left \in Nat
  BY DEF TypeOK
<1>5. device.sent.duration \in Nat
  BY ConstantTypes DEF TypeOK, Records
<1>6. /\ \A m \in Nat : pad.left <= m => Less(pad.left) <= m
      /\ pad.left <= promise.left => Less(pad.left) <= Less(promise.left)
  BY <1>4 DEF Less
<1>7. TypeOK'
  BY <1>1, <1>2, <1>3 DEF TypeOK
<1>8. PadIsDevice' /\ QuietAfterDestroy' /\ GoneIsQuiet' /\ UnseenIsQuiet'
  BY <1>1, <1>2 DEF PadIsDevice, QuietAfterDestroy, GoneIsQuiet, UnseenIsQuiet
<1>9. TimerCovers'
  BY <1>1, <1>2, <1>3, <1>5, <1>6 DEF TimerCovers
<1> QED BY <1>7, <1>8, <1>9

\* Every step keeps the invariant.
LEMMA NextInv == Inv /\ [Next]_vars => Inv'
<1> SUFFICES ASSUME Inv, [Next]_vars PROVE Inv'
  OBVIOUS
<1>1. CASE UNCHANGED vars
  BY <1>1 DEF vars, Inv, TypeOK, PadIsDevice, QuietAfterDestroy, TimerCovers, GoneIsQuiet,
              UnseenIsQuiet
<1> QED BY <1>1, UpdateInv, RumbleInv, DestroyInv, WorldInv, TickInv DEF Next
-----------------------------------------------------------------------------
\* The invariant holds of every behaviour.
THEOREM InvHolds == Spec => []Inv
<1>1. Init => Inv
  BY InitInv
<1>2. Inv /\ [Next]_vars => Inv'
  BY NextInv
<1> QED BY <1>1, <1>2, PTL DEF Spec

\* Types, and the packet number the backend remembers was sent by the pad.
THEOREM TypesHold == Spec => []TypeOK
<1>1. Inv => TypeOK
  BY DEF Inv
<1> QED BY <1>1, InvHolds, PTL

\* A pad the backend holds is a device of the core, and the other way round.
THEOREM PadIsAlwaysDevice == Spec => []PadIsDevice
<1>1. Inv => PadIsDevice
  BY DEF Inv
<1> QED BY <1>1, InvHolds, PTL

\* The motors are off once the Context is gone, whichever calls came before.
THEOREM AlwaysQuietAfterDestroy == Spec => []QuietAfterDestroy
<1>1. Inv => QuietAfterDestroy
  BY DEF Inv
<1> QED BY <1>1, InvHolds, PTL

\* The update() that finds the promised time used up turns the motors off,
\* also when the last call was swallowed and only an earlier one set a timer.
THEOREM MotorAlwaysStopsInTime == Spec => MotorStopsInTime
<1>1. Inv /\ [Next]_vars =>
        [Update /\ promise.timed /\ promise.left = 0 => hw'.motor = 0]_vars
  <2> SUFFICES ASSUME Inv, Update, promise.timed, promise.left = 0
               PROVE  hw'.motor = 0
    OBVIOUS
  <2>1. TypeOK /\ GoneIsQuiet /\ open
    BY DEF Inv, Update
  <2>2. /\ hw.plugged /\ pad.connected /\ pad.left \in Nat
        /\ hw.motor = 0 \/ (pad.timed /\ pad.left <= 0)
    BY <2>1 DEF Inv, TimerCovers, PadIsDevice, TypeOK
  <2>3. hw' = IF Expired(pad, hw) THEN SetMotor(hw, 0) ELSE hw
    BY <2>2 DEF Update
  <2> QED BY <2>1, <2>2, <2>3, StoppedMotor DEF Expired
<1> QED BY <1>1, InvHolds, PTL DEF Spec, MotorStopsInTime
-----------------------------------------------------------------------------
(* the Context's view of the pad *)

\* The number of the last packet says whether the view is old: a pad that was
\* plugged in has sent one, and a view read at the pad's number is the pad's.
ReadIsCurrent ==
  /\ hw.plugged => hw.packet > 0
  /\ open /\ pad.connected /\ pad.last_packet = hw.packet => device.down = hw.held

\* The steps other than update() that leave the buttons alone.
LEMMA UntouchedRead ==
  ASSUME Inv, ReadIsCurrent,
         hw'.packet = hw.packet, hw'.held = hw.held, hw'.plugged => hw.plugged,
         pad'.connected = pad.connected, pad'.last_packet = pad.last_packet,
         device'.down = device.down, open' = open
  PROVE  ReadIsCurrent'
BY DEF ReadIsCurrent

\* update() that read the pad.
LEMMA PolledRead ==
  ASSUME Inv, ReadIsCurrent, Update, device'.live
  PROVE  /\ device'.down = hw.held /\ hw'.held = hw.held
         /\ hw'.plugged = hw.plugged /\ hw'.packet = hw.packet
<1> DEFINE p == IF pad.connected THEN pad ELSE NewPad(pad)
           d == IF pad.connected THEN device ELSE NewDevice
<1>1. open /\ TypeOK /\ GoneIsQuiet /\ (pad.connected <=> device.live)
  BY DEF Update, Inv, PadIsDevice
<1>2. hw.plugged
  <2>1. CASE UNCHANGED <<hw, pad, device>> /\ ~pad.connected
    BY <1>1, <2>1
  <2>2. CASE device' = [device EXCEPT !.live = FALSE]
    BY <1>1, <2>2 DEF TypeOK
  <2> QED BY <2>1, <2>2 DEF Update
<1>3. /\ device' = IF News(p, hw) THEN [d EXCEPT !.down = hw.held] ELSE d
      /\ hw' = IF Expired(p, hw) THEN SetMotor(hw, 0) ELSE hw
  <2>1. CASE ~pad.connected /\ UNCHANGED <<hw, pad, device>>
    BY <1>1, <2>1
  <2> QED BY <1>2, <2>1 DEF Update
<1>4. hw'.held = hw.held /\ hw'.plugged = hw.plugged /\ hw'.packet = hw.packet
  BY <1>1, <1>3, StoppedMotor
<1>5. d \in [live : BOOLEAN, down : BOOLEAN, sent : Records]
  BY <1>1, ConstantTypes DEF TypeOK, NewDevice, NothingSent, Records
<1>6. CASE News(p, hw)
  BY <1>3, <1>4, <1>5, <1>6
<1>7. CASE ~News(p, hw)
  <2>1. p.last_packet = hw.packet
    BY <1>7 DEF News
  <2>2. pad.connected
    BY <1>1, <1>2, <2>1 DEF NewPad, TypeOK, ReadIsCurrent
  <2> QED BY <1>1, <1>3, <1>4, <1>7, <2>1, <2>2 DEF ReadIsCurrent
<1> QED BY <1>6, <1>7

LEMMA NextRead == Inv /\ ReadIsCurrent /\ [Next]_vars => ReadIsCurrent'
<1> SUFFICES ASSUME Inv, ReadIsCurrent, [Next]_vars PROVE ReadIsCurrent'
  OBVIOUS
<1>1. TypeOK /\ GoneIsQuiet /\ Inv'
  BY NextInv DEF Inv
<1>2. CASE Update
  <2>1. CASE device'.live
    BY <1>2, <2>1, PolledRead DEF ReadIsCurrent
  <2>2. CASE ~device'.live
    <3>1. open' /\ ~pad'.connected
      BY <1>1, <1>2, <2>2 DEF Update, Inv, PadIsDevice
    <3>2. hw'.packet = hw.packet /\ hw'.plugged = hw.plugged
      BY <1>1, <1>2, StoppedMotor DEF Update
    <3> QED BY <3>1, <3>2 DEF ReadIsCurrent
  <2> QED BY <2>1, <2>2
<1>3. CASE \E level \in Levels, duration \in Durations : RumbleCall(level, duration)
  <2> PICK level \in Levels, duration \in Durations : RumbleCall(level, duration)
    BY <1>3
  <2>1. hw' = hw \/ hw' = SetMotor(hw, level)
    BY DEF RumbleCall
  <2>2. hw'.packet = hw.packet /\ hw'.held = hw.held /\ hw'.plugged = hw.plugged
    BY <1>1, <2>1 DEF SetMotor, TypeOK
  <2>3. pad' = pad \/ pad' = Armed(pad, duration)
    BY DEF RumbleCall
  <2>4. pad'.connected = pad.connected /\ pad'.last_packet = pad.last_packet
    BY <1>1, <2>3 DEF Armed, TypeOK
  <2>5. device'.down = device.down /\ open' = open
    BY <1>1 DEF RumbleCall, TypeOK
  <2> QED BY <2>2, <2>4, <2>5, UntouchedRead
<1>4. CASE Destroy
  <2>1. hw'.packet = hw.packet /\ hw'.plugged = hw.plugged
    BY <1>1, <1>4, StoppedMotor DEF Destroy, Stopped
  <2> QED BY <1>4, <2>1 DEF Destroy, ReadIsCurrent
<1>5. CASE Unplug
  <2>1. hw'.packet = hw.packet /\ hw'.held = hw.held /\ ~hw'.plugged
    BY <1>1, <1>5 DEF Unplug, TypeOK
  <2> QED BY <1>5, <2>1, UntouchedRead DEF Unplug
<1>6. CASE Move \/ \E held \in BOOLEAN : Plug(held)
  <2>1. hw.packet \in Nat /\ pad.last_packet \in Nat /\ pad.last_packet <= hw.packet
    BY <1>1, ConstantTypes DEF TypeOK
  <2>2. hw'.packet = hw.packet + 1 /\ pad' = pad
    <3>1. Move => hw'.packet = hw.packet + 1
      BY <1>1 DEF Move, TypeOK
    <3>2. (\E held \in BOOLEAN : Plug(held)) => hw'.packet = hw.packet + 1
      BY DEF Plug
    <3> QED BY <1>6, <3>1, <3>2 DEF Move, Plug
  <2> QED BY <2>1, <2>2 DEF ReadIsCurrent
<1>7. CASE Tick
  <2>1. pad'.connected = pad.connected /\ pad'.last_packet = pad.last_packet
    BY <1>1, <1>7 DEF Tick, TypeOK
  <2> QED BY <1>7, <2>1, UntouchedRead DEF Tick
<1>8. CASE UNCHANGED vars
  BY <1>8 DEF vars, ReadIsCurrent
<1> QED BY <1>2, <1>3, <1>4, <1>5, <1>6, <1>7, <1>8 DEF Next

\* update() leaves a pad's device with what the pad says now, also when the
\* pad was swapped for another between two polls: its packet number is new.
THEOREM ViewIsAlwaysFresh == Spec => ViewIsFresh
<1>1. Init => Inv /\ ReadIsCurrent
  BY InitInv DEF Init, ReadIsCurrent
<1>2. Inv /\ ReadIsCurrent /\ [Next]_vars => (Inv /\ ReadIsCurrent)'
  BY NextInv, NextRead
<1>3. Inv /\ ReadIsCurrent => [Update /\ device'.live => device'.down = hw.held]_vars
  BY PolledRead
<1> QED BY <1>1, <1>2, <1>3, PTL DEF Spec, ViewIsFresh
=============================================================================
