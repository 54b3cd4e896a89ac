------------------------------- MODULE XInputPad -------------------------------
(***************************************************************************)
(* The XInput backend of src/src/backend_xinput.cpp driven by the Context: *)
(* one user index with its pad, which comes and goes on its own; update(), *)
(* which polls it; the game's rumble calls; and the end of the Context.    *)
(* The four user indices do not share state, so one stands for all.        *)
(*                                                                         *)
(* Time is counted in ticks; a deadline is kept as the ticks left to it.   *)
(* The pad has no timer of its own: the motors run until they are set to   *)
(* zero, which the backend does from poll().                               *)
(***************************************************************************)
EXTENDS Rumble

CONSTANTS MaxPacket,  \* bound: changes of the pad's state
          MaxCalls    \* bound: rumble calls of the game

ASSUME XInputAssumption == MaxPacket \in Nat /\ MaxCalls \in Nat

VARIABLES
  hw,       \* the pad: plugged, held (a button), packet number, motor
  pad,      \* the backend's Pad: connected, last_packet, timed, left
  device,   \* the Context's Device: live, down, sent
  first,    \* no update() yet, so the next one rescans
  promise,  \* what the last accepted rumble call promised the game
  calls,    \* rumble calls made
  open      \* the Context exists

vars == <<hw, pad, device, first, promise, calls, open>>
-----------------------------------------------------------------------------
Quiet == [level |-> 0, timed |-> FALSE, left |-> 0]

NoDevice == [live |-> FALSE, down |-> FALSE, sent |-> NothingSent]

\* XInputSetState(): fails, without effect, when the pad is gone.
SetMotor(h, level) == IF h.plugged THEN [h EXCEPT !.motor = level] ELSE h

\* add() and add_device(): a device the backend maps is never declined.
NewDevice == [live |-> TRUE, down |-> FALSE, sent |-> NothingSent]

\* Mutant: the pad is not marked connected.
NewPadUnmarked(p) == [p EXCEPT !.last_packet = 0]

NewPad(p) == [p EXCEPT !.connected = TRUE, !.last_packet = 0]

\* Mutant: the timer is not looked at while the pad rests.
ExpiredWhenMoved(p, h) == p.timed /\ p.left = 0 /\ h.packet # p.last_packet

\* poll() finds a timed rumble at its end.
Expired(p, h) == p.timed /\ p.left = 0

\* Mutant: the first packet of a pad is taken for old news.
NewsAfterFirst(p, h) == p.last_packet # 0 /\ h.packet # p.last_packet

\* Only a changed packet number says that there is something to read.
News(p, h) == h.packet # p.last_packet

\* Mutant: the packet number remembered is one ahead.
PolledAhead(p, h) ==
  [p EXCEPT !.timed = @ /\ ~Expired(p, h),
            !.last_packet = h.packet + 1]

\* poll() of a pad whose state was read: the timer, then the news.
Polled(p, h) ==
  [p EXCEPT !.timed = @ /\ ~Expired(p, h),
            !.last_packet = h.packet]

\* Context::update() with this backend alone.
Update ==
  /\ open
  /\ first' = FALSE
  /\ \E rescan \in BOOLEAN :
       /\ first => rescan
       /\ IF ~pad.connected /\ ~rescan
          THEN UNCHANGED <<hw, pad, device>>
          ELSE IF ~hw.plugged
          THEN /\ pad' = [pad EXCEPT !.connected = FALSE]
               /\ device' = [device EXCEPT !.live = FALSE]
               /\ UNCHANGED hw
          ELSE LET p == IF pad.connected THEN pad ELSE NewPad(pad)
                   d == IF pad.connected THEN device ELSE NewDevice
               IN /\ pad' = Polled(p, hw)
                  /\ device' = IF News(p, hw) THEN [d EXCEPT !.down = hw.held] ELSE d
                  /\ hw' = IF Expired(p, hw) THEN SetMotor(hw, 0) ELSE hw
  /\ UNCHANGED <<promise, calls, open>>

\* Mutant: a timer that runs is not set anew.
ArmedOnce(p, duration) ==
  IF p.timed THEN p ELSE [p EXCEPT !.timed = duration > 0, !.left = duration]

\* rumble_timed and rumble_until of a request.
Armed(p, duration) == [p EXCEPT !.timed = duration > 0, !.left = duration]

\* Context::rumble(), and stop_rumble() as rumble(0, 0): swallowed and
\* answered true, taken by the backend, or refused with nothing changed.  A
\* call on a pad that has gone promises nothing.
RumbleCall(level, duration) ==
  /\ open
  /\ device.live
  /\ calls < MaxCalls
  /\ calls' = calls + 1
  /\ IF Swallowed(device.sent, level, duration) \/ ~pad.connected \/ ~hw.plugged
     THEN UNCHANGED <<hw, pad, device>>
     ELSE /\ hw' = SetMotor(hw, level)
          /\ pad' = Armed(pad, duration)
          /\ device' = [device EXCEPT !.sent = Sent(level, duration)]
  /\ promise' = IF hw.plugged
                THEN [level |-> level, timed |-> duration > 0, left |-> duration]
                ELSE Quiet
  /\ UNCHANGED <<first, open>>

\* Mutant: only a motor with a timer is stopped.
StoppedIfTimed(h) == IF pad.timed THEN SetMotor(h, 0) ELSE h

\* ~Impl() for a live device, then shutdown() for a connected pad.
Stopped(h) == IF device.live \/ pad.connected THEN SetMotor(h, 0) ELSE h

Destroy ==
  /\ open
  /\ open' = FALSE
  /\ hw' = Stopped(hw)
  /\ device' = [device EXCEPT !.live = FALSE]
  /\ UNCHANGED <<pad, first, promise, calls>>
-----------------------------------------------------------------------------
(* the world: the player and the clock *)

\* Plugging a pad in counts as a change of its state.
Plug(held) ==
  /\ ~hw.plugged /\ hw.packet < MaxPacket
  /\ hw' = [plugged |-> TRUE, held |-> held, packet |-> hw.packet + 1, motor |-> 0]
  /\ UNCHANGED <<pad, device, first, promise, calls, open>>

Unplug ==
  /\ hw.plugged
  /\ hw' = [hw EXCEPT !.plugged = FALSE, !.motor = 0]
  /\ promise' = Quiet
  /\ UNCHANGED <<pad, device, first, calls, open>>

Move ==
  /\ hw.plugged /\ hw.packet < MaxPacket
  /\ hw' = [hw EXCEPT !.held = ~@, !.packet = @ + 1]
  /\ UNCHANGED <<pad, device, first, promise, calls, open>>

Less(n) == IF n = 0 THEN 0 ELSE n - 1

Tick ==
  /\ pad.left > 0 \/ promise.left > 0
  /\ pad' = [pad EXCEPT !.left = Less(@)]
  /\ promise' = [promise EXCEPT !.left = Less(@)]
  /\ UNCHANGED <<hw, device, first, calls, open>>
-----------------------------------------------------------------------------
Init ==
  /\ hw = [plugged |-> FALSE, held |-> FALSE, packet |-> 0, motor |-> 0]
  /\ pad = [connected |-> FALSE, last_packet |-> 0, timed |-> FALSE, left |-> 0]
  /\ device = NoDevice
  /\ first = TRUE
  /\ promise = Quiet
  /\ calls = 0
  /\ open = TRUE

Next ==
  \/ Update \/ Destroy \/ Unplug \/ Move \/ Tick
  \/ \E held \in BOOLEAN : Plug(held)
  \/ \E level \in Levels, duration \in Durations : RumbleCall(level, duration)

Spec == Init /\ [][Next]_vars

\* The game's loop goes on calling update() while there is a Context, and
\* time passes.
FairSpec == Spec /\ WF_vars(Update) /\ WF_vars(Tick)
-----------------------------------------------------------------------------
\* Every variable has its type; no packet number was seen before it was sent.
TypeOK ==
  /\ hw \in [plugged : BOOLEAN, held : BOOLEAN, packet : 0..MaxPacket, motor : Levels]
  /\ pad \in [connected : BOOLEAN, last_packet : Nat, timed : BOOLEAN, left : Nat]
  /\ pad.last_packet <= hw.packet
  /\ promise \in [level : Levels, timed : BOOLEAN, left : Nat]
  /\ device \in [live : BOOLEAN, down : BOOLEAN, sent : Records]
  /\ first \in BOOLEAN /\ open \in BOOLEAN /\ calls \in 0..MaxCalls

\* While the Context runs, the backend's idea of a connected pad and the
\* core's idea of a live device are the same.
PadIsDevice == open => (pad.connected <=> device.live)

\* The update() that finds the time of the last accepted rumble call used up
\* leaves the motors off, whatever calls came before it and were swallowed.
MotorStopsInTime ==
  [][Update /\ promise.timed /\ promise.left = 0 => hw'.motor = 0]_vars

\* The library stops the motors when the Context is destroyed
\* (src/include/gpplus/gamepad.hpp:314).
QuietAfterDestroy == ~open => hw.motor = 0

\* An update() that polled the pad leaves the Context with what the pad says,
\* also when the pad was swapped for another between two polls.
ViewIsFresh == [][Update /\ device'.live => device'.down = hw.held]_vars

\* A timed rumble ends: once the game makes no more calls, the motors stop.
TimedRumbleEnds == (calls = MaxCalls /\ promise.timed) ~> (hw.motor = 0)
=============================================================================
