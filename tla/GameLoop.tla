------------------------------- MODULE GameLoop -------------------------------
(***************************************************************************)
(* A game written around events, on top of the core: after each update()   *)
(* it reads events() once and keeps what it was told, without polling.     *)
(* Between frames it may add mappings or change the configuration, before  *)
(* or after it reads the queue.  The game is the caller the API is made    *)
(* for (src/README.md, src/include/gpplus/gamepad.hpp:263), so it is       *)
(* external to the code.                                                   *)
(***************************************************************************)
EXTENDS GamepadContext

VARIABLES
  heard,    \* what the events told the game so far
  drained,  \* the game went to read the queue of the last update()
  left      \* events of the queue its loop has still to come to

gameVars == <<vars, heard, drained, left>>
-----------------------------------------------------------------------------
\* known: devices it was told are there; held: buttons it was told are down;
\* gone: devices it was told left; usable: devices that were mapped when it
\* heard of their arrival.  It has no use for axes.
NothingHeard == [known |-> {}, held |-> {}, gone |-> {}, usable |-> {}]

\* info(id).mapped, which a game asks when a device arrives.
InfoMapped(id) == \E s \in LiveSlots : slots[s].id = id /\ slots[s].mapped

Hear(h, e) ==
  CASE e.type = "DeviceAdded" ->
         [h EXCEPT !.known  = @ \cup {e.id},
                   !.usable = @ \cup {id \in {e.id} : InfoMapped(id)}]
    [] e.type = "DeviceRemoved" ->
         [h EXCEPT !.known  = @ \ {e.id},
                   !.usable = @ \ {e.id},
                   !.held   = {b \in @ : b[1] # e.id},
                  !.gone   = @ \cup {e.id}]
    [] e.type = "ButtonDown" -> [h EXCEPT !.held = @ \cup {<<e.id, e.what>>}]
    [] e.type = "ButtonUp"   -> [h EXCEPT !.held = @ \ {<<e.id, e.what>>}]
    [] e.type = "AxisMotion" -> h

\* for (const Event &e : ctx.events())
ReadQueue ==
  /\ current_backend = 0
  /\ ~drained
  /\ drained' = TRUE
  /\ left' = Len(events)
  /\ UNCHANGED <<vars, heard>>

NextEvent == events[Len(events) - left + 1]

HearNext ==
  /\ left > 0
  /\ left' = left - 1
  /\ heard' = Hear(heard, NextEvent)
  /\ UNCHANGED <<vars, drained>>

GameUpdate ==
  /\ drained /\ left = 0
  /\ BeginUpdate
  /\ drained' = FALSE
  /\ UNCHANGED <<heard, left>>

\* A call that may add to the queue is not made from the loop over it.
BetweenLoops == GameCall /\ left = 0

GameInit == Init /\ heard = NothingHeard /\ drained = TRUE /\ left = 0

GameNext ==
  \/ GameUpdate
  \/ (HostCall \/ NextBackend \/ EndUpdate \/ BetweenLoops) /\ UNCHANGED <<heard, drained, left>>
  \/ ReadQueue
  \/ HearNext

GameSpec == GameInit /\ [][GameNext]_gameVars
-----------------------------------------------------------------------------
HeldButtons  == {<<slots[s].id, b>> : s \in LiveSlots, b \in Buttons}
Down(id, b)  == \E s \in LiveSlots : slots[s].id = id /\ slots[s].out[b] # 0

\* A game that only reads events knows what polling would tell it: which
\* devices are connected and which of their buttons are down.
EventsTellTheState ==
  current_backend = 0 /\ drained /\ left = 0 =>
    /\ heard.known = ConnectedIds
    /\ heard.held = {h \in HeldButtons : Down(h[1], h[2])}

\* Nothing is ever reported of a device after its DeviceRemoved, in that
\* queue or a later one: not an input, and not an arrival under the old id.
RemovedIsFinal ==
  current_backend = 0 /\ ~drained =>
    \A i \in DOMAIN events :
      /\ events[i].id \notin heard.gone
      /\ \A j \in DOMAIN events :
           events[j].type = "DeviceRemoved" /\ j < i => events[j].id # events[i].id

\* An edge is news: no ButtonDown for a button the game already holds, no
\* ButtonUp for one it does not, and no input from a device it was not told of.
EdgesAlternate ==
  [][HearNext =>
       LET e == NextEvent
       IN /\ e.type = "ButtonDown" => <<e.id, e.what>> \notin heard.held
          /\ e.type = "ButtonUp" => <<e.id, e.what>> \in heard.held
          /\ e.type \in {"ButtonDown", "ButtonUp", "AxisMotion"} => e.id \in heard.known
    ]_gameVars

\* A game that only listens for DeviceAdded hears of every connected pad that
\* has a mapping, the ones that gained it after they arrived included
\* (src/src/context.cpp:249).
GainedMappingIsHeard ==
  [][(ReadQueue \/ HearNext) /\ left' = 0 =>
       \A s \in LiveSlots : slots[s].mapped => slots[s].id \in heard'.usable]_gameVars
=============================================================================
