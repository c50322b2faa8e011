------------------------------- MODULE Readers -------------------------------
(***************************************************************************)
(* The entities that do more than show the data: the event entity, which   *)
(* announces each change of the state (event.py), and the brewing timer,   *)
(* which ticks while a brew runs (timer_sensor.py).  Both are made once    *)
(* the first poll is in, are told of updates only when Home Assistant has  *)
(* added them, and hear every update after that, whichever path it came    *)
(* by, changed or not.                                                     *)
(***************************************************************************)
EXTENDS StatusFlow

(* None is no state, no number and no event. *)
ASSUME ReadersAssumption ==
    NoData \notin States /\ NoData \notin Nat /\ NoData \notin [previous : States, state : States]

VARIABLES
    stage,      \* of the two entities: "none", "made", "added", or "heard" an update
    last,       \* _last_state of the event entity
    event,      \* the last event it fired, or NoData
    ticking,    \* the timer has its interval, _countdown_unsub
    started     \* _brew_start: the count of triggers when it was set, or NoData

readers == <<stage, last, event, ticking, started>>
readersVars == <<vars, readers>>

NoReaders ==
    stage = "none" /\ last = NoData /\ event = NoData /\ ticking = FALSE /\ started = NoData

ReadersInit == FlowInit /\ NoReaders

-----------------------------------------------------------------------------
(* Mutant of UpdateTimer: the interval stops and the start is kept. *)
UpdateTimerKeepsStart(shown) ==
    IF shown.state = Brewing
    THEN ticking' = TRUE /\ started' = IF started = NoData THEN starts' ELSE started
    ELSE ticking' = FALSE /\ UNCHANGED started

(* _update_timer *)
UpdateTimer(shown) ==
    IF shown.state = Brewing
    THEN ticking' = TRUE /\ started' = IF started = NoData THEN starts' ELSE started
    ELSE ticking' = FALSE /\ started' = NoData

(* _handle_coordinator_update of the event entity. *)
HearChange(shown) ==
    /\ event' = IF last # NoData /\ shown.state # last
                THEN [previous |-> last, state |-> shown.state] ELSE event
    /\ last' = shown.state

(* The listeners, told by the coordinator with the new data in place. *)
Tell(shown) ==
    IF stage \in {"added", "heard"}
    THEN UpdateTimer(shown) /\ HearChange(shown) /\ stage' = "heard"
    ELSE UNCHANGED readers

(* async_setup_entry of the platforms, once the first refresh is through. *)
Made ==
    /\ stage = "none" /\ data # NoData
    /\ stage' = "made" /\ last' = data.state
    /\ UNCHANGED <<vars, event, ticking, started>>

(* async_added_to_hass, some time later. *)
Added ==
    /\ stage = "made" /\ stage' = "added"
    /\ UNCHANGED vars
    /\ UpdateTimer(data)
    /\ UNCHANGED <<last, event>>

Update == (PollDone \/ HandleStatusUpdate \/ Advertise) /\ Tell(data')

(* The first failure of several tells the listeners, with the data as it was. *)
Failure ==
    /\ PollFailed
    /\ \/ data # NoData /\ Tell(data)
       \/ UNCHANGED readers

(* async_will_remove_from_hass: the entities go with their coordinator. *)
Removed ==
    /\ Reload
    /\ stage' = "none" /\ last' = NoData /\ event' = NoData
    /\ ticking' = FALSE /\ started' = NoData

Elsewhere == (PollRead \/ LinkDrop \/ MachineMoves) /\ UNCHANGED readers

ReadersNext == Made \/ Added \/ Update \/ Failure \/ Removed \/ Elsewhere

ReadersSpec == ReadersInit /\ [][ReadersNext]_readersVars

-----------------------------------------------------------------------------
(* The duration shown is that of this brew: the timer ticks exactly while the *)
(* entities show a brew, and no brew has started since its start was taken.   *)
TimerIsOfThisBrew ==
    stage \in {"added", "heard"} =>
        /\ ticking <=> data.state = Brewing
        /\ ticking => started = starts

(* From the first update it hears, the event entity and the device triggers    *)
(* tell an automation the same story: an event for every change of the state   *)
(* and for nothing else, from the state that was shown before it, and the      *)
(* brewing triggers on just those events that begin or end a brew.             *)
EventsAreTheTriggers ==
    stage = "heard" /\ stage' = "heard" =>
        LET fired == event' # event IN
        /\ fired <=> data'.state # data.state
        /\ fired => event' = [previous |-> data.state, state |-> data'.state]
        /\ starts' # starts <=> fired /\ event'.state = Brewing
        /\ finishes' # finishes <=> fired /\ event'.previous = Brewing

(* Whichever path an update comes by, no reader misses it or tells it twice:  *)
(* event.py and timer_sensor.py agree with the triggers of _fire_triggers.    *)
ReadersFollow == [][TimerIsOfThisBrew' /\ EventsAreTheTriggers]_readersVars
=============================================================================
