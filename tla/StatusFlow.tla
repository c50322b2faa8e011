----------------------------- MODULE StatusFlow -----------------------------
(***************************************************************************)
(* How a machine status reaches the entities, the brew counter and the     *)
(* device triggers (coordinator.py, models.py).  Three paths write         *)
(* coordinator.data: the poll, which reads the status first and publishes  *)
(* it only when the rest of the machine has been read; the notifications   *)
(* of a persistent link, in the order they come; and the advertisements.   *)
(* Neither of the last two looks at the lock a poll holds: both publish in *)
(* the middle of one.                                                      *)
(***************************************************************************)
EXTENDS BrewLedger

CONSTANTS
    Persistent,     \* a persistent link that notifies the status
    Advertises,     \* the Vertuo Next family
    MaxBrews,       \* bound on what the machine does: brews, and tanks emptied
    MaxReloads      \* bound on restarts

ASSUME FlagsAssumption == Persistent \in BOOLEAN /\ Advertises \in BOOLEAN
ASSUME BoundsAssumption == MaxBrews \in Nat /\ MaxReloads \in Nat

VARIABLES
    machine,    \* the status of the machine itself
    brews,      \* brews the machine really ran, one under way at the start included
    empties,    \* times its tank really ran empty, likewise
    poll,       \* the status the running poll has read, or NoData
    link,       \* the persistent link is up and subscribed
    reloads,
    overtaken   \* history: a faster path has published in the middle of a poll

source == <<machine, brews, empties>>
vars == <<machine, brews, empties, poll, link, reloads, overtaken, ledger>>

FlowTypeOK ==
    /\ TypeOK
    /\ machine \in Status /\ brews \in Nat /\ empties \in Nat
    /\ poll \in Status \cup {NoData}
    /\ link \in BOOLEAN
    /\ reloads \in Nat
    /\ overtaken \in BOOLEAN

FlowInit ==
    /\ Init
    /\ machine \in Status
    /\ brews = One(IsBrewing(machine)) /\ empties = One(machine.tank)
    /\ poll = NoData /\ link = FALSE /\ reloads = 0
    /\ overtaken = FALSE

-----------------------------------------------------------------------------
(* Mutant of TrackBrew: a machine found brewing after a restart counts again. *)
TrackBrewNoBaseline(old, new) ==
    total' = total + One(new.state = Brewing /\ (old = NoData \/ old.state # Brewing))

(* _async_track_brew: one brew per entry into "brewing", none without a baseline. *)
TrackBrew(old, new) ==
    total' = total + One(old # NoData /\ new.state = Brewing /\ old.state # Brewing)

(* Mutant of FireTriggers: the alarm follows the flag and not its rise. *)
FireTriggersOnLevel(old, new) ==
    LET moved == old # NoData /\ new.state # old.state IN
    /\ starts' = starts + One(moved /\ new.state = Brewing)
    /\ finishes' = finishes + One(moved /\ old.state = Brewing)
    /\ alarms' = alarms + One(old # NoData /\ new.tank)

(* _fire_triggers and machine_triggers: states on the way in, brewing also on *)
(* the way out, a flag when it goes up.                                       *)
FireTriggers(old, new) ==
    LET moved == old # NoData /\ new.state # old.state IN
    /\ starts' = starts + One(moved /\ new.state = Brewing)
    /\ finishes' = finishes + One(moved /\ old.state = Brewing)
    /\ alarms' = alarms + One(old # NoData /\ new.tank /\ ~old.tank)

(* Mutant of Publish: the update replaces the data by the one field it carries. *)
PublishPartial(old, new) ==
    /\ TrackBrew(old, new)
    /\ FireTriggers(old, new)
    /\ data' = [state |-> new.state]

(* _async_note_update and the assignment to self.data that follows it with no *)
(* suspension, in _async_publish and in Home Assistant's _async_refresh.      *)
Publish(old, new) ==
    /\ TrackBrew(old, new)
    /\ FireTriggers(old, new)
    /\ data' = new

-----------------------------------------------------------------------------
(* The poll reads the status first, then everything else. *)
PollRead ==
    /\ poll = NoData
    /\ poll' = machine
    /\ UNCHANGED <<source, link, reloads, overtaken, ledger>>

(* Mutant of PollDone: a poll never replaces what a faster path has shown. *)
PollDoneYields ==
    /\ poll # NoData
    /\ IF data = NoData THEN Publish(data, poll) ELSE UNCHANGED ledger
    /\ poll' = NoData
    /\ link' = Persistent
    /\ UNCHANGED <<source, reloads, overtaken>>

(* The rest was read: _async_update_data_locked compares with self.data as it *)
(* is now.  In persistent mode the poll leaves a subscribed link behind.      *)
PollDone ==
    /\ poll # NoData
    /\ Publish(data, poll)
    /\ poll' = NoData
    /\ link' = Persistent
    /\ UNCHANGED <<source, reloads, overtaken>>

(* The read or the link failed; the data stays. *)
PollFailed ==
    /\ poll # NoData
    /\ poll' = NoData
    /\ link' \in {link, FALSE}
    /\ UNCHANGED <<source, reloads, overtaken, ledger>>

(* Mutant of HandleStatusUpdate: the notified status is shown and not noted. *)
HandleStatusUpdateSilently ==
    /\ link /\ data # NoData
    /\ data' = machine
    /\ UNCHANGED <<source, poll, link, reloads, overtaken, total, starts, finishes, alarms>>

(* The machine notifies: _on_status_notification schedules the handler on the *)
(* event loop, which is FIFO, so _handle_status_update runs before anything   *)
(* the machine sends later is seen.                                           *)
HandleStatusUpdate ==
    /\ link /\ data # NoData
    /\ Publish(data, machine)
    /\ overtaken' = (overtaken \/ poll # NoData)
    /\ UNCHANGED <<source, poll, link, reloads>>

(* async_apply_advertisement: refine the data there is, if anything changed.  *)
(* It asks neither for a link nor for a poll: what is seen while a poll drops *)
(* its link or waits on a machine that has gone quiet is published at once.   *)
Advertise ==
    /\ Advertises
    /\ data # NoData /\ machine # data
    /\ Publish(data, machine)
    /\ overtaken' = (overtaken \/ poll # NoData)
    /\ UNCHANGED <<source, poll, link, reloads>>

LinkDrop ==
    /\ link /\ link' = FALSE
    /\ UNCHANGED <<source, poll, reloads, overtaken, ledger>>

(* A reload or a restart: a new coordinator, the counter restored. *)
Reload ==
    /\ reloads < MaxReloads /\ reloads' = reloads + 1
    /\ data' = NoData /\ poll' = NoData /\ link' = FALSE
    /\ UNCHANGED <<source, overtaken, total, starts, finishes, alarms>>

(* The machine does what people and its own cycle make it do. *)
MachineMoves ==
    /\ machine' \in Status \ {machine}
    /\ brews' = brews + One(~IsBrewing(machine) /\ IsBrewing(machine'))
    /\ empties' = empties + One(~machine.tank /\ machine'.tank)
    /\ brews' <= MaxBrews /\ empties' <= MaxBrews
    /\ UNCHANGED <<poll, link, reloads, overtaken, ledger>>

FlowNext ==
    \/ PollRead \/ PollDone \/ PollFailed
    \/ HandleStatusUpdate \/ Advertise
    \/ LinkDrop \/ Reload \/ MachineMoves

FlowSpec == FlowInit /\ [][FlowNext]_vars

(* The timer polls for ever, and polls do not fail for ever. *)
FlowFairSpec ==
    /\ FlowSpec
    /\ WF_vars(PollRead) /\ SF_vars(PollDone)

-----------------------------------------------------------------------------
Ledger == INSTANCE BrewLedger

(* Whatever the three paths do to each other, a reader sees the ledger: each   *)
(* update is compared with the very status it replaces, so no count, trigger   *)
(* or alarm is fired against a status that another path has since replaced.    *)
KeepsLedger == Ledger!Spec

(* "Count one brew per entry into the BREWING state": the counter never runs   *)
(* ahead of the machine, across polls, fast updates and reloads.               *)
CountsRealBrews == total <= brews

(* What the code does keep of that promise, for the counter and for the empty  *)
(* tank alarm ("fires once when the flag goes up"): as long as no notification *)
(* and no advertisement is published between a poll's status read and its end, *)
(* neither runs ahead of the machine.                                          *)
RealUnlessOvertaken == ~overtaken => total <= brews /\ alarms <= empties

(* A stale status published by a slow poll does not last: once the machine     *)
(* rests, its status is what the entities show, for good.                      *)
ShowsTheMachine ==
    \A s \in Status : <>[](machine = s) => <>[](data = s)
=============================================================================
