-------------------------- MODULE StatusFlowProofs --------------------------
(***************************************************************************)
(* StatusFlow implements BrewLedger, and neither the brew counter nor the  *)
(* tank alarm runs ahead of the machine unless a faster path overtakes a   *)
(* poll, for any set of states, any bounds and any combination of paths.   *)
(* The event entity and the brewing timer of Readers follow the same data  *)
(* and tell the same story as the triggers.                                *)
(***************************************************************************)
EXTENDS MCStatusFlow, TLAPS

-----------------------------------------------------------------------------
(* Type correctness *)

(* An update with a status of the machine leaves the ledger in its sets. *)
LEMMA PublishTypes ==
    ASSUME TypeOK, NEW new \in Status, Publish(data, new)
    PROVE  TypeOK'
<1>1. \A b \in BOOLEAN : One(b) \in Nat
  BY DEF One
<1>2. total' \in Nat /\ starts' \in Nat /\ finishes' \in Nat /\ alarms' \in Nat
  BY <1>1 DEF TypeOK, Publish, TrackBrew, FireTriggers, One
<1>3. data' \in Status
  BY DEF Publish
<1> QED
  BY <1>2, <1>3 DEF TypeOK

(* No step of the three paths leaves the sets the variables are in. *)
LEMMA FlowTypeStep == FlowTypeOK /\ [FlowNext]_vars => FlowTypeOK'
<1> SUFFICES ASSUME FlowTypeOK, [FlowNext]_vars PROVE FlowTypeOK'
  OBVIOUS
<1> USE DEF FlowTypeOK, source, ledger
<1>0. TypeOK /\ UNCHANGED ledger => TypeOK'
  BY DEF TypeOK
<1>1. CASE PollRead
  BY <1>1, <1>0 DEF PollRead
<1>2. CASE PollDone
  BY <1>2, PublishTypes, FlagsAssumption DEF PollDone
<1>3. CASE PollFailed
  BY <1>3, <1>0 DEF PollFailed
<1>4. CASE HandleStatusUpdate
  BY <1>4, PublishTypes DEF HandleStatusUpdate
<1>5. CASE Advertise
  BY <1>5, PublishTypes DEF Advertise
<1>6. CASE LinkDrop
  BY <1>6, <1>0 DEF LinkDrop
<1>7. CASE Reload
  <2>1. TypeOK' /\ machine' \in Status /\ brews' \in Nat /\ empties' \in Nat
    BY <1>7 DEF Reload, TypeOK
  <2>2. link' \in BOOLEAN /\ overtaken' \in BOOLEAN
    BY <1>7 DEF Reload
  <2>3. poll' \in Status \cup {NoData} /\ reloads' \in Nat
    BY <1>7 DEF Reload
  <2> QED
    BY <2>1, <2>2, <2>3
<1>8. CASE MachineMoves
  BY <1>8, <1>0 DEF MachineMoves, One
<1>9. CASE UNCHANGED vars
  BY <1>9, <1>0 DEF vars
<1> QED
  BY <1>1, <1>2, <1>3, <1>4, <1>5, <1>6, <1>7, <1>8, <1>9 DEF FlowNext

(* Nor does the start. *)
LEMMA FlowTypesAtStart == FlowInit => FlowTypeOK
<1> SUFFICES ASSUME FlowInit PROVE FlowTypeOK
  OBVIOUS
<1>1. TypeOK
  BY DEF FlowInit, Init, TypeOK
<1>2. brews \in Nat /\ empties \in Nat
  BY DEF FlowInit, One
<1>3. link \in BOOLEAN /\ overtaken \in BOOLEAN
  BY DEF FlowInit
<1>4. machine \in Status /\ poll \in Status \cup {NoData} /\ reloads \in Nat
  BY DEF FlowInit
<1> QED
  BY <1>1, <1>2, <1>3, <1>4 DEF FlowTypeOK

(* Every variable keeps its type, whatever path an update comes by. *)
THEOREM FlowTypeCorrect == FlowSpec => []FlowTypeOK
BY FlowTypesAtStart, FlowTypeStep, PTL DEF FlowSpec

-----------------------------------------------------------------------------
(* Refinement *)

(* An update that replaces the very status it was compared with is a step of *)
(* the ledger: a baseline when there was none, a move otherwise.             *)
LEMMA PublishIsLedgerStep ==
    ASSUME FlowTypeOK, NEW new \in Status, Publish(data, new)
    PROVE  Ledger!Next
<1> USE DEF FlowTypeOK, TypeOK, Publish, TrackBrew, FireTriggers, One, IsBrewing
<1>1. CASE data = NoData
  <2>1. Ledger!Baseline
    BY <1>1 DEF Ledger!Baseline, Ledger!Status, Status
  <2> QED
    BY <2>1 DEF Ledger!Next
<1>2. CASE data # NoData
  <2>1. data' \in Ledger!Status
    BY DEF Ledger!Status, Status
  <2>2. new # NoData
    BY StatesAssumption
  <2>3. Ledger!Move
    BY <1>2, <2>1, <2>2 DEF Ledger!Move, Ledger!One, Ledger!IsBrewing, Ledger!Brewing, Brewing
  <2> QED
    BY <2>3 DEF Ledger!Next
<1> QED
  BY <1>1, <1>2

(* Polls, notifications, advertisements and restarts together keep the ledger *)
(* of the entities: no count, trigger or alarm is taken against a status that *)
(* another path has since replaced (_async_note_update).                      *)
THEOREM FlowRefinesLedger == FlowSpec => KeepsLedger
<1>1. FlowInit => Ledger!Init
  BY DEF FlowInit, Init, Ledger!Init
<1>2. FlowTypeOK /\ [FlowNext]_vars => [Ledger!Next]_(Ledger!ledger)
  <2> SUFFICES ASSUME FlowTypeOK, [FlowNext]_vars PROVE Ledger!Next \/ UNCHANGED Ledger!ledger
    OBVIOUS
  <2> USE DEF ledger, Ledger!ledger
  <2>1. CASE PollDone
    BY <2>1, PublishIsLedgerStep DEF PollDone, FlowTypeOK
  <2>2. CASE HandleStatusUpdate
    BY <2>2, PublishIsLedgerStep DEF HandleStatusUpdate, FlowTypeOK
  <2>3. CASE Advertise
    BY <2>3, PublishIsLedgerStep DEF Advertise, FlowTypeOK
  <2>4. CASE Reload
    BY <2>4 DEF Reload, Ledger!Next, Ledger!Forget
  <2>5. CASE PollRead \/ PollFailed \/ LinkDrop \/ MachineMoves \/ UNCHANGED vars
    BY <2>5 DEF PollRead, PollFailed, LinkDrop, MachineMoves, vars
  <2> QED
    BY <2>1, <2>2, <2>3, <2>4, <2>5 DEF FlowNext
<1> QED
  BY <1>1, <1>2, FlowTypeCorrect, PTL DEF FlowSpec, KeepsLedger, Ledger!Spec

-----------------------------------------------------------------------------
(* Counting *)

(* A brew the machine runs and the entities have not shown yet is one that is  *)
(* still to be counted, as is one a poll has read and not published; likewise  *)
(* for an empty tank.                                                          *)
Behind(shown, seen) == IsBrewing(seen) /\ ~IsBrewing(shown)
TankBehind(shown, seen) == seen.tank /\ ~shown.tank

CountInv ==
    ~overtaken =>
        /\ total <= brews
        /\ data # NoData /\ Behind(data, machine) => total < brews
        /\ data # NoData /\ poll # NoData /\ Behind(data, poll) => total < brews
        /\ poll # NoData /\ Behind(poll, machine) => total < brews

AlarmInv ==
    ~overtaken =>
        /\ alarms <= empties
        /\ data # NoData /\ TankBehind(data, machine) => alarms < empties
        /\ data # NoData /\ poll # NoData /\ TankBehind(data, poll) => alarms < empties
        /\ poll # NoData /\ TankBehind(poll, machine) => alarms < empties

(* A brew is counted when it is shown, and shown only if it was run. *)
LEMMA CountStep == FlowTypeOK /\ CountInv /\ [FlowNext]_vars => CountInv'
<1> SUFFICES ASSUME FlowTypeOK, CountInv, [FlowNext]_vars PROVE CountInv'
  OBVIOUS
<1> USE StatesAssumption DEF FlowTypeOK, TypeOK, CountInv, Behind, IsBrewing, source, ledger, One
<1>1. CASE PollRead
  BY <1>1 DEF PollRead
<1>2. CASE PollDone
  BY <1>2 DEF PollDone, Publish, TrackBrew
<1>3. CASE PollFailed
  BY <1>3 DEF PollFailed
<1>4. CASE HandleStatusUpdate
  <2>1. ~overtaken' => ~overtaken /\ poll = NoData
    BY <1>4 DEF HandleStatusUpdate
  <2>2. poll' = poll /\ machine' = machine /\ brews' = brews /\ data' = machine
    BY <1>4 DEF HandleStatusUpdate, Publish
  <2>3. ~overtaken => total' <= brews'
    BY <1>4, <2>2 DEF HandleStatusUpdate, Publish, TrackBrew
  <2> QED
    BY <2>1, <2>2, <2>3
<1>5. CASE Advertise
  <2>1. ~overtaken' => ~overtaken /\ poll = NoData
    BY <1>5 DEF Advertise
  <2>2. poll' = poll /\ machine' = machine /\ brews' = brews /\ data' = machine
    BY <1>5 DEF Advertise, Publish
  <2>3. ~overtaken => total' <= brews'
    BY <1>5, <2>2 DEF Advertise, Publish, TrackBrew
  <2> QED
    BY <2>1, <2>2, <2>3
<1>6. CASE LinkDrop
  BY <1>6 DEF LinkDrop
<1>7. CASE Reload
  BY <1>7 DEF Reload
<1>8. CASE MachineMoves
  BY <1>8 DEF MachineMoves
<1>9. CASE UNCHANGED vars
  BY <1>9 DEF vars
<1> QED
  BY <1>1, <1>2, <1>3, <1>4, <1>5, <1>6, <1>7, <1>8, <1>9 DEF FlowNext

(* The same for the tank, whose alarm follows the rise of the flag. *)
LEMMA AlarmStep == FlowTypeOK /\ AlarmInv /\ [FlowNext]_vars => AlarmInv'
<1> SUFFICES ASSUME FlowTypeOK, AlarmInv, [FlowNext]_vars PROVE AlarmInv'
  OBVIOUS
<1> USE StatesAssumption DEF FlowTypeOK, TypeOK, AlarmInv, TankBehind, Status, source, ledger, One
<1>1. CASE PollRead
  BY <1>1 DEF PollRead
<1>2. CASE PollDone
  BY <1>2 DEF PollDone, Publish, FireTriggers
<1>3. CASE PollFailed
  BY <1>3 DEF PollFailed
<1>4. CASE HandleStatusUpdate
  BY <1>4 DEF HandleStatusUpdate, Publish, FireTriggers
<1>5. CASE Advertise
  BY <1>5 DEF Advertise, Publish, FireTriggers
<1>6. CASE LinkDrop
  BY <1>6 DEF LinkDrop
<1>7. CASE Reload
  BY <1>7 DEF Reload
<1>8. CASE MachineMoves
  BY <1>8 DEF MachineMoves
<1>9. CASE UNCHANGED vars
  BY <1>9 DEF vars
<1> QED
  BY <1>1, <1>2, <1>3, <1>4, <1>5, <1>6, <1>7, <1>8, <1>9 DEF FlowNext

(* As long as no notification and no advertisement is published between the   *)
(* read of the status and the end of a poll, the brew counter and the tank    *)
(* alarm never run ahead of the machine.                                      *)
THEOREM CountsAreReal == FlowSpec => []RealUnlessOvertaken
<1>1. FlowInit => CountInv /\ AlarmInv
  BY StatesAssumption DEF FlowInit, Init, CountInv, AlarmInv, Behind, TankBehind, IsBrewing, One, Status
<1>2. CountInv /\ AlarmInv => RealUnlessOvertaken
  BY DEF CountInv, AlarmInv, RealUnlessOvertaken
<1> QED
  BY <1>1, <1>2, CountStep, AlarmStep, FlowTypeCorrect, PTL DEF FlowSpec

-----------------------------------------------------------------------------
(* The readers *)

(* What the two entities keep of the status they were told last.  Before the  *)
(* first update heard no event has fired, and _last_state may be older than   *)
(* the data; after it, _last_state is the state shown and the last event      *)
(* ended in it, so the next change cannot repeat that event.  Without an      *)
(* interval there is no start to keep.                                        *)
ReadersTypeOK ==
    /\ stage \in {"none", "made", "added", "heard"}
    /\ last \in States \cup {NoData}
    /\ event \in [previous : States, state : States] \cup {NoData}
    /\ ticking \in BOOLEAN

MadeOfData == stage # "none" => data \in Status /\ last \in States

EventIsLatest ==
    /\ stage # "heard" => event = NoData
    /\ stage = "heard" => last = data.state
    /\ stage = "heard" /\ event # NoData => event.state = data.state

TimerInv ==
    /\ ~ticking => started = NoData
    /\ stage \in {"none", "made"} => ~ticking

ReadersInv ==
    /\ FlowTypeOK /\ ReadersTypeOK /\ MadeOfData
    /\ EventIsLatest /\ TimerInv /\ TimerIsOfThisBrew

(* Every path that publishes does so against the data of that moment. *)
LEMMA UpdatePublishes ==
    ASSUME FlowTypeOK, PollDone \/ HandleStatusUpdate \/ Advertise
    PROVE  /\ data' \in Status
           /\ Publish(data, data')
<1>1. CASE PollDone
  BY <1>1 DEF PollDone, Publish, FlowTypeOK
<1>2. CASE HandleStatusUpdate
  BY <1>2 DEF HandleStatusUpdate, Publish, FlowTypeOK
<1>3. CASE Advertise
  BY <1>3 DEF Advertise, Publish, FlowTypeOK
<1> QED
  BY <1>1, <1>2, <1>3

(* The readers only watch: their steps are steps of the three paths. *)
LEMMA ReadersStepIsFlowStep == [ReadersNext]_readersVars => [FlowNext]_vars
BY DEF ReadersNext, Made, Added, Update, Failure, Removed, Elsewhere, FlowNext, readersVars

(* An update that is told, or a failure that shows the data again: either the  *)
(* state stays, or the triggers that fire are those of the change from the     *)
(* status shown before.                                                        *)
Noted ==
    /\ data' \in Status
    /\ \/ Publish(data, data')
       \/ data # NoData /\ UNCHANGED ledger

(* The brewing triggers fire on a change of the state and on nothing else. *)
LEMMA NotedTriggers ==
    ASSUME FlowTypeOK, Noted
    PROVE  /\ data # NoData => data \in Status
           /\ starts' # starts <=> data # NoData /\ data'.state # data.state /\ data'.state = Brewing
           /\ finishes' # finishes <=> data # NoData /\ data'.state # data.state /\ data.state = Brewing
<1> USE DEF FlowTypeOK, TypeOK
<1>1. CASE Publish(data, data')
  BY <1>1 DEF Publish, FireTriggers, One
<1>2. CASE data # NoData /\ UNCHANGED ledger
  BY <1>2 DEF ledger
<1> QED
  BY <1>1, <1>2 DEF Noted

(* An entity that is not added yet hears nothing and keeps what it had. *)
LEMMA DeafReaders ==
    ASSUME ReadersInv, FlowTypeOK', stage \in {"none", "made"}, UNCHANGED readers,
           stage = "made" => data' \in Status
    PROVE  ReadersInv'
BY DEF ReadersInv, ReadersTypeOK, MadeOfData, EventIsLatest, TimerInv, TimerIsOfThisBrew, readers

(* A step that shows nothing new and is not told leaves the readers right. *)
LEMMA QuietReaders ==
    ASSUME ReadersInv, FlowTypeOK', UNCHANGED ledger, UNCHANGED readers
    PROVE  ReadersInv' /\ EventsAreTheTriggers
<1>1. UNCHANGED <<data, starts, finishes, stage, last, event, ticking, started>>
  BY DEF ledger, readers
<1>2. ReadersInv'
  BY <1>1 DEF ReadersInv, ReadersTypeOK, MadeOfData, EventIsLatest, TimerInv, TimerIsOfThisBrew
<1>3. EventsAreTheTriggers
  BY <1>1 DEF EventsAreTheTriggers, ReadersInv, EventIsLatest
<1> QED
  BY <1>2, <1>3

(* An entity that hears an update follows it. *)
LEMMA TellFollows ==
    ASSUME ReadersInv, FlowTypeOK', Noted, stage \in {"added", "heard"}, Tell(data')
    PROVE  ReadersInv' /\ EventsAreTheTriggers
<1>1. data \in Status /\ last \in States /\ last # NoData /\ data # NoData
  BY StatesAssumption, ReadersAssumption DEF ReadersInv, MadeOfData
<1>2. data.state \in States /\ data' \in Status /\ data'.state \in States
  BY <1>1 DEF Noted, Status
<1>3. stage' = "heard" /\ UpdateTimer(data') /\ HearChange(data')
  BY DEF Tell
<1>4. /\ last' = data'.state
      /\ event' = IF data'.state # last THEN [previous |-> last, state |-> data'.state] ELSE event
  BY <1>1, <1>3 DEF HearChange
<1>5. ReadersTypeOK' /\ MadeOfData'
  BY <1>2, <1>1, <1>3, <1>4 DEF ReadersInv, ReadersTypeOK, MadeOfData, UpdateTimer
<1>6. EventIsLatest'
  <2>1. CASE data'.state # last
    BY <2>1, <1>3, <1>4 DEF EventIsLatest
  <2>2. CASE data'.state = last
    BY <2>2, <1>3, <1>4 DEF ReadersInv, EventIsLatest
  <2> QED
    BY <2>1, <2>2
<1>7. /\ ticking <=> data.state = Brewing
      /\ ticking => started = starts
      /\ ~ticking => started = NoData
  BY DEF ReadersInv, TimerInv, TimerIsOfThisBrew
<1>8. starts \in Nat /\ starts # NoData
  BY ReadersAssumption DEF ReadersInv, FlowTypeOK, TypeOK
<1>9. TimerInv' /\ TimerIsOfThisBrew'
  <2>1. CASE data'.state = Brewing
    <3>1. ticking' = TRUE /\ started' = IF started = NoData THEN starts' ELSE started
      BY <2>1, <1>3 DEF UpdateTimer
    <3>2. started' = starts'
      <4>1. CASE ticking
        <5>1. starts' = starts
          BY <4>1, <1>7, NotedTriggers DEF ReadersInv
        <5> QED
          BY <4>1, <5>1, <3>1, <1>7, <1>8
      <4>2. CASE ~ticking
        BY <4>2, <3>1, <1>7
      <4> QED
        BY <4>1, <4>2
    <3> QED
      BY <2>1, <3>1, <3>2, <1>3 DEF TimerInv, TimerIsOfThisBrew
  <2>2. CASE data'.state # Brewing
    BY <2>2, <1>3 DEF UpdateTimer, TimerInv, TimerIsOfThisBrew
  <2> QED
    BY <2>1, <2>2
<1>10. EventsAreTheTriggers
  <2> SUFFICES ASSUME stage = "heard"
               PROVE  EventsAreTheTriggers
    BY DEF EventsAreTheTriggers
  <2>1. last = data.state /\ (event # NoData => event.state = data.state)
    BY DEF ReadersInv, EventIsLatest
  <2>2. CASE data'.state # data.state
    <3>1. event' = [previous |-> data.state, state |-> data'.state]
      BY <2>2, <2>1, <1>4
    <3>2. event' # event
      <4>1. event' # NoData
        BY <3>1, <1>2, ReadersAssumption
      <4>2. event'.state = data'.state
        BY <3>1
      <4> QED
        BY <4>1, <4>2, <2>1, <2>2
    <3>3. event'.state = data'.state /\ event'.previous = data.state
      BY <3>1
    <3> QED
      BY <3>1, <3>2, <3>3, <2>2, <1>1, NotedTriggers DEF EventsAreTheTriggers, ReadersInv
  <2>3. CASE data'.state = data.state
    <3>1. event' = event
      BY <2>3, <2>1, <1>4
    <3> QED
      BY <3>1, <2>3, NotedTriggers DEF EventsAreTheTriggers, ReadersInv
  <2> QED
    BY <2>2, <2>3
<1> QED
  BY <1>3, <1>5, <1>6, <1>9, <1>10 DEF ReadersInv

(* Every step of the readers and of the paths they hear keeps the invariant    *)
(* and, between two updates heard, tells the story of the triggers.            *)
LEMMA ReadersStep == ReadersInv /\ [ReadersNext]_readersVars => ReadersInv' /\ (EventsAreTheTriggers \/ UNCHANGED readersVars)
<1> SUFFICES ASSUME ReadersInv, [ReadersNext]_readersVars
             PROVE  ReadersInv' /\ (EventsAreTheTriggers \/ UNCHANGED readersVars)
  OBVIOUS
<1>t. FlowTypeOK /\ FlowTypeOK'
  BY ReadersStepIsFlowStep, FlowTypeStep DEF ReadersInv
<1>1. CASE Made
  <2>1. /\ data \in Status /\ data' = data
        /\ stage' = "made" /\ last' = data.state
        /\ UNCHANGED <<event, ticking, started>>
    BY <1>1, <1>t DEF Made, vars, ledger, FlowTypeOK, TypeOK
  <2>2. ReadersInv'
    BY <2>1, <1>1, <1>t DEF Made, Status, ReadersInv, ReadersTypeOK, MadeOfData, EventIsLatest, TimerInv, TimerIsOfThisBrew
  <2> QED
    BY <2>1, <2>2 DEF EventsAreTheTriggers
<1>2. CASE Added
  <2>1. /\ UNCHANGED <<data, starts, last, event>>
        /\ stage = "made" /\ stage' = "added" /\ UpdateTimer(data)
        /\ started = NoData
    BY <1>2 DEF Added, vars, ledger, ReadersInv, TimerInv
  <2>2. ReadersInv'
    BY <2>1, <1>t DEF UpdateTimer, ReadersInv, ReadersTypeOK, MadeOfData, EventIsLatest, TimerInv, TimerIsOfThisBrew
  <2> QED
    BY <2>1, <2>2 DEF EventsAreTheTriggers
<1>3. CASE Update
  <2>1. Noted /\ Tell(data')
    BY <1>3, <1>t, UpdatePublishes DEF Update, Noted
  <2>2. CASE stage \in {"added", "heard"}
    BY <2>1, <2>2, <1>t, TellFollows
  <2>3. CASE stage \in {"none", "made"}
    <3>1. UNCHANGED readers
      BY <2>1, <2>3 DEF Tell
    <3>2. ReadersInv'
      BY <3>1, <2>1, <2>3, <1>t, DeafReaders DEF Noted
    <3> QED
      BY <3>2, <2>3 DEF EventsAreTheTriggers
  <2> QED
    BY <2>2, <2>3 DEF ReadersInv, ReadersTypeOK
<1>4. CASE Failure
  <2>1. UNCHANGED ledger
    BY <1>4 DEF Failure, PollFailed
  <2>2. CASE data # NoData /\ Tell(data)
    <3>1. Noted /\ Tell(data')
      BY <2>1, <2>2, <1>t DEF Noted, ledger, FlowTypeOK, TypeOK
    <3>2. CASE stage \in {"added", "heard"}
      BY <3>1, <3>2, <1>t, TellFollows
    <3>3. CASE stage \in {"none", "made"}
      <4>1. UNCHANGED readers
        BY <3>1, <3>3 DEF Tell
      <4>2. ReadersInv'
        BY <4>1, <3>1, <3>3, <1>t, DeafReaders DEF Noted
      <4> QED
        BY <4>2, <3>3 DEF EventsAreTheTriggers
    <3> QED
      BY <3>2, <3>3 DEF ReadersInv, ReadersTypeOK
  <2>3. CASE UNCHANGED readers
    BY <2>1, <2>3, <1>t, QuietReaders
  <2> QED
    BY <1>4, <2>2, <2>3 DEF Failure
<1>5. CASE Removed
  <2>1. /\ stage' = "none" /\ last' = NoData /\ event' = NoData
        /\ ticking' = FALSE /\ started' = NoData
    BY <1>5 DEF Removed
  <2>2. ReadersInv'
    BY <2>1, <1>t DEF ReadersInv, ReadersTypeOK, MadeOfData, EventIsLatest, TimerInv, TimerIsOfThisBrew
  <2> QED
    BY <2>1, <2>2 DEF EventsAreTheTriggers
<1>6. CASE Elsewhere
  <2>1. UNCHANGED ledger /\ UNCHANGED readers
    BY <1>6 DEF Elsewhere, PollRead, LinkDrop, MachineMoves
  <2> QED
    BY <2>1, <1>t, QuietReaders
<1>7. CASE UNCHANGED readersVars
  <2>1. UNCHANGED ledger /\ UNCHANGED readers
    BY <1>7 DEF readersVars, vars
  <2> QED
    BY <2>1, <1>t, QuietReaders
<1> QED
  BY <1>1, <1>2, <1>3, <1>4, <1>5, <1>6, <1>7 DEF ReadersNext

(* The duration shown is that of the brew that runs, and the event entity and  *)
(* the device triggers tell the same story, whichever path an update comes by  *)
(* (event.py, timer_sensor.py and _fire_triggers).                             *)
THEOREM ReadersFollowTheData == ReadersSpec => ReadersFollow
<1>1. ReadersInit => ReadersInv
  <2> SUFFICES ASSUME ReadersInit PROVE ReadersInv
    OBVIOUS
  <2>1. FlowTypeOK
    BY FlowTypesAtStart DEF ReadersInit
  <2> QED
    BY <2>1 DEF ReadersInit, NoReaders, ReadersInv, ReadersTypeOK, MadeOfData, EventIsLatest, TimerInv, TimerIsOfThisBrew
<1>2. ReadersInv /\ [ReadersNext]_readersVars => [TimerIsOfThisBrew' /\ EventsAreTheTriggers]_readersVars
  BY ReadersStep DEF ReadersInv
<1> QED
  BY <1>1, <1>2, ReadersStep, PTL DEF ReadersSpec, ReadersFollow

(* What runs in Home Assistant with the readers is the three paths of          *)
(* StatusFlow, so what is proved of the ledger and the counters holds there.   *)
THEOREM ReadersRunTheFlow == ReadersSpec => FlowSpec
<1>1. ReadersInit => FlowInit
  BY DEF ReadersInit
<1> QED
  BY <1>1, ReadersStepIsFlowStep, PTL DEF ReadersSpec, FlowSpec
=============================================================================
