----------------------------- MODULE BrewLedger -----------------------------
(***************************************************************************)
(* What a reader of the entities may rely on, whatever path an update came *)
(* by: the status shown moves from one value to the next, a brew is        *)
(* counted and brewing_started fires exactly when the shown state enters   *)
(* "brewing", brewing_finished exactly when it leaves, and the water tank  *)
(* alarm exactly when the flag shown goes up.  A status that appears after *)
(* a (re)start is a baseline: it counts and fires nothing.                 *)
(***************************************************************************)
EXTENDS Naturals

CONSTANTS
    States,     \* machine states, "brewing" among them
    NoData      \* coordinator.data is None

Brewing == "brewing"
Status == [state : States, tank : BOOLEAN]

ASSUME StatesAssumption == Brewing \in States /\ NoData \notin Status

VARIABLES
    data,       \* the status shown, or NoData
    total,      \* brew_total
    starts,     \* brewing_started triggers fired
    finishes,   \* brewing_finished triggers fired
    alarms      \* water_tank_empty triggers fired

ledger == <<data, total, starts, finishes, alarms>>

IsBrewing(d) == d # NoData /\ d.state = Brewing
One(b) == IF b THEN 1 ELSE 0

TypeOK ==
    /\ data \in Status \cup {NoData}
    /\ total \in Nat /\ starts \in Nat /\ finishes \in Nat /\ alarms \in Nat

Init == data = NoData /\ total = 0 /\ starts = 0 /\ finishes = 0 /\ alarms = 0

(* The first status after a start. *)
Baseline ==
    /\ data = NoData
    /\ data' \in Status
    /\ UNCHANGED <<total, starts, finishes, alarms>>

(* The status shown gives way to another. *)
Move ==
    /\ data # NoData /\ data' \in Status
    /\ total' = total + One(~IsBrewing(data) /\ IsBrewing(data'))
    /\ starts' = starts + One(~IsBrewing(data) /\ IsBrewing(data'))
    /\ finishes' = finishes + One(IsBrewing(data) /\ ~IsBrewing(data'))
    /\ alarms' = alarms + One(~data.tank /\ data'.tank)

(* Home Assistant or the entry restarts. *)
Forget ==
    /\ data' = NoData
    /\ UNCHANGED <<total, starts, finishes, alarms>>

Next == Baseline \/ Move \/ Forget

Spec == Init /\ [][Next]_ledger
=============================================================================
