--------------------------- MODULE MCHousekeeping ---------------------------
(***************************************************************************)
(* CounterStore and UpdateCycle for TLC: what outlives a set-up of the     *)
(* entry (the counters and their file, the auth key) and what runs between *)
(* two polls.  They share no variable, so one run explores them side by    *)
(* side, the other one at rest.                                            *)
(***************************************************************************)
EXTENDS CounterStore, UpdateCycle

VARIABLE part

houseVars == <<storeVars, cycleVars, part>>

HouseInit == StoreInit /\ CycleInit /\ part \in {"store", "cycle"}

OnStore == part = "store" /\ StoreNext /\ UNCHANGED <<cycleVars, part>>
OnCycle == part = "cycle" /\ CycleNext /\ UNCHANGED <<storeVars, part>>

HouseNext == OnStore \/ OnCycle

HouseSpec == HouseInit /\ [][HouseNext]_houseVars

(* The types of both modules. *)
HouseTypeOK == StoreTypeOK /\ CycleTypeOK
=============================================================================
