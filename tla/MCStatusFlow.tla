---------------------------- MODULE MCStatusFlow ----------------------------
(* Small instances of StatusFlow and of its readers for TLC.  The readers    *)
(* look at the state and not at the tank: where they are added, the tank is  *)
(* full, and where the tank runs empty they are not.                         *)
EXTENDS Readers

MCStates == {"ready", "brewing"}
MCStatesThree == {"ready", "brewing", "error"}

MCNext == ReadersNext /\ (empties' > 0 => stage' = "none")

(* The fairness of FlowFairSpec. *)
MCFairSpec ==
    /\ ReadersInit /\ [][MCNext]_readersVars
    /\ WF_vars(PollRead) /\ SF_vars(PollDone)
=============================================================================
