---------------------------- MODULE MachineLink ----------------------------
(***************************************************************************)
(* What the coordinator (coordinator.py) promises about the one BLE client *)
(* the machine takes, as the machine and its owner see it: one user at a   *)
(* time opens and closes the link, a link outlives its user only when it   *)
(* is kept, and anyone may give a kept link up, from which moment it is    *)
(* being torn down and no longer counts.  Coordinator implements it.       *)
(***************************************************************************)
CONSTANTS Tasks, Clients

VARIABLES
    users,  \* the tasks that are using the machine
    live,   \* connections that are up and nobody is tearing down
    kept,   \* whether the live one is kept for whoever comes next
    dying   \* connections that are up and being torn down

linkVars == <<users, live, kept, dying>>

LinkInit == users = {} /\ live = {} /\ kept = FALSE /\ dying = {}

(* A task begins to use the machine. *)
Take ==
    /\ users = {}
    /\ \E t \in Tasks : users' = {t}
    /\ UNCHANGED <<live, kept, dying>>

(* It opens a link, and only where there is none. *)
Open ==
    /\ users # {} /\ live = {}
    /\ \E c \in Clients \ dying : live' = {c}
    /\ UNCHANGED <<users, kept, dying>>

(* It takes a kept link for its own, and may close it. *)
Claim ==
    /\ users # {} /\ kept /\ kept' = FALSE
    /\ UNCHANGED <<users, live, dying>>

(* It leaves the link behind, kept. *)
Keep ==
    /\ users # {} /\ users' = {}
    /\ live # {} /\ kept' = TRUE
    /\ UNCHANGED <<live, dying>>

(* It is done, and leaves no link behind that is not kept. *)
Leave ==
    /\ users # {} /\ users' = {}
    /\ live # {} => kept
    /\ UNCHANGED <<live, kept, dying>>

(* It closes the link, and may be done with that. *)
Close ==
    /\ users # {} /\ users' \in {users, {}}
    /\ live' = {} /\ kept' = FALSE
    /\ dying' \subseteq dying

(* A connection ends: it drops, or its teardown completes. *)
Ends ==
    /\ live' \subseteq live /\ dying' \subseteq dying
    /\ kept' = (kept /\ live' # {})
    /\ UNCHANGED users

(* A kept link is given up, whoever uses the machine at that moment. *)
GiveUp ==
    /\ kept /\ kept' = FALSE
    /\ live' = {} /\ dying' = dying \cup live
    /\ UNCHANGED users

LinkNext == Take \/ Open \/ Claim \/ Keep \/ Leave \/ Close \/ Ends \/ GiveUp

LinkSpec == LinkInit /\ [][LinkNext]_linkVars
=============================================================================
