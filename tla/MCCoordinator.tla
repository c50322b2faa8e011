--------------------------- MODULE MCCoordinator ---------------------------
(* Model values and symmetry for checking Coordinator and CoordinatorCancel. *)
EXTENDS CoordinatorCancel, TLC

CONSTANTS p1, p2, o1, b, c1, c2, c3

MCPolls == {p1, p2}
MCOnePoll == {p1}
MCOps == {o1}
MCClients == {c1, c2, c3}
MCTwoClients == {c1, c2}

Sym == Permutations(MCPolls) \cup Permutations(MCClients)
=============================================================================
