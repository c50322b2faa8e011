------------------------- MODULE CoordinatorCancel -------------------------
(***************************************************************************)
(* Coordinator with cancellation.  Home Assistant cancels a refresh of the *)
(* timer when the entry is unloaded, and a press or an action when the     *)
(* script that called it is stopped; CancelledError is then raised at the  *)
(* await the task is suspended at.  It is no Exception, so of coordinator. *)
(* py only the finally blocks and the lock's "async with" see it.          *)
(***************************************************************************)
EXTENDS Coordinator

(* The links that nobody will close any more. *)
Orphans == {c \in up : c # client /\ c \notin closing /\ \A t \in Tasks : cl[t] # c}

(* A cancelled disconnect() may have got through. *)
MayClose(t) == Closed(t) \/ UNCHANGED <<up, fed>>

(* The refresh has no finally: it drops whatever it has in its hands.  The     *)
(* success flag is left alone, and a connect that is cancelled leaves no link. *)
PollCancel(p) ==
    /\ pc[p] # "idle" /\ Goto(p, "idle")
    /\ IF pc[p] = "queued" THEN UNCHANGED <<lock, cl>> ELSE Unlock(p)
    /\ IF pc[p] \in {"stale", "authdrop", "closeok", "closefail"}
       THEN MayClose(p)
       ELSE UNCHANGED <<up, fed>>
    /\ UNCHANGED <<own, client, keep, closing, state, success, seen, life, writes>>

(* Mutant of Over: the release is not in a finally. *)
OverUnreleased(u) ==
    /\ Goto(u, "idle") /\ own' = own \ {u}
    /\ UNCHANGED <<keep, client, closing>>

(* The operation is over at once; a press still runs its finally. *)
Over(u) ==
    /\ Goto(u, "idle") /\ own' = own \ {u}
    /\ IF u = Brew THEN Release ELSE UNCHANGED <<keep, client, closing>>

Outside(u) ==                       \* not yet, or no longer, in the lock
    /\ pc[u] \in {"queued"} \cup BrewPcs
    /\ Over(u)
    /\ UNCHANGED <<lock, cl, up, fed>>

(* Until the try of the body nothing closes the link: _async_connected catches *)
(* Exception only, and the watch subscribes before its try.                    *)
InSetUp(u) ==
    /\ pc[u] \in {"dial", "redial", "opauth", "attend"}
    /\ Over(u) /\ Unlock(u)
    /\ UNCHANGED <<up, fed>>

(* Mutant of InBody: a link of one's own is not closed in a finally. *)
InBodyNoFinally(u) ==
    /\ pc[u] \in Session \cup Command
    /\ Over(u) /\ Unlock(u)
    /\ UNCHANGED <<up, fed>>

(* The body of a session or of a command: its finally closes an own link. *)
InBody(u) ==
    /\ pc[u] \in Session \cup Command
    /\ \/ u \in own /\ Goto(u, "close")
          /\ UNCHANGED <<lock, cl, own, keep, client, closing>>
       \/ u \notin own /\ Over(u) /\ Unlock(u)
    /\ UNCHANGED <<up, fed>>

(* A watch: the finally unsubscribes before it closes, and a cancellation of *)
(* that stop_notify leaves the finally, so an own link is not closed.        *)
InWatch(u) ==
    /\ \/ pc[u] = "watch" /\ Goto(u, "leave")
          /\ UNCHANGED <<lock, cl, own, keep, client, closing>>
       \/ pc[u] = "leave" /\ Over(u) /\ Unlock(u)
    /\ UNCHANGED <<up, fed>>

Closing(u) ==
    /\ pc[u] = "close"
    /\ Over(u) /\ Unlock(u)
    /\ MayClose(u)

UserCancel(u) ==
    /\ Outside(u) \/ InSetUp(u) \/ InBody(u) \/ InWatch(u) \/ Closing(u)
    /\ UNCHANGED <<state, success, seen, life, writes>>

(* The press is cancelled while its release disconnects. *)
ReleaseCancel(c) ==
    /\ life = "up" /\ c \in closing
    /\ closing' = closing \ {c}
    /\ UNCHANGED <<lock, pc, cl, own, client, keep, up, fed, state, success, seen, life,
                   writes>>

CancelNext ==
    \/ Next
    \/ \E p \in Polls : PollCancel(p)
    \/ \E u \in Users : UserCancel(u)
    \/ \E c \in Clients : ReleaseCancel(c)

CancelSpec     == Init /\ [][CancelNext]_vars
CancelFairSpec == CancelSpec /\ Fairness

-----------------------------------------------------------------------------
(* A session or a command that is cancelled anywhere in its body, and a watch  *)
(* that is cancelled while it reads, closes the link it opened (the finally of *)
(* _session, async_send_command and async_watch).  An own link is lost only by *)
(* a cancellation before the body's try, in the unsubscribing of a watch, or   *)
(* in the disconnect itself.                                                   *)
CancelledBodyCleansUp ==
    [][\A c \in Orphans' \ Orphans, u \in own :
          cl[u] = c => pc[u] \in {"opauth", "attend", "leave", "close"}]_vars

(* Without persistent mode every link that is opened, kept ones included, is   *)
(* closed again as far as calls are answered, unless a cancellation orphaned   *)
(* it: a cancelled press still gives up the link it asked to be kept.          *)
EveryLinkClosesIfAnswered ==
    Answered /\ ~Persistent =>
        \A c \in Clients : []<>(c \notin up \/ c \in Orphans)
=============================================================================
