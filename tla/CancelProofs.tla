---------------------------- MODULE CancelProofs ----------------------------
(***************************************************************************)
(* What a cancellation cannot break, wherever it strikes: for any number   *)
(* of tasks and clients, in either mode, with or without unloading.  A     *)
(* link may be lost (NoOrphanLink does not hold here), but the lock is     *)
(* let go, the coordinator never uses a second link beside one it knows,   *)
(* and a press still gives up what it asked to be kept.                    *)
(***************************************************************************)
EXTENDS CoordinatorProofs, CoordinatorCancel

(* A cancelled task leaves the lock and its hands empty, or goes on to close   *)
(* its own link; of a press it also leaves nothing kept.                       *)
LEMMA CancelCoreStep == CoreInv /\ [CancelNext]_vars => CoreInv'
<1> USE TasksAssumption, FlagsAssumption
    DEF CoreInv, TypeOK, OneHolder, Tasks, Users, Holding, PollPcs, OpPcs, BrewPcs,
        Body, Session, Command, Watch
<1> SUFFICES ASSUME CoreInv, [CancelNext]_vars PROVE CoreInv'
  OBVIOUS
<1>1. CASE [Next]_vars
  BY <1>1, CoreStep
<1>2. ASSUME NEW p \in Polls, PollCancel(p) PROVE CoreInv'
  <2>1. TypeOK'
    BY <1>2 DEF PollCancel, Goto, Unlock, MayClose, Closed
  <2>2. OneHolder'
    BY <1>2 DEF PollCancel, Goto, Unlock, HandsInv
  <2>3. HandsInv'
    BY <1>2 DEF PollCancel, Goto, Unlock, MayClose, Closed, HandsInv, Opening, Dialling
  <2>4. KeepInv'
    BY <1>2 DEF PollCancel, Goto, Unlock, KeepInv, HandsInv
  <2> QED
    BY <2>1, <2>2, <2>3, <2>4
<1>3. ASSUME NEW u \in Users, UserCancel(u) PROVE CoreInv'
  <2>0. keep' \in BOOLEAN /\ UNCHANGED <<state, success, seen, life, writes>>
    BY <1>3 DEF UserCancel, Outside, InSetUp, InBody, InWatch, Closing, Over, Release
  <2> USE DEF Over, Release, Goto, Unlock, MayClose, Closed
  <2>1. CASE Outside(u)
    <3>1. TypeOK'
      BY <2>0, <2>1 DEF Outside
    <3>2. OneHolder'
      BY <1>3, <2>1 DEF UserCancel, Outside, HandsInv
    <3>3. HandsInv'
      BY <1>3, <2>1 DEF UserCancel, Outside, HandsInv, Opening, Dialling
    <3>4. KeepInv'
      BY <1>3, <2>1 DEF UserCancel, Outside, KeepInv, HandsInv
    <3> QED
      BY <3>1, <3>2, <3>3, <3>4
  <2>2. CASE InSetUp(u)
    <3>1. TypeOK'
      BY <2>0, <2>2 DEF InSetUp
    <3>2. OneHolder'
      BY <1>3, <2>2 DEF UserCancel, InSetUp, HandsInv
    <3>3. HandsInv'
      BY <1>3, <2>2 DEF UserCancel, InSetUp, HandsInv, Opening, Dialling
    <3>4. KeepInv'
      BY <1>3, <2>2 DEF UserCancel, InSetUp, KeepInv, HandsInv
    <3> QED
      BY <3>1, <3>2, <3>3, <3>4
  <2>3. CASE InBody(u)
    <3>1. TypeOK'
      BY <2>0, <2>3 DEF InBody
    <3>2. OneHolder'
      BY <1>3, <2>3 DEF UserCancel, InBody, HandsInv
    <3>3. HandsInv'
      BY <1>3, <2>3 DEF UserCancel, InBody, HandsInv, Opening, Dialling
    <3>4. KeepInv'
      BY <1>3, <2>3 DEF UserCancel, InBody, KeepInv, HandsInv
    <3> QED
      BY <3>1, <3>2, <3>3, <3>4
  <2>3a. CASE InWatch(u)
    <3>1. TypeOK'
      BY <2>0, <2>3a DEF InWatch
    <3>2. OneHolder'
      BY <1>3, <2>3a DEF UserCancel, InWatch, HandsInv
    <3>3. HandsInv'
      BY <1>3, <2>3a DEF UserCancel, InWatch, HandsInv, Opening, Dialling
    <3>4. KeepInv'
      BY <1>3, <2>3a DEF UserCancel, InWatch, KeepInv, HandsInv
    <3> QED
      BY <3>1, <3>2, <3>3, <3>4
  <2>4. CASE Closing(u)
    <3>1. TypeOK'
      BY <2>0, <2>4 DEF Closing
    <3>2. OneHolder'
      BY <1>3, <2>4 DEF UserCancel, Closing, HandsInv
    <3>3. HandsInv'
      BY <1>3, <2>4 DEF UserCancel, Closing, HandsInv, Opening, Dialling
    <3>4. KeepInv'
      BY <1>3, <2>4 DEF UserCancel, Closing, KeepInv, HandsInv
    <3> QED
      BY <3>1, <3>2, <3>3, <3>4
  <2> QED
    BY <1>3, <2>1, <2>2, <2>3, <2>3a, <2>4 DEF UserCancel
<1>4. ASSUME NEW c \in Clients, ReleaseCancel(c) PROVE CoreInv'
  BY <1>4 DEF ReleaseCancel, HandsInv, KeepInv
<1> QED
  BY <1>1, <1>2, <1>3, <1>4 DEF CancelNext

(* So the core of the invariant holds with cancellations at every await. *)
LEMMA CancelInductive == CancelSpec => []CoreInv
<1>1. Init => CoreInv
  BY InitIInv DEF IInv
<1> QED
  BY <1>1, CancelCoreStep, PTL DEF CancelSpec

-----------------------------------------------------------------------------
(* The BLE lock belongs to the one task suspended inside it, whatever is       *)
(* cancelled: none takes the lock with it, and none leaves it to two.          *)
THEOREM CancelLetsGoOfTheLock == CancelSpec => []OneHolder
<1>1. CoreInv => OneHolder
  BY DEF CoreInv
<1> QED
  BY <1>1, CancelInductive, PTL

(* Without persistent mode a kept link means a press is pending, also when     *)
(* presses are cancelled: the finally of async_press gives the link up.        *)
THEOREM CancelKeepsOnlyForABrew == CancelSpec => []KeptOnlyForBrew
<1>1. CoreInv => KeptOnlyForBrew
  BY DEF CoreInv, KeepInv, KeptOnlyForBrew
<1> QED
  BY <1>1, CancelInductive, PTL

(* The links apart that a cancellation has lost, there is one live link.      *)
OneKnownLink == \A c, d \in up \ (closing \cup Orphans) : c = d

(* A lost link never misleads the coordinator into two that it knows of.      *)
THEOREM CancelKeepsOneKnownLink == CancelSpec => []OneKnownLink
<1>1. CoreInv => OneKnownLink
  <2> SUFFICES ASSUME CoreInv,
                      NEW c \in up \ (closing \cup Orphans), NEW d \in up \ (closing \cup Orphans)
               PROVE  c = d
    BY DEF OneKnownLink
  <2>1. /\ c = client \/ \E t \in Tasks : cl[t] = c
        /\ d = client \/ \E t \in Tasks : cl[t] = d
    BY DEF Orphans
  <2>2. None \notin up
    BY TasksAssumption DEF CoreInv, TypeOK
  <2>3. \A t \in Tasks : cl[t] # None => lock = t /\ (client = cl[t] \/ client \notin up)
    BY DEF CoreInv, HandsInv
  <2> QED
    BY <2>1, <2>2, <2>3
<1> QED
  BY <1>1, CancelInductive, PTL

(* A cancelled task has written its command or has not: it never goes twice.   *)
THEOREM CancelCommandGoesOutOnce == CancelSpec => []OneCommandPerPress
<1>1. Init => WriteInv
  BY TasksAssumption DEF Init, Tasks, Users, BeforeWrite, OneCommandPerPress, WriteInv
<1>2. CoreInv /\ WriteInv /\ [CancelNext]_vars => WriteInv'
  <2> SUFFICES ASSUME CoreInv, WriteInv, [CancelNext]_vars PROVE WriteInv'
    OBVIOUS
  <2> USE DEF OneCommandPerPress, WriteInv
  <2>t. pc \in [Tasks -> {"idle", "queued"} \cup Holding \cup BrewPcs] /\ Brew \in Tasks
    BY DEF CoreInv, TypeOK, Tasks, Users
  <2>1. CASE [Next]_vars
    BY <2>1, WriteStep
  <2>2. ASSUME NEW p \in Polls, PollCancel(p) PROVE WriteInv'
    BY <2>2, <2>t, TasksAssumption DEF PollCancel, Goto, Tasks, BeforeWrite
  <2>3. ASSUME NEW u \in Users, UserCancel(u) PROVE WriteInv'
    <3>1. UNCHANGED writes /\ \E p \in {"idle", "close", "leave"} : Goto(u, p)
      BY <2>3 DEF UserCancel, Outside, InSetUp, InBody, InWatch, Closing, Over
    <3> QED
      BY <3>1, <2>t DEF Goto, Tasks, BeforeWrite
  <2>4. ASSUME NEW c \in Clients, ReleaseCancel(c) PROVE WriteInv'
    BY <2>4 DEF ReleaseCancel
  <2> QED
    BY <2>1, <2>2, <2>3, <2>4 DEF CancelNext
<1>3. WriteInv => OneCommandPerPress
  BY DEF WriteInv
<1> QED
  BY <1>1, <1>2, <1>3, CancelInductive, PTL DEF CancelSpec

(* A cancelled operation leaves the held link of persistent mode subscribed.   *)
THEOREM CancelledLinkIsHeard == CancelSpec => []NeverDeaf
<1>1. Init => NeverDeaf
  BY DEF Init, NeverDeaf, Held
<1>2. CoreInv /\ NeverDeaf /\ [CancelNext]_vars => NeverDeaf'
  <2> SUFFICES ASSUME CoreInv, NeverDeaf, [CancelNext]_vars PROVE NeverDeaf'
    OBVIOUS
  <2>1. CASE [Next]_vars
    BY <2>1, HeardStep
  <2>2. CASE \/ \E p \in Polls : PollCancel(p)
             \/ \E u \in Users : UserCancel(u)
             \/ \E c \in Clients : ReleaseCancel(c)
    <3>1. Persistent => UNCHANGED client
      BY <2>2 DEF PollCancel, UserCancel, Outside, InSetUp, InBody, InWatch, Closing, Over, Release, ReleaseCancel
    <3>2. UNCHANGED <<up, fed>> \/ \E t \in Tasks : Closed(t)
      BY <2>2 DEF PollCancel, UserCancel, Outside, InSetUp, InBody, InWatch, Closing, MayClose, ReleaseCancel, Tasks
    <3> QED
      BY <3>1, <3>2 DEF NeverDeaf, Held, Closed
  <2> QED
    BY <2>1, <2>2 DEF CancelNext
<1> QED
  BY <1>1, <1>2, CancelInductive, PTL DEF CancelSpec

(* A cancelled session or command closes the link it opened, and so does a     *)
(* watch cancelled while it reads: own links are lost only before the body's   *)
(* try, in the unsubscribing of a watch, or in the disconnect.                 *)
THEOREM CancelledBodiesCleanUp == CancelSpec => CancelledBodyCleansUp
<1> DEFINE CleansUp ==
      \A c \in Orphans' \ Orphans, u \in own :
         cl[u] = c => pc[u] \in {"opauth", "attend", "leave", "close"}
<1>1. CoreInv /\ [CancelNext]_vars => [CleansUp]_vars
  <2> SUFFICES ASSUME CoreInv, CancelNext,
                      NEW u \in own, cl[u] \in Orphans',
                      pc[u] \notin {"opauth", "attend", "leave", "close"}
               PROVE  FALSE
    OBVIOUS
  <2>t. /\ u \in Users /\ Users \subseteq Tasks /\ cl \in [Tasks -> Clients \cup {None}]
        /\ pc[u] \in Session \cup Command \cup {"watch"}
    BY DEF CoreInv, TypeOK, HandsInv, Tasks, Body, Watch
  <2>1. cl'[u] # cl[u]
    BY <2>t DEF Orphans
  <2>2. ASSUME NEW t \in Tasks, UNCHANGED cl \/ \E c : cl' = [cl EXCEPT ![t] = c]
        PROVE  t = u
    BY <2>1, <2>2, <2>t
  <2>3. ASSUME NEW p \in Polls, PollStart(p) \/ PollAcquire(p) \/ PollStep(p) \/ PollCancel(p)
        PROVE  FALSE
    <3>1. UNCHANGED cl \/ \E c : cl' = [cl EXCEPT ![p] = c]
      BY <2>3 DEF PollStart, PollAcquire, PollStep, PollHeldRead, PollStaleClosed, PollConnect, PollAuth,
         PollRead, PollSubscribe, PollClose, PollCancel, DropStale, LookUp, PollParsed, PollFails, Opened, Unlock
    <3>2. p \in Tasks /\ p # u
      BY <2>t, TasksAssumption DEF Tasks, Users
    <3> QED
      BY <3>1, <3>2, <2>2
  <2>4. ASSUME NEW v \in Users, OpStart(v) \/ OpAcquire(v) \/ OpStep(v)
        PROVE  FALSE
    <3>1. UNCHANGED cl \/ \E c : cl' = [cl EXCEPT ![v] = c]
      BY <2>4 DEF OpStart, OpAcquire, OpStep, OpConnect, OpAuth, OpListen, OpWrite, OpAttend, OpWatched,
         OpFinish, OpClose, OpDone, Opened, Unlock
    <3>2. v = u
      BY <3>1, <2>2 DEF Tasks
    <3> QED
      BY <2>4, <3>2, <2>1, <2>t DEF OpStart, OpAcquire, OpStep, OpConnect, OpAuth, OpListen, OpWrite,
         OpAttend, OpWatched, OpFinish, OpClose, Session, Command
  <2>5. ASSUME NEW v \in Users, UserCancel(v)
        PROVE  FALSE
    <3>1. UNCHANGED cl \/ \E c : cl' = [cl EXCEPT ![v] = c]
      BY <2>5 DEF UserCancel, Outside, InSetUp, InBody, InWatch, Closing, Unlock
    <3>2. v = u
      BY <3>1, <2>2 DEF Tasks
    <3> QED
      BY <2>5, <3>2, <2>1, <2>t
         DEF UserCancel, Outside, BrewPcs, InSetUp, InBody, InWatch, Closing, Session, Command
  <2>6. CASE \E c \in Clients : FinishClose(c) \/ LinkDrop(c) \/ ReleaseCancel(c)
    BY <2>6, <2>1 DEF FinishClose, LinkDrop, ReleaseCancel
  <2>7. CASE BrewPress \/ BrewWait \/ BrewRelease \/ Unload \/ Unloaded \/ MachineGone \/ MachineBack \/ FastUpdate
    BY <2>7, <2>1 DEF BrewPress, BrewWait, BrewRelease, Unload, Unloaded, MachineGone, MachineBack, FastUpdate
  <2> QED
    BY <2>3, <2>4, <2>5, <2>6, <2>7 DEF CancelNext, Next
<1> QED
  BY <1>1, CancelInductive, PTL DEF CancelSpec, CancelledBodyCleansUp
=============================================================================
