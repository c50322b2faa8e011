------------------------- MODULE CoordinatorProofs -------------------------
(***************************************************************************)
(* Proofs about Coordinator for any number of polls, operations and        *)
(* clients, in either connection mode, with or without unloading.          *)
(***************************************************************************)
EXTENDS Coordinator, TLAPS

(* The polls suspended between dropping the old link and storing the new one. *)
Opening == PollPcs \ {"held"}

(* Task t dials, so no client is in its hands yet. *)
Dialling == {"connect", "pause", "reconnect", "dial", "redial"}

(* Only the task that holds the lock has a client in its hands, a poll that *)
(* opens a link has emptied self._client, a user that opened its own found  *)
(* no live one there, and whoever has one in hand has the live one, if any. *)
HandsInv ==
    /\ \A t \in Tasks : cl[t] # None => lock = t /\ (client = cl[t] \/ client \notin up)
    /\ \A t \in Tasks : pc[t] \in Dialling => cl[t] = None
    /\ \A p \in Polls : pc[p] \in Opening => client = None
    /\ \A u \in Users : pc[u] \in {"dial", "redial"} \/ u \in own => client \notin up
    /\ \A u \in Users : pc[u] \in {"opauth", "close"} => u \in own
    /\ \A u \in own : lock = u /\ pc[u] \in {"opauth", "close"} \cup Body
    /\ \A u \in Users : pc[u] \notin PollPcs
    /\ \A p \in Polls : pc[p] \notin OpPcs \cup BrewPcs

(* A client is kept without persistent mode only while the button asks for it. *)
KeepInv ==
    /\ keep => pc[Brew] # "idle"
    /\ \A p \in Polls : pc[p] = "subscribe" => Persistent
    /\ ~Persistent /\ client # None => keep

(* What cancellations leave alone, too. *)
CoreInv == TypeOK /\ OneHolder /\ HandsInv /\ KeepInv

(* A link t does not own is the coordinator's, or being closed, or down. *)
Lent(t) == cl[t] = client \/ cl[t] \in closing \/ cl[t] \notin up

(* A task whose link was lent to it got the coordinator's. *)
LentInv ==
    /\ \A p \in Polls : pc[p] = "authconnect" => cl[p] \notin up
    /\ \A p \in Polls : pc[p] = "held" => Lent(p)
    /\ \A u \in Users : pc[u] \in Body /\ u \notin own => Lent(u)

IInv == CoreInv /\ LentInv /\ NoOrphanLink

-----------------------------------------------------------------------------
(* Before the first refresh nobody has a link. *)
LEMMA InitIInv == Init => IInv
<1> SUFFICES ASSUME Init PROVE IInv
  OBVIOUS
<1> USE TasksAssumption DEF Init
<1>1. TypeOK
  BY DEF TypeOK, Holding, PollPcs, OpPcs, Body, Session, Command, Watch, BrewPcs, NoData
<1>2. OneHolder
  BY DEF OneHolder, Holding, PollPcs, OpPcs, Body, Session, Command, Watch
<1>3. HandsInv /\ LentInv
  BY DEF HandsInv, LentInv, PollPcs, OpPcs,
     Body, Session, Command, Watch, BrewPcs, Opening, Dialling, Tasks, Users
<1>4. NoOrphanLink /\ KeepInv
  BY DEF NoOrphanLink, KeepInv, Tasks, Users
<1> QED
  BY <1>1, <1>2, <1>3, <1>4 DEF IInv, CoreInv

(* Every step preserves the part that holds with cancellations too: one step *)
(* per action, one leaf per part.                                            *)
LEMMA CoreStep == CoreInv /\ [Next]_vars => CoreInv'
<1> USE TasksAssumption, FlagsAssumption
    DEF CoreInv, TypeOK, OneHolder, Tasks, Users, Holding, PollPcs, OpPcs,
       Body, Session, Command, Watch, BrewPcs,
        MachineStates, NoData, Asleep, Warming, Ready, Busy
<1> SUFFICES ASSUME CoreInv, [Next]_vars PROVE CoreInv'
  OBVIOUS
<1>1. ASSUME NEW p \in Polls, PollStart(p) PROVE CoreInv'
  <2>1. TypeOK'
    BY <1>1 DEF PollStart, Goto
  <2>2. OneHolder'
    BY <1>1 DEF PollStart, Goto, HandsInv
  <2>3. HandsInv'
    BY <1>1 DEF PollStart, Goto, HandsInv, Opening, Dialling
  <2>4. KeepInv'
    BY <1>1 DEF PollStart, Goto, KeepInv, HandsInv, Opening
  <2> QED
    BY <2>1, <2>2, <2>3, <2>4
<1>2. ASSUME NEW p \in Polls, PollAcquire(p) PROVE CoreInv'
  <2>1. TypeOK'
    <3>1. success' \in BOOLEAN
      BY <1>2 DEF PollAcquire, Goto, Held, DropStale, LookUp, PollFails, Unlock
    <3> QED
      BY <1>2, <3>1 DEF PollAcquire, Goto, Held, DropStale, LookUp, PollFails,
         Unlock
  <2>2. OneHolder'
    BY <1>2 DEF PollAcquire, Goto, Held, DropStale, LookUp, PollFails, Unlock,
       HandsInv
  <2>3. HandsInv'
    BY <1>2 DEF PollAcquire, Goto, Held, DropStale, LookUp, PollFails, Unlock,
       HandsInv, Opening, Dialling
  <2>4. KeepInv'
    BY <1>2 DEF PollAcquire, Goto, Held, DropStale, LookUp, PollFails, Unlock,
       KeepInv, HandsInv, Opening
  <2> QED
    BY <2>1, <2>2, <2>3, <2>4
<1>3. ASSUME NEW p \in Polls, PollHeldRead(p) PROVE CoreInv'
  <2>1. TypeOK'
    <3>1. success' \in BOOLEAN
      BY <1>3 DEF PollHeldRead, PollParsed, DropStale, Goto, Unlock, LookUp,
         PollFails
    <3> QED
      BY <1>3, <3>1 DEF PollHeldRead, PollParsed, DropStale, Goto, Unlock, LookUp,
         PollFails
  <2>2. OneHolder'
    BY <1>3 DEF PollHeldRead, PollParsed, DropStale, Goto, Unlock, LookUp,
       PollFails, HandsInv
  <2>3. HandsInv'
    BY <1>3 DEF PollHeldRead, PollParsed, DropStale, Goto, Unlock, LookUp,
       PollFails, HandsInv, Opening, Dialling
  <2>4. KeepInv'
    BY <1>3 DEF PollHeldRead, PollParsed, DropStale, Goto, Unlock, LookUp,
       PollFails, KeepInv, HandsInv, Opening
  <2> QED
    BY <2>1, <2>2, <2>3, <2>4
<1>4. ASSUME NEW p \in Polls, PollStaleClosed(p) PROVE CoreInv'
  <2>1. TypeOK'
    <3>1. success' \in BOOLEAN
      BY <1>4 DEF PollStaleClosed, Closed, LookUp, Goto, PollFails, Unlock
    <3> QED
      BY <1>4, <3>1 DEF PollStaleClosed, Closed, LookUp, Goto, PollFails, Unlock
  <2>2. OneHolder'
    BY <1>4 DEF PollStaleClosed, Closed, LookUp, Goto, PollFails, Unlock, HandsInv
  <2>3. HandsInv'
    BY <1>4 DEF PollStaleClosed, Closed, LookUp, Goto, PollFails, Unlock, HandsInv,
       Opening, Dialling
  <2>4. KeepInv'
    BY <1>4 DEF PollStaleClosed, Closed, LookUp, Goto, PollFails, Unlock, KeepInv,
       HandsInv, Opening
  <2> QED
    BY <2>1, <2>2, <2>3, <2>4
<1>5. ASSUME NEW p \in Polls, PollConnect(p) PROVE CoreInv'
  <2>1. TypeOK'
    <3>1. success' \in BOOLEAN
      BY <1>5 DEF PollConnect, Goto, PollFails, Opened, Unlock, Fresh
    <3> QED
      BY <1>5, <3>1 DEF PollConnect, Goto, PollFails, Opened, Unlock, Fresh
  <2>2. OneHolder'
    BY <1>5 DEF PollConnect, Goto, PollFails, Opened, Unlock, Fresh, HandsInv
  <2>3. HandsInv'
    BY <1>5 DEF PollConnect, Goto, PollFails, Opened, Unlock, Fresh, HandsInv,
       Opening, Dialling
  <2>4. KeepInv'
    BY <1>5 DEF PollConnect, Goto, PollFails, Opened, Unlock, Fresh, KeepInv,
       HandsInv, Opening
  <2> QED
    BY <2>1, <2>2, <2>3, <2>4
<1>6. ASSUME NEW p \in Polls, PollAuth(p) PROVE CoreInv'
  <2>1. TypeOK'
    BY <1>6 DEF PollAuth, Goto, Opened, Fresh
  <2>2. OneHolder'
    BY <1>6 DEF PollAuth, Goto, Opened, Fresh, HandsInv
  <2>3. HandsInv'
    BY <1>6 DEF PollAuth, Goto, Opened, Fresh, HandsInv, Opening, Dialling
  <2>4. KeepInv'
    BY <1>6 DEF PollAuth, Goto, Opened, Fresh, KeepInv, HandsInv, Opening
  <2> QED
    BY <2>1, <2>2, <2>3, <2>4
<1>7. ASSUME NEW p \in Polls, PollRead(p) PROVE CoreInv'
  <2>1. TypeOK'
    <3>1. success' \in BOOLEAN
      BY <1>7 DEF PollRead, Goto, PollParsed, Unlock
    <3> QED
      BY <1>7, <3>1 DEF PollRead, Goto, PollParsed, Unlock
  <2>2. OneHolder'
    BY <1>7 DEF PollRead, Goto, PollParsed, Unlock, HandsInv
  <2>3. HandsInv'
    BY <1>7 DEF PollRead, Goto, PollParsed, Unlock, HandsInv, Opening, Dialling
  <2>4. KeepInv'
    BY <1>7 DEF PollRead, Goto, PollParsed, Unlock, KeepInv, HandsInv, Opening
  <2> QED
    BY <2>1, <2>2, <2>3, <2>4
<1>8. ASSUME NEW p \in Polls, PollSubscribe(p) PROVE CoreInv'
  <2>1. TypeOK'
    <3>1. success' \in BOOLEAN
      BY <1>8 DEF PollSubscribe, Goto, PollParsed, Unlock
    <3> QED
      BY <1>8, <3>1 DEF PollSubscribe, Goto, PollParsed, Unlock
  <2>2. OneHolder'
    BY <1>8 DEF PollSubscribe, Goto, PollParsed, Unlock, HandsInv
  <2>3. HandsInv'
    BY <1>8 DEF PollSubscribe, Goto, PollParsed, Unlock, HandsInv, Opening, Dialling
  <2>4. KeepInv'
    BY <1>8 DEF PollSubscribe, Goto, PollParsed, Unlock, KeepInv, HandsInv, Opening
  <2> QED
    BY <2>1, <2>2, <2>3, <2>4
<1>9. ASSUME NEW p \in Polls, PollClose(p) PROVE CoreInv'
  <2>1. TypeOK'
    <3>1. success' \in BOOLEAN
      BY <1>9 DEF PollClose, Goto, PollParsed, PollFails, Closed, Unlock
    <3> QED
      BY <1>9, <3>1 DEF PollClose, Goto, PollParsed, PollFails, Closed, Unlock
  <2>2. OneHolder'
    BY <1>9 DEF PollClose, Goto, PollParsed, PollFails, Closed, Unlock, HandsInv
  <2>3. HandsInv'
    BY <1>9 DEF PollClose, Goto, PollParsed, PollFails, Closed, Unlock, HandsInv,
       Opening, Dialling
  <2>4. KeepInv'
    BY <1>9 DEF PollClose, Goto, PollParsed, PollFails, Closed, Unlock, KeepInv,
       HandsInv, Opening
  <2> QED
    BY <2>1, <2>2, <2>3, <2>4
<1>10. ASSUME NEW u \in Users, OpStart(u) PROVE CoreInv'
  <2>1. TypeOK'
    BY <1>10 DEF OpStart, Goto, Setup
  <2>2. OneHolder'
    BY <1>10 DEF OpStart, Goto, Setup, HandsInv
  <2>3. HandsInv'
    BY <1>10 DEF OpStart, Goto, Setup, HandsInv, Opening, Dialling
  <2>4. KeepInv'
    BY <1>10 DEF OpStart, Goto, Setup, KeepInv, HandsInv, Opening
  <2> QED
    BY <2>1, <2>2, <2>3, <2>4
<1>11. ASSUME NEW u \in Users, OpAcquire(u) PROVE CoreInv'
  <2>1. TypeOK'
    BY <1>11 DEF OpAcquire, Begin, Goto, Held
  <2>2. OneHolder'
    BY <1>11 DEF OpAcquire, Begin, Goto, Held, HandsInv
  <2>3. HandsInv'
    BY <1>11 DEF OpAcquire, Begin, Goto, Held, HandsInv, Opening, Dialling
  <2>4. KeepInv'
    BY <1>11 DEF OpAcquire, Begin, Goto, Held, KeepInv, HandsInv, Opening
  <2> QED
    BY <2>1, <2>2, <2>3, <2>4
<1>12. ASSUME NEW u \in Users, OpConnect(u) PROVE CoreInv'
  <2>1. TypeOK'
    BY <1>12 DEF OpConnect, Goto, Opened, OpDone, Fresh, Unlock
  <2>2. OneHolder'
    BY <1>12 DEF OpConnect, Goto, Opened, OpDone, Fresh, Unlock, HandsInv
  <2>3. HandsInv'
    BY <1>12 DEF OpConnect, Goto, Opened, OpDone, Fresh, Unlock, HandsInv, Opening,
       Dialling
  <2>4. KeepInv'
    BY <1>12 DEF OpConnect, Goto, Opened, OpDone, Fresh, Unlock, KeepInv, HandsInv,
       Opening
  <2> QED
    BY <2>1, <2>2, <2>3, <2>4
<1>13. ASSUME NEW u \in Users, OpAuth(u) PROVE CoreInv'
  <2>1. TypeOK'
    BY <1>13 DEF OpAuth, Begin, Goto
  <2>2. OneHolder'
    BY <1>13 DEF OpAuth, Begin, Goto, HandsInv
  <2>3. HandsInv'
    BY <1>13 DEF OpAuth, Begin, Goto, HandsInv, Opening, Dialling
  <2>4. KeepInv'
    BY <1>13 DEF OpAuth, Begin, Goto, KeepInv, HandsInv, Opening
  <2> QED
    BY <2>1, <2>2, <2>3, <2>4
<1>14. ASSUME NEW u \in Users, OpListen(u) PROVE CoreInv'
  <2>1. TypeOK'
    BY <1>14 DEF OpListen, Goto, Mute
  <2>2. OneHolder'
    BY <1>14 DEF OpListen, Goto, Mute, HandsInv
  <2>3. HandsInv'
    BY <1>14 DEF OpListen, Goto, Mute, HandsInv, Opening, Dialling
  <2>4. KeepInv'
    BY <1>14 DEF OpListen, Goto, Mute, KeepInv, HandsInv, Opening
  <2> QED
    BY <2>1, <2>2, <2>3, <2>4
<1>15. ASSUME NEW u \in Users, OpWrite(u) PROVE CoreInv'
  <2>1. TypeOK'
    BY <1>15 DEF OpWrite, Goto
  <2>2. OneHolder'
    BY <1>15 DEF OpWrite, Goto, HandsInv
  <2>3. HandsInv'
    BY <1>15 DEF OpWrite, Goto, HandsInv, Opening, Dialling
  <2>4. KeepInv'
    BY <1>15 DEF OpWrite, Goto, KeepInv, HandsInv, Opening
  <2> QED
    BY <2>1, <2>2, <2>3, <2>4
<1>15a. ASSUME NEW u \in Users, OpAttend(u) PROVE CoreInv'
  <2>1. TypeOK'
    BY <1>15a DEF OpAttend, Goto, Mute
  <2>2. OneHolder'
    BY <1>15a DEF OpAttend, Goto, Mute, HandsInv
  <2>3. HandsInv'
    BY <1>15a DEF OpAttend, Goto, Mute, HandsInv, Opening, Dialling
  <2>4. KeepInv'
    BY <1>15a DEF OpAttend, Goto, Mute, KeepInv, HandsInv, Opening
  <2> QED
    BY <2>1, <2>2, <2>3, <2>4
<1>15b. ASSUME NEW u \in Users, OpWatched(u) PROVE CoreInv'
  <2>1. TypeOK'
    BY <1>15b DEF OpWatched, Goto
  <2>2. OneHolder'
    BY <1>15b DEF OpWatched, Goto, HandsInv
  <2>3. HandsInv'
    BY <1>15b DEF OpWatched, Goto, HandsInv, Opening, Dialling
  <2>4. KeepInv'
    BY <1>15b DEF OpWatched, Goto, KeepInv, HandsInv, Opening
  <2> QED
    BY <2>1, <2>2, <2>3, <2>4
<1>16. ASSUME NEW u \in Users, OpFinish(u) PROVE CoreInv'
  <2>1. TypeOK'
    BY <1>16 DEF OpFinish, Goto, OpDone, Unlock
  <2>2. OneHolder'
    BY <1>16 DEF OpFinish, Goto, OpDone, Unlock, HandsInv
  <2>3. HandsInv'
    BY <1>16 DEF OpFinish, Goto, OpDone, Unlock, HandsInv, Opening, Dialling
  <2>4. KeepInv'
    BY <1>16 DEF OpFinish, Goto, OpDone, Unlock, KeepInv, HandsInv, Opening
  <2> QED
    BY <2>1, <2>2, <2>3, <2>4
<1>17. ASSUME NEW u \in Users, OpClose(u) PROVE CoreInv'
  <2>1. TypeOK'
    BY <1>17 DEF OpClose, Closed, OpDone, Goto, Unlock
  <2>2. OneHolder'
    BY <1>17 DEF OpClose, Closed, OpDone, Goto, Unlock, HandsInv
  <2>3. HandsInv'
    BY <1>17 DEF OpClose, Closed, OpDone, Goto, Unlock, HandsInv, Opening, Dialling
  <2>4. KeepInv'
    BY <1>17 DEF OpClose, Closed, OpDone, Goto, Unlock, KeepInv, HandsInv, Opening
  <2> QED
    BY <2>1, <2>2, <2>3, <2>4
<1>18. CASE BrewPress
  <2>1. TypeOK'
    <3>1. keep' \in BOOLEAN
      BY <1>18 DEF BrewPress, Goto, Setup, Decide
    <3> QED
      BY <1>18, <3>1 DEF BrewPress, Goto, Setup, Decide
  <2>2. OneHolder'
    BY <1>18 DEF BrewPress, Goto, Setup, Decide, HandsInv
  <2>3. HandsInv'
    BY <1>18 DEF BrewPress, Goto, Setup, Decide, HandsInv, Opening, Dialling
  <2>4. KeepInv'
    BY <1>18 DEF BrewPress, Goto, Setup, Decide, KeepInv, HandsInv, Opening
  <2> QED
    BY <2>1, <2>2, <2>3, <2>4
<1>19. CASE BrewWait
  <2>1. TypeOK'
    BY <1>19 DEF BrewWait, Goto, Decide
  <2>2. OneHolder'
    BY <1>19 DEF BrewWait, Goto, Decide, HandsInv
  <2>3. HandsInv'
    BY <1>19 DEF BrewWait, Goto, Decide, HandsInv, Opening, Dialling
  <2>4. KeepInv'
    BY <1>19 DEF BrewWait, Goto, Decide, KeepInv, HandsInv, Opening
  <2> QED
    BY <2>1, <2>2, <2>3, <2>4
<1>20. CASE BrewRelease
  <2>1. TypeOK'
    <3>1. keep' \in BOOLEAN
      BY <1>20 DEF BrewRelease, Release, Goto
    <3> QED
      BY <1>20, <3>1 DEF BrewRelease, Release, Goto
  <2>2. OneHolder'
    BY <1>20 DEF BrewRelease, Release, Goto, HandsInv
  <2>3. HandsInv'
    BY <1>20 DEF BrewRelease, Release, Goto, HandsInv, Opening, Dialling
  <2>4. KeepInv'
    BY <1>20 DEF BrewRelease, Release, Goto, KeepInv, HandsInv, Opening
  <2> QED
    BY <2>1, <2>2, <2>3, <2>4
<1>21. ASSUME NEW c \in Clients, FinishClose(c) PROVE CoreInv'
  <2>1. TypeOK'
    BY <1>21 DEF FinishClose
  <2>2. OneHolder'
    BY <1>21 DEF FinishClose, HandsInv
  <2>3. HandsInv'
    BY <1>21 DEF FinishClose, HandsInv, Opening, Dialling
  <2>4. KeepInv'
    BY <1>21 DEF FinishClose, KeepInv, HandsInv, Opening
  <2> QED
    BY <2>1, <2>2, <2>3, <2>4
<1>22. ASSUME NEW c \in Clients, LinkDrop(c) PROVE CoreInv'
  <2>1. TypeOK'
    BY <1>22 DEF LinkDrop
  <2>2. OneHolder'
    BY <1>22 DEF LinkDrop, HandsInv
  <2>3. HandsInv'
    BY <1>22 DEF LinkDrop, HandsInv, Opening, Dialling
  <2>4. KeepInv'
    BY <1>22 DEF LinkDrop, KeepInv, HandsInv, Opening
  <2> QED
    BY <2>1, <2>2, <2>3, <2>4
<1>23. CASE Unload
  <2>1. TypeOK'
    BY <1>23 DEF Unload, Setup
  <2>2. OneHolder'
    BY <1>23 DEF Unload, Setup, HandsInv
  <2>3. HandsInv'
    BY <1>23 DEF Unload, Setup, HandsInv, Opening, Dialling
  <2>4. KeepInv'
    BY <1>23 DEF Unload, Setup, KeepInv, HandsInv, Opening
  <2> QED
    BY <2>1, <2>2, <2>3, <2>4
<1>24. CASE Unloaded
  <2>1. TypeOK'
    BY <1>24 DEF Unloaded
  <2>2. OneHolder'
    BY <1>24 DEF Unloaded, HandsInv
  <2>3. HandsInv'
    BY <1>24 DEF Unloaded, HandsInv, Opening, Dialling
  <2>4. KeepInv'
    BY <1>24 DEF Unloaded, KeepInv, HandsInv, Opening
  <2> QED
    BY <2>1, <2>2, <2>3, <2>4
<1>25. CASE MachineGone
  <2>1. TypeOK'
    <3>1. success' \in BOOLEAN
      BY <1>25 DEF MachineGone, Held, Setup
    <3> QED
      BY <1>25, <3>1 DEF MachineGone, Held, Setup
  <2>2. OneHolder'
    BY <1>25 DEF MachineGone, Held, Setup, HandsInv
  <2>3. HandsInv'
    BY <1>25 DEF MachineGone, Held, Setup, HandsInv, Opening, Dialling
  <2>4. KeepInv'
    BY <1>25 DEF MachineGone, Held, Setup, KeepInv, HandsInv, Opening
  <2> QED
    BY <2>1, <2>2, <2>3, <2>4
<1>26. CASE MachineBack
  <2>1. TypeOK'
    BY <1>26 DEF MachineBack
  <2>2. OneHolder'
    BY <1>26 DEF MachineBack, HandsInv
  <2>3. HandsInv'
    BY <1>26 DEF MachineBack, HandsInv, Opening, Dialling
  <2>4. KeepInv'
    BY <1>26 DEF MachineBack, KeepInv, HandsInv, Opening
  <2> QED
    BY <2>1, <2>2, <2>3, <2>4
<1>27. CASE FastUpdate
  <2>1. TypeOK'
    BY <1>27 DEF FastUpdate, Setup
  <2>2. OneHolder'
    BY <1>27 DEF FastUpdate, Setup, HandsInv
  <2>3. HandsInv'
    BY <1>27 DEF FastUpdate, Setup, HandsInv, Opening, Dialling
  <2>4. KeepInv'
    BY <1>27 DEF FastUpdate, Setup, KeepInv, HandsInv, Opening
  <2> QED
    BY <2>1, <2>2, <2>3, <2>4
<1>28. CASE UNCHANGED vars
  BY <1>28 DEF vars, HandsInv, KeepInv
<1> QED
  BY <1>1, <1>2, <1>3, <1>4, <1>5, <1>6, <1>7, <1>8, <1>9, <1>10, <1>11, <1>12,
     <1>13, <1>14, <1>15, <1>15a, <1>15b, <1>16, <1>17, <1>18, <1>19, <1>20, <1>21, <1>22, <1>23, <1>24,
     <1>25, <1>26, <1>27, <1>28
     DEF Next, PollStep, OpStep

(* And, with no cancellation, the part that finds every link. *)
LEMMA StepIInv == IInv /\ [Next]_vars => IInv'
<1> SUFFICES ASSUME IInv, [Next]_vars PROVE LentInv' /\ NoOrphanLink'
  BY CoreStep DEF IInv
<1> USE TasksAssumption, FlagsAssumption
    DEF IInv, CoreInv, TypeOK, OneHolder, Tasks, Users, Holding, PollPcs, OpPcs,
       Body, Session, Command, Watch, BrewPcs,
        MachineStates, NoData, Asleep, Warming, Ready, Busy
<1>1. ASSUME NEW p \in Polls, PollStart(p) PROVE LentInv' /\ NoOrphanLink'
  <2>1. LentInv'
    BY <1>1 DEF PollStart, Goto, HandsInv, LentInv, NoOrphanLink, Lent, Opening,
       Dialling
  <2>2. NoOrphanLink'
    BY <1>1 DEF PollStart, Goto, HandsInv, LentInv, NoOrphanLink, Lent, Opening,
       Dialling
  <2> QED
    BY <2>1, <2>2
<1>2. ASSUME NEW p \in Polls, PollAcquire(p) PROVE LentInv' /\ NoOrphanLink'
  <2>1. LentInv'
    BY <1>2 DEF PollAcquire, Goto, Held, DropStale, LookUp, PollFails, Unlock,
       HandsInv, LentInv, NoOrphanLink, Lent, Opening, Dialling
  <2>2. NoOrphanLink'
    BY <1>2 DEF PollAcquire, Goto, Held, DropStale, LookUp, PollFails, Unlock,
       HandsInv, LentInv, NoOrphanLink, Lent, Opening, Dialling
  <2> QED
    BY <2>1, <2>2
<1>3. ASSUME NEW p \in Polls, PollHeldRead(p) PROVE LentInv' /\ NoOrphanLink'
  <2>1. LentInv'
    BY <1>3 DEF PollHeldRead, PollParsed, DropStale, Goto, Unlock, LookUp,
       PollFails, HandsInv, LentInv, NoOrphanLink, Lent, Opening, Dialling
  <2>2. NoOrphanLink'
    BY <1>3 DEF PollHeldRead, PollParsed, DropStale, Goto, Unlock, LookUp,
       PollFails, HandsInv, LentInv, NoOrphanLink, Lent, Opening, Dialling
  <2> QED
    BY <2>1, <2>2
<1>4. ASSUME NEW p \in Polls, PollStaleClosed(p) PROVE LentInv' /\ NoOrphanLink'
  <2>1. LentInv'
    BY <1>4 DEF PollStaleClosed, Closed, LookUp, Goto, PollFails, Unlock, HandsInv,
       LentInv, NoOrphanLink, Lent, Opening, Dialling
  <2>2. NoOrphanLink'
    BY <1>4 DEF PollStaleClosed, Closed, LookUp, Goto, PollFails, Unlock, HandsInv,
       LentInv, NoOrphanLink, Lent, Opening, Dialling
  <2> QED
    BY <2>1, <2>2
<1>5. ASSUME NEW p \in Polls, PollConnect(p) PROVE LentInv' /\ NoOrphanLink'
  <2>1. LentInv'
    BY <1>5 DEF PollConnect, Goto, PollFails, Opened, Unlock, Fresh, HandsInv,
       LentInv, NoOrphanLink, Lent, Opening, Dialling
  <2>2. NoOrphanLink'
    BY <1>5 DEF PollConnect, Goto, PollFails, Opened, Unlock, Fresh, HandsInv,
       LentInv, NoOrphanLink, Lent, Opening, Dialling
  <2> QED
    BY <2>1, <2>2
<1>6. ASSUME NEW p \in Polls, PollAuth(p) PROVE LentInv' /\ NoOrphanLink'
  <2>1. LentInv'
    BY <1>6 DEF PollAuth, Goto, Opened, Fresh, HandsInv, LentInv, NoOrphanLink,
       Lent, Opening, Dialling
  <2>2. NoOrphanLink'
    BY <1>6 DEF PollAuth, Goto, Opened, Fresh, HandsInv, LentInv, NoOrphanLink,
       Lent, Opening, Dialling
  <2> QED
    BY <2>1, <2>2
<1>7. ASSUME NEW p \in Polls, PollRead(p) PROVE LentInv' /\ NoOrphanLink'
  <2>1. LentInv'
    BY <1>7 DEF PollRead, Goto, PollParsed, Unlock, HandsInv, LentInv, NoOrphanLink,
       Lent, Opening, Dialling
  <2>2. NoOrphanLink'
    BY <1>7 DEF PollRead, Goto, PollParsed, Unlock, HandsInv, LentInv, NoOrphanLink,
       Lent, Opening, Dialling
  <2> QED
    BY <2>1, <2>2
<1>8. ASSUME NEW p \in Polls, PollSubscribe(p) PROVE LentInv' /\ NoOrphanLink'
  <2>1. LentInv'
    BY <1>8 DEF PollSubscribe, Goto, PollParsed, Unlock, HandsInv, LentInv,
       NoOrphanLink, Lent, Opening, Dialling
  <2>2. NoOrphanLink'
    BY <1>8 DEF PollSubscribe, Goto, PollParsed, Unlock, HandsInv, LentInv,
       NoOrphanLink, Lent, Opening, Dialling
  <2> QED
    BY <2>1, <2>2
<1>9. ASSUME NEW p \in Polls, PollClose(p) PROVE LentInv' /\ NoOrphanLink'
  <2>1. LentInv'
    BY <1>9 DEF PollClose, Goto, PollParsed, PollFails, Closed, Unlock, HandsInv,
       LentInv, NoOrphanLink, Lent, Opening, Dialling
  <2>2. NoOrphanLink'
    BY <1>9 DEF PollClose, Goto, PollParsed, PollFails, Closed, Unlock, HandsInv,
       LentInv, NoOrphanLink, Lent, Opening, Dialling
  <2> QED
    BY <2>1, <2>2
<1>10. ASSUME NEW u \in Users, OpStart(u) PROVE LentInv' /\ NoOrphanLink'
  <2>1. LentInv'
    BY <1>10 DEF OpStart, Goto, Setup, HandsInv, LentInv, NoOrphanLink, Lent,
       Opening, Dialling
  <2>2. NoOrphanLink'
    BY <1>10 DEF OpStart, Goto, Setup, HandsInv, LentInv, NoOrphanLink, Lent,
       Opening, Dialling
  <2> QED
    BY <2>1, <2>2
<1>11. ASSUME NEW u \in Users, OpAcquire(u) PROVE LentInv' /\ NoOrphanLink'
  <2>1. LentInv'
    BY <1>11 DEF OpAcquire, Begin, Goto, Held, HandsInv, LentInv, NoOrphanLink, Lent,
       Opening, Dialling
  <2>2. NoOrphanLink'
    BY <1>11 DEF OpAcquire, Begin, Goto, Held, HandsInv, LentInv, NoOrphanLink, Lent,
       Opening, Dialling
  <2> QED
    BY <2>1, <2>2
<1>12. ASSUME NEW u \in Users, OpConnect(u) PROVE LentInv' /\ NoOrphanLink'
  <2>1. LentInv'
    BY <1>12 DEF OpConnect, Goto, Opened, OpDone, Fresh, Unlock, HandsInv, LentInv,
       NoOrphanLink, Lent, Opening, Dialling
  <2>2. NoOrphanLink'
    BY <1>12 DEF OpConnect, Goto, Opened, OpDone, Fresh, Unlock, HandsInv, LentInv,
       NoOrphanLink, Lent, Opening, Dialling
  <2> QED
    BY <2>1, <2>2
<1>13. ASSUME NEW u \in Users, OpAuth(u) PROVE LentInv' /\ NoOrphanLink'
  <2>1. LentInv'
    BY <1>13 DEF OpAuth, Begin, Goto, HandsInv, LentInv, NoOrphanLink, Lent, Opening,
       Dialling
  <2>2. NoOrphanLink'
    BY <1>13 DEF OpAuth, Begin, Goto, HandsInv, LentInv, NoOrphanLink, Lent, Opening,
       Dialling
  <2> QED
    BY <2>1, <2>2
<1>14. ASSUME NEW u \in Users, OpListen(u) PROVE LentInv' /\ NoOrphanLink'
  <2>1. LentInv'
    BY <1>14 DEF OpListen, Goto, Mute, HandsInv, LentInv, NoOrphanLink, Lent,
       Opening, Dialling
  <2>2. NoOrphanLink'
    BY <1>14 DEF OpListen, Goto, Mute, HandsInv, LentInv, NoOrphanLink, Lent,
       Opening, Dialling
  <2> QED
    BY <2>1, <2>2
<1>15. ASSUME NEW u \in Users, OpWrite(u) PROVE LentInv' /\ NoOrphanLink'
  <2>1. LentInv'
    BY <1>15 DEF OpWrite, Goto, HandsInv, LentInv, NoOrphanLink, Lent, Opening,
       Dialling
  <2>2. NoOrphanLink'
    BY <1>15 DEF OpWrite, Goto, HandsInv, LentInv, NoOrphanLink, Lent, Opening,
       Dialling
  <2> QED
    BY <2>1, <2>2
<1>15a. ASSUME NEW u \in Users, OpAttend(u) PROVE LentInv' /\ NoOrphanLink'
  <2>1. LentInv'
    BY <1>15a DEF OpAttend, Goto, Mute, HandsInv, LentInv, NoOrphanLink, Lent, Opening,
       Dialling
  <2>2. NoOrphanLink'
    BY <1>15a DEF OpAttend, Goto, Mute, HandsInv, LentInv, NoOrphanLink, Lent, Opening,
       Dialling
  <2> QED
    BY <2>1, <2>2
<1>15b. ASSUME NEW u \in Users, OpWatched(u) PROVE LentInv' /\ NoOrphanLink'
  <2>1. LentInv'
    BY <1>15b DEF OpWatched, Goto, HandsInv, LentInv, NoOrphanLink, Lent, Opening,
       Dialling
  <2>2. NoOrphanLink'
    BY <1>15b DEF OpWatched, Goto, HandsInv, LentInv, NoOrphanLink, Lent, Opening,
       Dialling
  <2> QED
    BY <2>1, <2>2
<1>16. ASSUME NEW u \in Users, OpFinish(u) PROVE LentInv' /\ NoOrphanLink'
  <2>1. LentInv'
    BY <1>16 DEF OpFinish, Goto, OpDone, Unlock, HandsInv, LentInv, NoOrphanLink,
       Lent, Opening, Dialling
  <2>2. NoOrphanLink'
    BY <1>16 DEF OpFinish, Goto, OpDone, Unlock, HandsInv, LentInv, NoOrphanLink,
       Lent, Opening, Dialling
  <2> QED
    BY <2>1, <2>2
<1>17. ASSUME NEW u \in Users, OpClose(u) PROVE LentInv' /\ NoOrphanLink'
  <2>1. LentInv'
    BY <1>17 DEF OpClose, Closed, OpDone, Goto, Unlock, HandsInv, LentInv,
       NoOrphanLink, Lent, Opening, Dialling
  <2>2. NoOrphanLink'
    BY <1>17 DEF OpClose, Closed, OpDone, Goto, Unlock, HandsInv, LentInv,
       NoOrphanLink, Lent, Opening, Dialling
  <2> QED
    BY <2>1, <2>2
<1>18. CASE BrewPress
  <2>1. LentInv'
    BY <1>18 DEF BrewPress, Goto, Setup, Decide, HandsInv, LentInv, NoOrphanLink,
       Lent, Opening, Dialling
  <2>2. NoOrphanLink'
    BY <1>18 DEF BrewPress, Goto, Setup, Decide, HandsInv, LentInv, NoOrphanLink,
       Lent, Opening, Dialling
  <2> QED
    BY <2>1, <2>2
<1>19. CASE BrewWait
  <2>1. LentInv'
    BY <1>19 DEF BrewWait, Goto, Decide, HandsInv, LentInv, NoOrphanLink, Lent,
       Opening, Dialling
  <2>2. NoOrphanLink'
    BY <1>19 DEF BrewWait, Goto, Decide, HandsInv, LentInv, NoOrphanLink, Lent,
       Opening, Dialling
  <2> QED
    BY <2>1, <2>2
<1>20. CASE BrewRelease
  <2>1. LentInv'
    BY <1>20 DEF BrewRelease, Release, Goto, HandsInv, LentInv, NoOrphanLink, Lent,
       Opening, Dialling
  <2>2. NoOrphanLink'
    BY <1>20 DEF BrewRelease, Release, Goto, HandsInv, LentInv, NoOrphanLink, Lent,
       Opening, Dialling
  <2> QED
    BY <2>1, <2>2
<1>21. ASSUME NEW c \in Clients, FinishClose(c) PROVE LentInv' /\ NoOrphanLink'
  <2>1. LentInv'
    BY <1>21 DEF FinishClose, HandsInv, LentInv, NoOrphanLink, Lent, Opening,
       Dialling
  <2>2. NoOrphanLink'
    BY <1>21 DEF FinishClose, HandsInv, LentInv, NoOrphanLink, Lent, Opening,
       Dialling
  <2> QED
    BY <2>1, <2>2
<1>22. ASSUME NEW c \in Clients, LinkDrop(c) PROVE LentInv' /\ NoOrphanLink'
  <2>1. LentInv'
    BY <1>22 DEF LinkDrop, HandsInv, LentInv, NoOrphanLink, Lent, Opening, Dialling
  <2>2. NoOrphanLink'
    BY <1>22 DEF LinkDrop, HandsInv, LentInv, NoOrphanLink, Lent, Opening, Dialling
  <2> QED
    BY <2>1, <2>2
<1>23. CASE Unload
  <2>1. LentInv'
    BY <1>23 DEF Unload, Setup, HandsInv, LentInv, NoOrphanLink, Lent, Opening,
       Dialling
  <2>2. NoOrphanLink'
    BY <1>23 DEF Unload, Setup, HandsInv, LentInv, NoOrphanLink, Lent, Opening,
       Dialling
  <2> QED
    BY <2>1, <2>2
<1>24. CASE Unloaded
  <2>1. LentInv'
    BY <1>24 DEF Unloaded, HandsInv, LentInv, NoOrphanLink, Lent, Opening, Dialling
  <2>2. NoOrphanLink'
    BY <1>24 DEF Unloaded, HandsInv, LentInv, NoOrphanLink, Lent, Opening, Dialling
  <2> QED
    BY <2>1, <2>2
<1>25. CASE MachineGone
  <2>1. LentInv'
    BY <1>25 DEF MachineGone, Held, Setup, HandsInv, LentInv, NoOrphanLink, Lent,
       Opening, Dialling
  <2>2. NoOrphanLink'
    BY <1>25 DEF MachineGone, Held, Setup, HandsInv, LentInv, NoOrphanLink, Lent,
       Opening, Dialling
  <2> QED
    BY <2>1, <2>2
<1>26. CASE MachineBack
  <2>1. LentInv'
    BY <1>26 DEF MachineBack, HandsInv, LentInv, NoOrphanLink, Lent, Opening,
       Dialling
  <2>2. NoOrphanLink'
    BY <1>26 DEF MachineBack, HandsInv, LentInv, NoOrphanLink, Lent, Opening,
       Dialling
  <2> QED
    BY <2>1, <2>2
<1>27. CASE FastUpdate
  <2>1. LentInv'
    BY <1>27 DEF FastUpdate, Setup, HandsInv, LentInv, NoOrphanLink, Lent, Opening,
       Dialling
  <2>2. NoOrphanLink'
    BY <1>27 DEF FastUpdate, Setup, HandsInv, LentInv, NoOrphanLink, Lent, Opening,
       Dialling
  <2> QED
    BY <2>1, <2>2
<1>28. CASE UNCHANGED vars
  BY <1>28 DEF vars, LentInv, Lent, NoOrphanLink
<1> QED
  BY <1>1, <1>2, <1>3, <1>4, <1>5, <1>6, <1>7, <1>8, <1>9, <1>10, <1>11, <1>12,
     <1>13, <1>14, <1>15, <1>15a, <1>15b, <1>16, <1>17, <1>18, <1>19, <1>20, <1>21, <1>22, <1>23, <1>24,
     <1>25, <1>26, <1>27, <1>28
     DEF Next, PollStep, OpStep

(* Without cancellations the whole invariant holds for ever. *)
LEMMA Inductive == Spec => []IInv
  BY InitIInv, StepIInv, PTL DEF Spec

-----------------------------------------------------------------------------
(* Every variable keeps its type. *)
THEOREM TypeCorrect == Spec => []TypeOK
<1>1. IInv => TypeOK
  BY DEF IInv, CoreInv
<1> QED
  BY <1>1, Inductive, PTL

(* Mutual exclusion of polls, operations and the brew command (_ble_lock). *)
THEOREM LockIsExclusive == Spec => []OneHolder
<1>1. IInv => OneHolder
  BY DEF IInv, CoreInv
<1> QED
  BY <1>1, Inductive, PTL

(* Every open connection is somebody's: on no path is one lost track of. *)
THEOREM NoLinkIsLost == Spec => []NoOrphanLink
<1>1. IInv => NoOrphanLink
  BY DEF IInv, CoreInv
<1> QED
  BY <1>1, Inductive, PTL

(* Two live links would be in two hands, and there is one lock. *)
LEMMA IInvOneLiveLink == IInv => OneLiveLink
<1> SUFFICES ASSUME IInv, NEW c \in up \ closing, NEW d \in up \ closing PROVE c = d
  BY DEF OneLiveLink
<1> USE DEF IInv, CoreInv, TypeOK, OneHolder, NoOrphanLink
<1>1. CASE c = client /\ d = client
  BY <1>1
<1>2. CASE c # client \/ d # client
  <2>1. PICK t \in Tasks : lock = t /\ ((c = cl[t] /\ c # client) \/ (d = cl[t] /\ d # client))
    BY <1>2
  <2>2. pc[t] \in Holding
    BY <2>1
  <2>3. client \notin up
    BY <2>1, <2>2, TasksAssumption
       DEF HandsInv, LentInv, Lent, Opening, Holding, PollPcs, OpPcs,
          Body, Session, Command, Watch, Tasks, Users
  <2> QED
    BY <2>1, <2>3
<1> QED
  BY <1>1, <1>2

(* The machine is never offered a second link beside a live one. *)
THEOREM MachineSeesOneLink == Spec => []OneLiveLink
  BY IInvOneLiveLink, Inductive, PTL

(* Without persistent mode a kept link means a brew is pending. *)
THEOREM KeptLinkIsForABrew == Spec => []KeptOnlyForBrew
<1>1. IInv => KeptOnlyForBrew
  BY DEF IInv, CoreInv, KeepInv, KeptOnlyForBrew
<1> QED
  BY <1>1, Inductive, PTL

(* Without persistent mode an unloaded entry leaves the machine free. *)
THEOREM UnloadFreesTheMachine ==
  ASSUME ~Persistent
  PROVE  Spec => []FreeAfterUnload
<1>1. IInv => FreeAfterUnload
  <2> SUFFICES ASSUME IInv, \A t \in Tasks : pc[t] = "idle" PROVE up \subseteq closing
    BY DEF FreeAfterUnload
  <2>1. \A t \in Tasks : lock # t
    BY DEF IInv, CoreInv, OneHolder, Holding, PollPcs, OpPcs, Body, Session, Command, Watch
  <2>2. client = None
    BY DEF IInv, CoreInv, KeepInv, Tasks, Users
  <2> QED
    BY <2>1, <2>2, TasksAssumption DEF IInv, CoreInv, TypeOK, NoOrphanLink
<1> QED
  BY <1>1, Inductive, PTL

(* Unavailability by a lost advertisement never contradicts a live link. *)
THEOREM GoneIsNeverWrong == Spec => GoneOnlyWhenUnused
<1>1. IInv /\ [Next]_vars =>
        [success /\ ~success' =>
           \/ \E p \in Polls : pc[p] # pc'[p]
           \/ lock = None /\ up \subseteq closing]_vars
  <2> SUFFICES ASSUME IInv, Next, success, ~success', \A p \in Polls : pc[p] = pc'[p]
               PROVE lock = None /\ up \subseteq closing
    BY DEF vars
  <2>1. CASE MachineGone
    BY <2>1, TasksAssumption DEF MachineGone, Held, IInv, CoreInv, TypeOK, NoOrphanLink
  <2>2. CASE \E p \in Polls : PollStart(p) \/ PollAcquire(p) \/ PollStep(p)
    <3>1. PICK p \in Polls : PollStart(p) \/ PollAcquire(p) \/ PollStep(p)
      BY <2>2
    <3>2. pc \in [Tasks -> {"idle", "queued"} \cup Holding \cup BrewPcs]
      BY DEF IInv, CoreInv, TypeOK
    <3> QED
      BY <3>1, <3>2
         DEF PollStart, PollAcquire, PollStep, PollHeldRead, PollStaleClosed, PollConnect,
             PollAuth, PollRead, PollSubscribe, PollClose, Goto, PollFails, PollParsed,
             LookUp, DropStale, Opened, Tasks
  <2>3. CASE \E u \in Users : OpStart(u) \/ OpAcquire(u) \/ OpStep(u)
    BY <2>3 DEF OpStart, OpAcquire, OpStep, OpConnect, OpAuth, OpListen, OpWrite, OpAttend,
                OpWatched, OpFinish, OpClose
  <2>4. CASE BrewPress \/ BrewWait \/ BrewRelease
    BY <2>4 DEF BrewPress, BrewWait, BrewRelease, Release
  <2>5. CASE \E c \in Clients : FinishClose(c) \/ LinkDrop(c)
    BY <2>5 DEF FinishClose, LinkDrop
  <2>6. CASE Unload \/ Unloaded \/ MachineBack \/ FastUpdate
    BY <2>6 DEF Unload, Unloaded, MachineBack, FastUpdate
  <2> QED
    BY <2>1, <2>2, <2>3, <2>4, <2>5, <2>6 DEF Next
<1> QED
  BY <1>1, Inductive, PTL DEF Spec, GoneOnlyWhenUnused

(* A link the coordinator keeps in persistent mode stays subscribed. *)
LEMMA HeardStep == CoreInv /\ NeverDeaf /\ [Next]_vars => NeverDeaf'
<1> USE DEF NeverDeaf, Held
<1> SUFFICES ASSUME CoreInv, NeverDeaf, Persistent, [Next]_vars, client' # None, client' \in up'
             PROVE client' \in fed'
  OBVIOUS
<1> USE DEF CoreInv, TypeOK, OneHolder, HandsInv
<1>1. ASSUME NEW p \in Polls, PollStart(p) \/ PollAcquire(p) \/ PollStep(p)
      PROVE client' \in fed'
  <2>1. CASE PollStart(p) \/ PollAcquire(p) \/ PollHeldRead(p) \/ PollSubscribe(p)
    BY <2>1 DEF PollStart, PollAcquire, PollHeldRead, DropStale, PollSubscribe
  <2>2. CASE PollStaleClosed(p) \/ PollConnect(p) \/ PollAuth(p) \/ PollRead(p) \/ PollClose(p)
    <3>1. client = None
      BY <2>2 DEF PollStaleClosed, PollConnect, PollAuth, PollRead, PollClose, Opening, PollPcs
    <3> QED
      BY <2>2, <3>1 DEF PollStaleClosed, PollConnect, PollAuth, PollRead, PollClose
  <2> QED
    BY <1>1, <2>1, <2>2 DEF PollStep
<1>2. ASSUME NEW u \in Users, OpStart(u) \/ OpAcquire(u) \/ OpStep(u)
      PROVE client' \in fed'
  <2>1. CASE OpStart(u) \/ OpAcquire(u) \/ OpAuth(u) \/ OpWrite(u) \/ OpWatched(u) \/ OpFinish(u)
    BY <2>1 DEF OpStart, OpAcquire, OpAuth, OpWrite, OpWatched, OpFinish
  <2>2. CASE OpConnect(u)
    BY <2>2 DEF OpConnect, Opened, Fresh
  <2>3. CASE OpListen(u) \/ OpAttend(u)
    BY <2>3 DEF OpListen, OpAttend, Mute, PollHears
  <2>4. CASE OpClose(u)
    BY <2>4 DEF OpClose, Closed
  <2> QED
    BY <1>2, <2>1, <2>2, <2>3, <2>4 DEF OpStep
<1>3. CASE BrewPress \/ BrewWait \/ BrewRelease
  BY <1>3 DEF BrewPress, BrewWait, BrewRelease, Release
<1>4. CASE \E c \in Clients : FinishClose(c) \/ LinkDrop(c)
  BY <1>4 DEF FinishClose, LinkDrop
<1>5. CASE Unload
  BY <1>5 DEF Unload
<1>6. CASE Unloaded \/ MachineGone \/ MachineBack \/ FastUpdate \/ UNCHANGED vars
  <2>1. UNCHANGED <<client, up, fed>>
    BY <1>6 DEF Unloaded, MachineGone, MachineBack, FastUpdate, vars
  <2> QED
    BY <2>1
<1> QED
  BY <1>1, <1>2, <1>3, <1>4, <1>5, <1>6 DEF Next

(* The notifications of a persistent link reach the coordinator for as long  *)
(* as the link is up, whatever operations run on it in between.              *)
THEOREM PersistentLinkIsHeard == Spec => []NeverDeaf
<1>1. Init => NeverDeaf
  BY DEF Init, NeverDeaf, Held
<1>2. IInv => CoreInv
  BY DEF IInv
<1> QED
  BY <1>1, <1>2, HeardStep, Inductive, PTL DEF Spec

(* Until a press has written its command it has written none. *)
BeforeWrite == {"wake", "warm", "queued", "dial", "redial", "opauth", "use", "listen"}
WriteInv == OneCommandPerPress /\ (pc[Brew] \in BeforeWrite => writes = 0)

(* Every way to the write of a press starts from a press, which resets it. *)
LEMMA WriteStep == CoreInv /\ WriteInv /\ [Next]_vars => WriteInv'
<1> USE DEF OneCommandPerPress, WriteInv
<1> SUFFICES ASSUME CoreInv, WriteInv, [Next]_vars PROVE WriteInv'
  OBVIOUS
<1> USE TasksAssumption DEF CoreInv, TypeOK, BeforeWrite, Goto, Tasks, Users
<1>1. ASSUME NEW p \in Polls, PollStart(p) \/ PollAcquire(p) \/ PollStep(p)
      PROVE WriteInv'
  <2>1. pc'[Brew] = pc[Brew] /\ UNCHANGED writes
    BY <1>1
       DEF PollStart, PollAcquire, PollStep, PollHeldRead, PollStaleClosed, PollConnect,
           PollAuth, PollRead, PollSubscribe, PollClose, PollFails, PollParsed,
           LookUp, DropStale, Opened
  <2> QED
    BY <2>1
<1>2. ASSUME NEW u \in Users, OpWrite(u)
      PROVE WriteInv'
  BY <1>2 DEF OpWrite
<1>3. ASSUME NEW u \in Users,
             OpStart(u) \/ OpAcquire(u) \/ OpConnect(u) \/ OpAuth(u) \/ OpListen(u)
               \/ OpAttend(u) \/ OpWatched(u) \/ OpFinish(u) \/ OpClose(u)
      PROVE WriteInv'
  BY <1>3 DEF OpStart, OpAcquire, OpConnect, OpAuth, Begin, OpListen, OpAttend, OpWatched, OpFinish,
              OpClose, OpDone, Opened, Body, Session, Command, Watch
<1>4. CASE BrewPress \/ BrewWait \/ BrewRelease
  BY <1>4 DEF BrewPress, BrewWait, BrewRelease, Release, Decide
<1>5. CASE \E c \in Clients : FinishClose(c) \/ LinkDrop(c)
  BY <1>5 DEF FinishClose, LinkDrop
<1>6. CASE Unload \/ Unloaded \/ MachineGone \/ MachineBack \/ FastUpdate
  BY <1>6 DEF Unload, Unloaded, MachineGone, MachineBack, FastUpdate
<1>7. CASE UNCHANGED vars
  BY <1>7 DEF vars
<1> QED
  BY <1>1, <1>2, <1>3, <1>4, <1>5, <1>6, <1>7 DEF Next, OpStep

(* One press of the button writes its command at most once. *)
THEOREM CommandGoesOutOnce == Spec => []OneCommandPerPress
<1>1. Init => WriteInv
  BY TasksAssumption DEF Init, Tasks, Users, BeforeWrite, OneCommandPerPress, WriteInv
<1>2. IInv => CoreInv
  BY DEF IInv
<1>3. WriteInv => OneCommandPerPress
  BY DEF WriteInv
<1> QED
  BY <1>1, <1>2, <1>3, WriteStep, Inductive, PTL DEF Spec

-----------------------------------------------------------------------------
(* Coordinator implements MachineLink. *)

(* The one task in the lock is the one that uses the machine. *)
LEMMA UsingIsLock == IInv => Using = {lock} \ {None}
BY TasksAssumption DEF IInv, CoreInv, TypeOK, OneHolder, Using

(* A live link is the coordinator's or in the hands of the task in the lock,   *)
(* there is at most one, and none where a task is about to open the next.      *)
LEMMA LiveIsOurs ==
  IInv => /\ \A c, d \in Live : c = d
          /\ \A c \in Live : c = client \/ \E t \in Tasks : lock = t /\ cl[t] = c
          /\ \A t \in Tasks : pc[t] \in Dialling \cup {"authconnect"} => Live = {}
<1> SUFFICES ASSUME IInv
             PROVE  /\ \A c, d \in Live : c = d
                    /\ \A c \in Live : c = client \/ \E t \in Tasks : lock = t /\ cl[t] = c
                    /\ \A t \in Tasks : pc[t] \in Dialling \cup {"authconnect"} => Live = {}
  OBVIOUS
<1>1. \A c \in Live : c = client \/ \E t \in Tasks : lock = t /\ cl[t] = c
  BY DEF IInv, CoreInv, NoOrphanLink, Live
<1>2. \A c, d \in Live : c = d
  BY IInvOneLiveLink DEF OneLiveLink, Live
<1>3. ASSUME NEW t \in Tasks, pc[t] \in Dialling \cup {"authconnect"} PROVE Live = {}
  <2>1. lock = t
    BY <1>3 DEF IInv, CoreInv, OneHolder, Dialling, Holding, PollPcs, OpPcs, Body, Session, Command, Watch
  <2>2. client \notin up /\ cl[t] \notin up
    BY <1>3, TasksAssumption DEF IInv, CoreInv, TypeOK, HandsInv, LentInv, Dialling, Opening, PollPcs, OpPcs,
       Body, Session, Command, Watch, Tasks, Users
  <2> QED
    BY <1>1, <2>1, <2>2 DEF Live
<1> QED
  BY <1>1, <1>2, <1>3

LinkStep == Link!LinkNext \/ UNCHANGED Link!linkVars

(* What a step does to the lock and the links decides which step it is there. *)
LEMMA LinkRules ==
  ASSUME IInv, IInv'
  PROVE  /\ UNCHANGED <<lock, Live, Kept, Dying>> => LinkStep
         /\ lock = None /\ lock' # None /\ UNCHANGED <<Live, Kept, Dying>> => LinkStep
         /\ lock # None /\ lock' = None /\ (Live = {} \/ Kept)
              /\ UNCHANGED <<Live, Kept, Dying>> => LinkStep
         /\ lock # None /\ lock' = None /\ Kept' /\ UNCHANGED <<Live, Dying>> => LinkStep
         /\ lock # None /\ lock' = lock /\ Kept /\ ~Kept'
              /\ UNCHANGED <<Live, Dying>> => LinkStep
         /\ \A c \in Clients \ Dying :
              lock # None /\ lock' = lock /\ Live = {} /\ Live' = {c}
                /\ UNCHANGED <<Kept, Dying>> => LinkStep
         /\ lock # None /\ lock' \in {lock, None} /\ Live' = {} /\ ~Kept'
              /\ Dying' \subseteq Dying => LinkStep
         /\ lock' = lock /\ Live' \subseteq Live /\ Dying' \subseteq Dying
              /\ (Kept' <=> Kept /\ Live' # {}) => LinkStep
         /\ lock' = lock /\ Kept /\ ~Kept' /\ Live' = {} /\ Dying' = Dying \cup Live => LinkStep
<1>1. Using = {lock} \ {None} /\ Using' = {lock'} \ {None}
  <2>1. (IInv => Using = {lock} \ {None})'
    BY UsingIsLock, PTL
  <2> QED
    BY <2>1, UsingIsLock
<1>2. lock' \in Tasks \cup {None} /\ lock \in Tasks \cup {None} /\ None \notin Tasks
  BY TasksAssumption DEF IInv, CoreInv, TypeOK
<1>3. Kept \in BOOLEAN /\ Kept' \in BOOLEAN
  BY DEF Kept
<1>4. Kept' => Live' # {}
  BY DEF Kept
<1> USE DEF LinkStep, Link!LinkNext, Link!linkVars
<1>5. ASSUME lock' = lock, UNCHANGED <<Live, Kept, Dying>> PROVE LinkStep
  BY <1>1, <1>5
<1>6. ASSUME lock = None, lock' # None, UNCHANGED <<Live, Kept, Dying>> PROVE LinkStep
  BY <1>1, <1>2, <1>6 DEF Link!Take
<1>7. ASSUME lock # None, lock' = None, Live = {} \/ Kept, UNCHANGED <<Live, Kept, Dying>>
      PROVE  LinkStep
  BY <1>1, <1>2, <1>7 DEF Link!Leave
<1>8. ASSUME lock # None, lock' = None, Kept', UNCHANGED <<Live, Dying>> PROVE LinkStep
  <2>1. Live # {} /\ Kept' = TRUE
    BY <1>3, <1>4, <1>8
  <2> QED
    BY <1>1, <1>2, <1>8, <2>1 DEF Link!Keep
<1>9. ASSUME lock # None, lock' = lock, Kept, ~Kept', UNCHANGED <<Live, Dying>> PROVE LinkStep
  <2>1. Kept' = FALSE
    BY <1>3, <1>9
  <2> QED
    BY <1>1, <1>2, <1>9, <2>1 DEF Link!Claim
<1>10. ASSUME NEW c \in Clients \ Dying,
              lock # None, lock' = lock, Live = {}, Live' = {c}, UNCHANGED <<Kept, Dying>>
       PROVE  LinkStep
  BY <1>1, <1>2, <1>10 DEF Link!Open
<1>11. ASSUME lock # None, lock' \in {lock, None}, Live' = {}, ~Kept', Dying' \subseteq Dying
       PROVE  LinkStep
  <2>1. Kept' = FALSE
    BY <1>3, <1>11
  <2> QED
    BY <1>1, <1>2, <1>11, <2>1 DEF Link!Close
<1>12. ASSUME lock' = lock, Live' \subseteq Live, Dying' \subseteq Dying,
              Kept' <=> Kept /\ Live' # {}
       PROVE  LinkStep
  <2>1. Kept' = (Kept /\ Live' # {})
    BY <1>3, <1>12
  <2> QED
    BY <1>1, <1>12, <2>1 DEF Link!Ends
<1>13. ASSUME lock' = lock, Kept, ~Kept', Live' = {}, Dying' = Dying \cup Live PROVE LinkStep
  <2>1. Kept' = FALSE
    BY <1>3, <1>13
  <2> QED
    BY <1>1, <1>13, <2>1 DEF Link!GiveUp
<1> QED
  BY <1>5, <1>6, <1>7, <1>8, <1>9, <1>10, <1>11, <1>12, <1>13 DEF LinkStep

(* Every step of the coordinator is a step of MachineLink, or none of them. *)
LEMMA StepImplementsLink == IInv /\ [Next]_vars => [Link!LinkNext]_(Link!linkVars)
<1> SUFFICES ASSUME IInv, [Next]_vars PROVE LinkStep
  BY DEF LinkStep
<1>a. IInv'
  BY StepIInv
<1>b. \A c \in up : c \in closing \/ c = client \/ \E t \in Tasks : lock = t /\ cl[t] = c
  BY DEF IInv, CoreInv, NoOrphanLink
<1>c. None \notin Clients
  BY TasksAssumption
<1> USE DEF Live, Kept, Dying
<1>1. ASSUME NEW p \in Polls, PollStart(p) PROVE LinkStep
  BY <1>1, <1>a, LinkRules, LiveIsOurs, TasksAssumption
     DEF PollStart, IInv, CoreInv, TypeOK, OneHolder
<1>2. ASSUME NEW p \in Polls, PollAcquire(p) PROVE LinkStep
  <2>1. lock = None /\ lock' \in {None, p} /\ UNCHANGED <<up, closing>>
    BY <1>2 DEF PollAcquire, DropStale, LookUp, PollFails, Unlock
  <2>2. UNCHANGED client \/ (client \notin up /\ client' = None)
    BY <1>2 DEF PollAcquire, DropStale, Held, IInv, CoreInv, TypeOK
  <2>3. UNCHANGED <<Live, Kept, Dying>>
    BY <1>c, <2>1, <2>2 DEF IInv, CoreInv, TypeOK
  <2> QED
    BY <1>a, <2>1, <2>3, LinkRules
<1>3. ASSUME NEW p \in Polls, PollHeldRead(p) PROVE LinkStep
  <2>1. lock = p /\ lock # None /\ UNCHANGED <<up, closing, Live, Dying>>
    BY <1>3, TasksAssumption DEF PollHeldRead, IInv, CoreInv, OneHolder, Holding, PollPcs, Tasks
  <2>2. Lent(p)
    BY <1>3 DEF PollHeldRead, IInv, CoreInv, HandsInv, LentInv
  <2>3. Live = {} \/ Kept
    BY <1>b, <2>1, <2>2 DEF Lent
  <2>4. CASE UNCHANGED client /\ lock' = None
    BY <1>a, <2>1, <2>3, <2>4, LinkRules
  <2>5. CASE client' = None /\ lock' = p
    BY <1>a, <1>c, <2>1, <2>5, LinkRules DEF IInv, CoreInv, TypeOK
  <2>6. CASE client = None /\ UNCHANGED client /\ lock' = p
    BY <1>a, <2>1, <2>6, LinkRules
  <2> QED
    BY <1>3, <2>1, <2>4, <2>5, <2>6
       DEF PollHeldRead, PollParsed, DropStale, LookUp, PollFails, Unlock
<1>4. ASSUME NEW p \in Polls, PollStaleClosed(p) PROVE LinkStep
  <2>1. lock = p /\ lock # None /\ client = None
    BY <1>4, TasksAssumption
       DEF PollStaleClosed, IInv, CoreInv, OneHolder, HandsInv, LentInv, Opening, Holding, PollPcs, Tasks
  <2>2. up' = up \ {cl[p]} /\ UNCHANGED <<client, closing>> /\ lock' \in {p, None}
    BY <1>4 DEF PollStaleClosed, Closed, LookUp, PollFails, Unlock
  <2>3. Live' = {} /\ ~Kept' /\ Dying' \subseteq Dying
    BY <1>b, <1>c, <2>1, <2>2 DEF IInv, CoreInv, TypeOK
  <2> QED
    BY <1>a, <2>1, <2>2, <2>3, LinkRules
<1>5. ASSUME NEW p \in Polls, PollConnect(p) PROVE LinkStep
  <2>1. lock = p /\ lock # None /\ client = None /\ Live = {}
    BY <1>5, LiveIsOurs, TasksAssumption
       DEF PollConnect, IInv, CoreInv, OneHolder, HandsInv, LentInv, Opening, Dialling, Holding, PollPcs, Tasks
  <2>2. UNCHANGED <<client, closing>>
    BY <1>5 DEF PollConnect
  <2>3. CASE Opened(p, "auth") /\ UNCHANGED lock
    <3>1. PICK c \in Clients : c \notin up /\ c \notin closing /\ up' = up \cup {c}
      BY <2>3 DEF Opened, Fresh
    <3>2. c \notin Dying /\ Live' = {c} /\ UNCHANGED <<Kept, Dying>>
      BY <1>c, <2>1, <2>2, <3>1
    <3> QED
      BY <1>a, <2>1, <2>3, <3>2, LinkRules
  <2>4. CASE UNCHANGED up /\ lock' \in {lock, None}
    BY <1>a, <2>1, <2>2, <2>4, LinkRules
  <2> QED
    BY <1>5, <2>3, <2>4 DEF PollConnect, PollFails, Unlock
<1>6. ASSUME NEW p \in Polls, PollAuth(p) PROVE LinkStep
  <2>1. lock = p /\ lock # None /\ client = None
    BY <1>6, TasksAssumption
       DEF PollAuth, IInv, CoreInv, OneHolder, HandsInv, LentInv, Opening, Holding, PollPcs, Tasks
  <2>2. UNCHANGED <<client, closing, lock>>
    BY <1>6 DEF PollAuth
  <2>3. CASE Opened(p, "auth2") /\ pc[p] = "authconnect"
    <3>1. Live = {}
      BY <2>3, LiveIsOurs DEF Tasks
    <3>2. PICK c \in Clients : c \notin up /\ c \notin closing /\ up' = up \cup {c}
      BY <2>3 DEF Opened, Fresh
    <3>3. c \notin Dying /\ Live' = {c} /\ UNCHANGED <<Kept, Dying>>
      BY <1>c, <2>1, <2>2, <3>1, <3>2
    <3> QED
      BY <1>a, <2>1, <2>2, <3>1, <3>3, LinkRules
  <2>4. CASE UNCHANGED up
    BY <1>a, <2>2, <2>4, LinkRules
  <2>5. CASE up' = up \ {cl[p]}
    <3>1. Live' \subseteq Live /\ Dying' \subseteq Dying /\ (Kept' <=> Kept /\ Live' # {})
      BY <1>c, <2>1, <2>2, <2>5 DEF IInv, CoreInv, TypeOK
    <3> QED
      BY <1>a, <2>2, <3>1, LinkRules
  <2> QED
    BY <1>6, <2>3, <2>4, <2>5 DEF PollAuth
<1>7. ASSUME NEW p \in Polls, PollRead(p) PROVE LinkStep
  <2>1. lock = p /\ lock # None /\ client = None /\ UNCHANGED <<up, closing, Live, Dying>>
    BY <1>7, TasksAssumption
       DEF PollRead, IInv, CoreInv, OneHolder, HandsInv, LentInv, Opening, Holding, PollPcs, Tasks
  <2>2. CASE cl[p] \in up /\ client' = cl[p] /\ lock' = None
    <3>1. CASE cl[p] \in closing
      <4>1. Live = {} /\ UNCHANGED Kept
        BY <1>b, <1>c, <2>1, <2>2, <3>1 DEF IInv, CoreInv, TypeOK
      <4> QED
        BY <1>a, <2>1, <2>2, <4>1, LinkRules
    <3>2. CASE cl[p] \notin closing
      BY <1>a, <2>1, <2>2, <3>2, LinkRules
    <3> QED
      BY <3>1, <3>2
  <2>3. CASE UNCHANGED <<client, lock>>
    BY <1>a, <2>1, <2>3, LinkRules
  <2> QED
    BY <1>7, <2>2, <2>3 DEF PollRead, PollParsed, Unlock
<1>8. ASSUME NEW p \in Polls, PollSubscribe(p) PROVE LinkStep
  <2>1. lock = p /\ lock # None /\ client = None /\ UNCHANGED <<up, closing, Live, Dying>>
    BY <1>8, TasksAssumption
       DEF PollSubscribe, IInv, CoreInv, OneHolder, HandsInv, LentInv, Opening, Holding, PollPcs, Tasks
  <2>2. CASE cl[p] \in up /\ client' = cl[p] /\ lock' = None
    <3>1. CASE cl[p] \in closing
      <4>1. Live = {} /\ UNCHANGED Kept
        BY <1>b, <1>c, <2>1, <2>2, <3>1 DEF IInv, CoreInv, TypeOK
      <4> QED
        BY <1>a, <2>1, <2>2, <4>1, LinkRules
    <3>2. CASE cl[p] \notin closing
      BY <1>a, <2>1, <2>2, <3>2, LinkRules
    <3> QED
      BY <3>1, <3>2
  <2>3. CASE UNCHANGED <<client, lock>>
    BY <1>a, <2>1, <2>3, LinkRules
  <2> QED
    BY <1>8, <2>2, <2>3 DEF PollSubscribe, PollParsed, Unlock
<1>9. ASSUME NEW p \in Polls, PollClose(p) PROVE LinkStep
  <2>1. lock = p /\ lock # None /\ client = None
    BY <1>9, TasksAssumption
       DEF PollClose, IInv, CoreInv, OneHolder, HandsInv, LentInv, Opening, Holding, PollPcs, Tasks
  <2>2. up' = up \ {cl[p]} /\ UNCHANGED <<client, closing>> /\ lock' \in {p, None}
    BY <1>9, <2>1 DEF PollClose, Closed, PollParsed, PollFails, Unlock
  <2>3. Live' = {} /\ ~Kept' /\ Dying' \subseteq Dying
    BY <1>b, <1>c, <2>1, <2>2 DEF IInv, CoreInv, TypeOK
  <2> QED
    BY <1>a, <2>1, <2>2, <2>3, LinkRules
<1>10. ASSUME NEW u \in Users, OpStart(u) PROVE LinkStep
  BY <1>10, <1>a, LinkRules, LiveIsOurs, TasksAssumption
     DEF OpStart, IInv, CoreInv, TypeOK, OneHolder
<1>11. ASSUME NEW u \in Users, OpAcquire(u) PROVE LinkStep
  BY <1>11, <1>a, LinkRules, LiveIsOurs, TasksAssumption
     DEF OpAcquire, IInv, CoreInv, TypeOK, OneHolder
<1>12. ASSUME NEW u \in Users, OpConnect(u) PROVE LinkStep
  <2>1. lock = u /\ lock # None /\ client \notin up /\ Live = {}
    BY <1>12, LiveIsOurs, TasksAssumption
       DEF OpConnect, IInv, CoreInv, OneHolder, HandsInv, LentInv, Dialling, Holding, OpPcs,
          Body, Session, Command, Watch, Tasks
  <2>2. UNCHANGED <<client, closing>>
    BY <1>12 DEF OpConnect
  <2>3. CASE seen /\ Opened(u, "opauth") /\ UNCHANGED lock
    <3>1. PICK c \in Clients :
            c \notin up /\ c \notin closing /\ c # client /\ up' = up \cup {c}
      BY <2>3 DEF Opened, Fresh
    <3>2. c \notin Dying /\ Live' = {c} /\ UNCHANGED <<Kept, Dying>>
      BY <2>1, <2>2, <3>1
    <3> QED
      BY <1>a, <2>1, <2>3, <3>2, LinkRules
  <2>4. CASE UNCHANGED up /\ lock' \in {lock, None}
    BY <1>a, <2>1, <2>2, <2>4, LinkRules
  <2> QED
    BY <1>12, <2>3, <2>4 DEF OpConnect, OpDone, Unlock
<1>13. ASSUME NEW u \in Users, OpAuth(u) PROVE LinkStep
  BY <1>13, <1>a, LinkRules, LiveIsOurs, TasksAssumption
     DEF OpAuth, IInv, CoreInv, TypeOK, OneHolder
<1>14. ASSUME NEW u \in Users, OpListen(u) PROVE LinkStep
  BY <1>14, <1>a, LinkRules, LiveIsOurs, TasksAssumption
     DEF OpListen, IInv, CoreInv, TypeOK, OneHolder
<1>15. ASSUME NEW u \in Users, OpWrite(u) PROVE LinkStep
  BY <1>15, <1>a, LinkRules, LiveIsOurs, TasksAssumption
     DEF OpWrite, IInv, CoreInv, TypeOK, OneHolder
<1>15a. ASSUME NEW u \in Users, OpAttend(u) \/ OpWatched(u) PROVE LinkStep
  BY <1>15a, <1>a, LinkRules, LiveIsOurs, TasksAssumption
     DEF OpAttend, OpWatched, IInv, CoreInv, TypeOK, OneHolder
<1>16. ASSUME NEW u \in Users, OpFinish(u) PROVE LinkStep
  <2>1. pc[u] \in Body /\ pc[u] \in Holding /\ lock = u
    BY <1>16 DEF OpFinish, Body, Watch, OpPcs, Holding, IInv, CoreInv, OneHolder, Tasks
  <2> QED
    BY <1>16, <1>a, <2>1, LinkRules, LiveIsOurs, TasksAssumption
       DEF OpFinish, OpDone, Unlock, HandsInv, LentInv, Lent, IInv, CoreInv, TypeOK
<1>17. ASSUME NEW u \in Users, OpClose(u) PROVE LinkStep
  <2>1. lock = u /\ lock # None /\ client \notin up
    BY <1>17, TasksAssumption
       DEF OpClose, IInv, CoreInv, OneHolder, HandsInv, LentInv, Holding, OpPcs,
          Body, Session, Command, Watch, Tasks
  <2>2. up' = up \ {cl[u]} /\ UNCHANGED <<client, closing>> /\ lock' = None
    BY <1>17 DEF OpClose, Closed, OpDone, Unlock
  <2>3. Live' = {} /\ ~Kept' /\ Dying' \subseteq Dying
    BY <1>b, <2>1, <2>2 DEF IInv, CoreInv, TypeOK
  <2> QED
    BY <1>a, <2>1, <2>2, <2>3, LinkRules
<1>18. CASE BrewPress
  BY <1>18, <1>a, LinkRules, LiveIsOurs, TasksAssumption DEF BrewPress, IInv, CoreInv, TypeOK
<1>19. CASE BrewWait
  BY <1>19, <1>a, LinkRules, LiveIsOurs, TasksAssumption DEF BrewWait, IInv, CoreInv, TypeOK
<1>20. CASE BrewRelease
  BY <1>20, <1>a, LinkRules, LiveIsOurs, TasksAssumption DEF BrewRelease, Release, IInv, CoreInv, TypeOK
<1>21. ASSUME NEW c \in Clients, FinishClose(c) PROVE LinkStep
  BY <1>21, <1>a, LinkRules DEF FinishClose
<1>22. ASSUME NEW c \in Clients, LinkDrop(c) PROVE LinkStep
  <2>1. Live' \subseteq Live /\ Dying' \subseteq Dying /\ UNCHANGED lock
    BY <1>22 DEF LinkDrop
  <2>2. Kept' <=> Kept /\ Live' # {}
    BY <1>22, LiveIsOurs DEF LinkDrop
  <2> QED
    BY <1>a, <2>1, <2>2, LinkRules
<1>23. CASE Unload
  BY <1>23, <1>a, LinkRules, LiveIsOurs, TasksAssumption DEF Unload, IInv, CoreInv, TypeOK
<1>24. CASE Unloaded
  BY <1>24, <1>a, LinkRules, LiveIsOurs, TasksAssumption DEF Unloaded, IInv, CoreInv, TypeOK
<1>25. CASE MachineGone
  BY <1>25, <1>a, LinkRules, LiveIsOurs, TasksAssumption DEF MachineGone, IInv, CoreInv, TypeOK
<1>26. CASE MachineBack
  BY <1>26, <1>a, LinkRules, LiveIsOurs, TasksAssumption DEF MachineBack, IInv, CoreInv, TypeOK
<1>27. CASE FastUpdate
  BY <1>27, <1>a, LinkRules, LiveIsOurs, TasksAssumption DEF FastUpdate, IInv, CoreInv, TypeOK
<1>28. CASE UNCHANGED vars
  BY <1>28, <1>a, LinkRules DEF vars
<1> QED
  BY <1>1, <1>2, <1>3, <1>4, <1>5, <1>6, <1>7, <1>8, <1>9, <1>10, <1>11, <1>12, <1>13,
     <1>14, <1>15, <1>15a, <1>16, <1>17, <1>18, <1>19, <1>20, <1>21, <1>22, <1>23, <1>24, <1>25,
     <1>26, <1>27, <1>28 DEF Next, PollStep, OpStep

(* "Only one BLE client can connect at a time": the polls, operations, the      *)
(* button, unloads and lost links of coordinator.py together do to the machine  *)
(* only what MachineLink allows, for any number of tasks and clients.           *)
THEOREM ImplementsMachineLink == Spec => KeepsMachineLink
<1>1. Init => Link!LinkInit
  BY TasksAssumption DEF Init, Link!LinkInit, Using, Live, Kept, Dying, Holding, PollPcs, OpPcs,
     Body, Session, Command, Watch
<1> QED
  BY <1>1, StepImplementsLink, Inductive, PTL DEF Spec, KeepsMachineLink, Link!LinkSpec

-----------------------------------------------------------------------------
(* Links in use *)

(* The link a user opened itself is never the one the coordinator keeps, so   *)
(* neither a release nor an unload, which close that one without the lock,    *)
(* can take it.                                                               *)
OwnLinkUntouched ==
    \A u \in own : cl[u] # None /\ cl[u] # client /\ cl[u] \notin closing

(* A user with a link of its own is the one in the lock. *)
LEMMA OwnerHoldsLock ==
    ASSUME IInv
    PROVE  /\ \A u \in own : lock = u
           /\ lock = None => own = {}
           /\ \A p \in Polls : lock = p => own = {}
BY TasksAssumption DEF IInv, CoreInv, HandsInv, LentInv, TypeOK, Tasks, Users

(* Whoever closes a link without the lock closes the one that is kept. *)
LEMMA OwnLinkStep == IInv /\ OwnLinkUntouched /\ [Next]_vars => OwnLinkUntouched'
<1> SUFFICES ASSUME IInv, OwnLinkUntouched, [Next]_vars PROVE OwnLinkUntouched'
  OBVIOUS
<1>t. /\ own \subseteq Users /\ cl \in [Tasks -> Clients \cup {None}]
      /\ Users \subseteq Tasks /\ None \notin Clients
  BY TasksAssumption DEF IInv, CoreInv, TypeOK, Tasks
<1>0. ASSUME own' = {} PROVE OwnLinkUntouched'
  BY <1>0 DEF OwnLinkUntouched
<1>q. ASSUME UNCHANGED <<own, cl, client, closing>> PROVE OwnLinkUntouched'
  BY <1>q DEF OwnLinkUntouched
<1>1. ASSUME NEW p \in Polls, PollAcquire(p) \/ PollStep(p) PROVE OwnLinkUntouched'
  <2>1. own' = own
    BY ONLY <1>1 DEF PollAcquire, PollStep, PollHeldRead, PollStaleClosed, PollConnect, PollAuth, PollRead,
       PollSubscribe, PollClose
  <2>2. lock = None \/ pc[p] \in Holding
    BY ONLY <1>1 DEF PollAcquire, PollStep, PollHeldRead, PollStaleClosed, PollConnect, PollAuth, PollRead,
       PollSubscribe, PollClose, Holding, PollPcs
  <2>3. lock = None \/ lock = p
    BY <2>2 DEF IInv, CoreInv, OneHolder, Tasks
  <2> QED
    BY <1>1, <2>1, <2>3, <1>0, OwnerHoldsLock
<1>2. ASSUME NEW u \in Users, OpAcquire(u) PROVE OwnLinkUntouched'
  BY <1>2, <1>0, OwnerHoldsLock DEF OpAcquire
<1>3. ASSUME NEW u \in Users, OpConnect(u) PROVE OwnLinkUntouched'
  <2>1. UNCHANGED <<client, closing>>
    BY <1>3 DEF OpConnect
  <2>2. CASE Opened(u, "opauth") /\ own' = own \cup {u}
    <3>1. PICK c \in Clients : c # client /\ c \notin closing /\ cl' = [cl EXCEPT ![u] = c]
      BY <2>2 DEF Opened, Fresh
    <3>2. c # None
      BY <1>t
    <3> QED
      BY <2>1, <2>2, <3>1, <3>2, <1>t DEF OwnLinkUntouched
  <2>3. CASE UNCHANGED <<cl, own>>
    BY <2>1, <2>3, <1>q
  <2>4. CASE OpDone(u)
    BY <2>1, <2>4, <1>t DEF OpDone, Unlock, OwnLinkUntouched
  <2> QED
    BY <1>3, <2>2, <2>3, <2>4 DEF OpConnect
<1>4. ASSUME NEW u \in Users, OpFinish(u) \/ OpClose(u) PROVE OwnLinkUntouched'
  <2>1. UNCHANGED <<client, closing>>
    BY <1>4 DEF OpFinish, OpClose
  <2>2. CASE OpDone(u)
    BY <2>1, <2>2, <1>t DEF OpDone, Unlock, OwnLinkUntouched
  <2>3. CASE UNCHANGED <<cl, own>>
    BY <2>1, <2>3, <1>q
  <2> QED
    BY <1>4, <2>2, <2>3, <1>q DEF OpFinish, OpClose
<1>5. CASE BrewRelease \/ Unload
  <2>1. /\ UNCHANGED <<own, cl>> /\ client' \in {client, None}
        /\ closing' \subseteq closing \cup {client}
    BY <1>5 DEF BrewRelease, Release, Unload
  <2> QED
    BY <2>1, <1>t DEF OwnLinkUntouched
<1>6. ASSUME NEW c \in Clients, FinishClose(c) PROVE OwnLinkUntouched'
  BY <1>6 DEF FinishClose, OwnLinkUntouched
<1>7. ASSUME NEW u \in Users, OpStart(u) \/ OpAuth(u) \/ OpListen(u) \/ OpWrite(u) \/ OpAttend(u) \/ OpWatched(u)
      PROVE  OwnLinkUntouched'
  BY <1>7, <1>q DEF OpStart, OpAuth, OpListen, OpWrite, OpAttend, OpWatched
<1>8. ASSUME NEW p \in Polls, PollStart(p) PROVE OwnLinkUntouched'
  BY <1>8, <1>q DEF PollStart
<1>9. ASSUME NEW c \in Clients, LinkDrop(c) PROVE OwnLinkUntouched'
  BY <1>9, <1>q DEF LinkDrop
<1>10. CASE BrewPress \/ BrewWait \/ Unloaded \/ MachineGone \/ MachineBack \/ FastUpdate \/ UNCHANGED vars
  BY <1>10, <1>q DEF BrewPress, BrewWait, Unloaded, MachineGone, MachineBack, FastUpdate, vars
<1> QED
  BY <1>1, <1>2, <1>3, <1>4, <1>5, <1>6, <1>7, <1>8, <1>9, <1>10 DEF Next, OpStep

(* "One connected, authenticated session": a command, a session or a watch     *)
(* that connected by itself keeps its link until it closes it, in either mode, *)
(* through every release and unload; only a link it borrowed can go.           *)
THEOREM OwnLinkIsSafe == Spec => []OwnLinkUntouched
<1>1. Init => OwnLinkUntouched
  BY DEF Init, OwnLinkUntouched
<1> QED
  BY <1>1, OwnLinkStep, Inductive, PTL DEF Spec

(* In persistent mode, and until the entry is unloaded, a borrowed link is as  *)
(* safe as an own one: async_release_kept_connection leaves it alone.          *)
THEOREM PersistentLinkIsSafe ==
    ASSUME Persistent, ~MayUnload
    PROVE  Spec => []LinkNotClosedInUse
<1> DEFINE NothingCloses == closing = {}
<1>1. Init => NothingCloses
  BY DEF Init
<1>2. NothingCloses /\ [Next]_vars => NothingCloses'
  <2> SUFFICES ASSUME closing = {}, [Next]_vars PROVE closing' = {}
    OBVIOUS
  <2>1. UNCHANGED closing \/ BrewRelease \/ Unload \/ \E c \in Clients : FinishClose(c)
    BY DEF Next, vars, PollStart, PollAcquire, PollStep, PollHeldRead, PollStaleClosed, PollConnect, PollAuth,
       PollRead, PollSubscribe, PollClose, OpStart, OpAcquire, OpStep, OpConnect, OpAuth, OpListen, OpWrite,
       OpAttend, OpWatched, OpFinish, OpClose, BrewPress, BrewWait, LinkDrop, Unloaded, MachineGone, MachineBack, FastUpdate
  <2> QED
    BY <2>1 DEF BrewRelease, Release, Unload, FinishClose
<1>3. NothingCloses => LinkNotClosedInUse
  BY DEF LinkNotClosedInUse
<1> QED
  BY <1>1, <1>2, <1>3, PTL DEF Spec
=============================================================================
