---------------------------- MODULE Coordinator ----------------------------
(***************************************************************************)
(* The connection side of NespressoCoordinator (coordinator.py) and of the *)
(* brew button that drives it (button.py): who holds the BLE lock, which   *)
(* BLE client each task is using, which one the coordinator keeps in       *)
(* self._client, and when every one of them is closed.                     *)
(*                                                                         *)
(* Everything runs on one asyncio event loop, so the code between two      *)
(* awaits is one step.  A task's pc names the await it is suspended at.    *)
(*                                                                         *)
(*   Polls  refreshes of the DataUpdateCoordinator: the timer and the      *)
(*          debounced requests may overlap, the BLE lock serialises them   *)
(*   Ops    one-shot operations: sessions (write, Wi-Fi), commands, watch  *)
(*   Brew   the task of the one brew button, which ends in a command       *)
(*                                                                         *)
(* A client that is disconnected is down whether disconnect() returns or   *)
(* raises.  CoordinatorCancel adds the cancellation of tasks.             *)
(***************************************************************************)
EXTENDS Naturals, FiniteSets

CONSTANTS
    Polls, Ops, Brew,   \* the tasks
    Clients,            \* BleakClient objects, reused once nothing refers to them
    None,
    Persistent,         \* self.persistent, on a family with a status characteristic
    MayUnload           \* whether the config entry may be unloaded or reloaded

Users == Ops \cup {Brew}
Tasks == Polls \cup Users

ASSUME TasksAssumption ==
    /\ Polls \cap Ops = {}
    /\ Brew \notin Polls \cup Ops
    /\ None \notin Tasks \cup Clients
ASSUME FlagsAssumption == Persistent \in BOOLEAN /\ MayUnload \in BOOLEAN

(* Machine states as the brew button tells them apart (button.py:236-237). *)
Asleep  == "asleep"     \* power_save, standby
Warming == "warming"    \* heating, initializing, ready_old_capsule
Ready   == "ready"
Busy    == "busy"       \* any other
NoData  == "none"       \* coordinator.data is None
MachineStates == {Asleep, Warming, Ready, Busy}

VARIABLES
    lock,       \* the task inside "async with self._ble_lock", or None
    pc,         \* where each task is suspended
    cl,         \* the local variable client of each task
    own,        \* own_client: the users that opened their client themselves
    client,     \* self._client
    keep,       \* self._keep_connection
    up,         \* the clients whose is_connected is true
    closing,    \* clients being disconnected by a task that does not hold the lock
    fed,        \* clients on which the poll's own status subscription stands
    state,      \* self.data.machine_state
    success,    \* self.last_update_success
    seen,       \* the Bluetooth cache knows a connectable machine
    life,       \* "up", "unloading" (async_shutdown is disconnecting), "down"
    writes      \* brew commands written since the button was pressed

vars == <<lock, pc, cl, own, client, keep, up, closing, fed, state, success,
          seen, life, writes>>

PollPcs == {"held", "stale", "connect", "pause", "reconnect", "auth", "authdrop",
            "authconnect", "auth2", "read", "subscribe", "closeok", "closefail"}
Session == {"session"}                  \* the body of a session
Command == {"use", "listen", "answer"}  \* a command subscribes, writes, hears the answer
Watch   == {"attend", "watch", "leave"} \* a watch subscribes, reads, unsubscribes
Body    == Session \cup Command \cup Watch
OpPcs   == {"dial", "redial", "opauth", "close"} \cup Body
Holding == PollPcs \cup OpPcs           \* suspended inside the lock
BrewPcs == {"wake", "warm", "settle"}   \* the button's own waits, outside it

TypeOK ==
    /\ lock \in Tasks \cup {None}
    /\ pc \in [Tasks -> {"idle", "queued"} \cup Holding \cup BrewPcs]
    /\ cl \in [Tasks -> Clients \cup {None}]
    /\ own \subseteq Users
    /\ client \in Clients \cup {None}
    /\ keep \in BOOLEAN
    /\ up \subseteq Clients /\ closing \subseteq Clients /\ fed \subseteq Clients
    /\ state \in MachineStates \cup {NoData}
    /\ success \in BOOLEAN /\ seen \in BOOLEAN
    /\ life \in {"up", "unloading", "down"}
    /\ writes \in Nat

Init ==
    /\ lock = None
    /\ pc = [t \in Tasks |-> "idle"]
    /\ cl = [t \in Tasks |-> None]
    /\ own = {} /\ client = None /\ keep = FALSE
    /\ up = {} /\ closing = {} /\ fed = {}
    /\ state = NoData /\ success = TRUE
    /\ seen \in BOOLEAN
    /\ life = "up" /\ writes = 0

-----------------------------------------------------------------------------
(* Building blocks *)

Held  == client # None /\ client \in up                      \* _held_link()
Fresh == Clients \ (up \cup closing \cup {client} \cup {cl[t] : t \in Tasks})
Setup == state # NoData             \* the first refresh succeeded, the entry is set up

Goto(t, p) == pc' = [pc EXCEPT ![t] = p]
Unlock(t)  == lock' = None /\ cl' = [cl EXCEPT ![t] = None]

(* The refresh ends.  Home Assistant stores the result and the success flag  *)
(* with no suspension after _async_update_data returns or raises.  What was  *)
(* read may not parse, which fails the refresh and leaves the link where it  *)
(* is.  (When a first refresh fails, set-up starts over with a new           *)
(* coordinator, once async_shutdown has closed the link of this one.)        *)
PollParsed(p) ==
    /\ Goto(p, "idle") /\ Unlock(p)
    /\ \/ success' = TRUE /\ state' \in MachineStates
       \/ success' = FALSE /\ Setup /\ UNCHANGED state
PollFails(p) ==
    /\ Goto(p, "idle") /\ Unlock(p)
    /\ success' = FALSE
    /\ UNCHANGED state

(* establish_connection returns a new connected client to task t. *)
Opened(t, next) ==
    \E c \in Fresh :
        /\ up' = up \cup {c}
        /\ cl' = [cl EXCEPT ![t] = c]
        /\ Goto(t, next)

(* Task t's client.disconnect() completes. *)
Closed(t) == up' = up \ {cl[t]} /\ fed' = fed \ {cl[t]}

(* Looking the machine up in the Bluetooth cache before connecting. *)
LookUp(p) ==
    \/ /\ seen
       /\ lock' = p /\ cl' = [cl EXCEPT ![p] = None]
       /\ Goto(p, "connect")
       /\ UNCHANGED <<success, state>>
    \/ ~seen /\ PollFails(p)

(* _disconnect(), then the lookup.  Only a client that is set is awaited. *)
DropStale(p) ==
    \/ /\ client # None
       /\ client' = None
       /\ lock' = p /\ cl' = [cl EXCEPT ![p] = client]
       /\ Goto(p, "stale")
       /\ UNCHANGED <<success, state>>
    \/ /\ client = None
       /\ LookUp(p)
       /\ UNCHANGED client

-----------------------------------------------------------------------------
(* The refresh *)

(* The timer, a request or a Bluetooth event starts a refresh.  Requests are *)
(* dropped once async_shutdown has run to its end.                           *)
PollStart(p) ==
    /\ pc[p] = "idle" /\ life # "down"
    /\ Goto(p, "queued")
    /\ UNCHANGED <<lock, cl, own, client, keep, up, closing, fed, state, success,
                   seen, life, writes>>

PollAcquire(p) ==
    /\ pc[p] = "queued" /\ lock = None
    /\ \/ /\ Held
          /\ lock' = p /\ cl' = [cl EXCEPT ![p] = client]
          /\ Goto(p, "held")
          /\ UNCHANGED <<client, success, state>>
       \/ ~Held /\ DropStale(p)
    /\ UNCHANGED <<own, keep, up, closing, fed, seen, life, writes>>

(* _async_read_held_link: the read over the open link works, or it does not *)
(* and the poll falls back to a connection of its own.                      *)
PollHeldRead(p) ==
    /\ pc[p] = "held"
    /\ \/ cl[p] \in up /\ PollParsed(p) /\ UNCHANGED client
       \/ DropStale(p)
    /\ UNCHANGED <<own, keep, up, closing, fed, seen, life, writes>>

PollStaleClosed(p) ==
    /\ pc[p] = "stale"
    /\ Closed(p)
    /\ LookUp(p)
    /\ UNCHANGED <<own, client, keep, closing, seen, life, writes>>

(* establish_connection, with one more try after a "connection abort". *)
PollConnect(p) ==
    /\ \/ /\ pc[p] \in {"connect", "reconnect"}
          /\ Opened(p, "auth")
          /\ UNCHANGED <<lock, success, state>>
       \/ /\ pc[p] = "connect"
          /\ Goto(p, "pause")
          /\ UNCHANGED <<lock, cl, up, success, state>>
       \/ /\ pc[p] = "pause" /\ seen
          /\ Goto(p, "reconnect")
          /\ UNCHANGED <<lock, cl, up, success, state>>
       \/ /\ pc[p] \in {"connect", "reconnect"} \/ (pc[p] = "pause" /\ ~seen)
          /\ PollFails(p)
          /\ UNCHANGED up
    /\ UNCHANGED <<own, client, keep, closing, fed, seen, life, writes>>

(* _authenticate.  A refusal drops the link and starts over once; a second   *)
(* refusal ends the poll only when the link stayed plain, an error always.   *)
PollAuth(p) ==
    /\ \/ /\ pc[p] \in {"auth", "auth2"} /\ cl[p] \in up
          /\ Goto(p, "read")
          /\ UNCHANGED <<lock, cl, up, success, state>>
       \/ /\ pc[p] = "auth"
          /\ Goto(p, "authdrop")
          /\ UNCHANGED <<lock, cl, up, success, state>>
       \/ /\ pc[p] \in {"auth", "auth2"}
          /\ Goto(p, "closefail")
          /\ UNCHANGED <<lock, cl, up, success, state>>
       \/ /\ pc[p] = "auth2"
          /\ Goto(p, "read")
          /\ UNCHANGED <<lock, cl, up, success, state>>
       \/ /\ pc[p] = "authdrop"
          /\ up' = up \ {cl[p]}
          /\ Goto(p, "authconnect")
          /\ UNCHANGED <<lock, cl, success, state>>
       \/ /\ pc[p] = "authconnect"
          /\ Opened(p, "auth2")
          /\ UNCHANGED <<lock, success, state>>
       \/ /\ pc[p] = "authconnect"
          /\ Goto(p, "closefail")
          /\ UNCHANGED <<lock, cl, up, success, state>>
    /\ UNCHANGED <<own, client, keep, closing, fed, seen, life, writes>>

(* async_read_all, then what becomes of the link: persistent mode subscribes *)
(* first, a pending brew keeps it at once, anyone else closes it.            *)
PollRead(p) ==
    /\ pc[p] = "read"
    /\ \/ /\ cl[p] \in up /\ Persistent
          /\ Goto(p, "subscribe")
          /\ UNCHANGED <<lock, cl, client, success, state>>
       \/ /\ cl[p] \in up /\ ~Persistent /\ keep
          /\ client' = cl[p]
          /\ PollParsed(p)
       \/ /\ cl[p] \in up /\ ~Persistent /\ ~keep
          /\ Goto(p, "closeok")
          /\ UNCHANGED <<lock, cl, client, success, state>>
       \/ /\ Goto(p, "closefail")
          /\ UNCHANGED <<lock, cl, client, success, state>>
    /\ UNCHANGED <<own, keep, up, closing, fed, seen, life, writes>>

PollSubscribe(p) ==
    /\ pc[p] = "subscribe"
    /\ \/ /\ cl[p] \in up
          /\ fed' = fed \cup {cl[p]}
          /\ client' = cl[p]
          /\ PollParsed(p)
       \/ /\ Goto(p, "closefail")
          /\ UNCHANGED <<lock, cl, client, fed, success, state>>
    /\ UNCHANGED <<own, keep, up, closing, seen, life, writes>>

(* The link is closed.  A disconnect that raises after a good read turns the *)
(* poll into a failed one, by way of a second disconnect.                    *)
PollClose(p) ==
    /\ \/ /\ pc[p] = "closeok"
          /\ PollParsed(p)
       \/ /\ pc[p] = "closeok"
          /\ Goto(p, "closefail")
          /\ UNCHANGED <<lock, cl, success, state>>
       \/ /\ pc[p] = "closefail"
          /\ PollFails(p)
    /\ Closed(p)
    /\ UNCHANGED <<own, client, keep, closing, seen, life, writes>>

PollStep(p) ==
    \/ PollHeldRead(p) \/ PollStaleClosed(p) \/ PollConnect(p) \/ PollAuth(p)
    \/ PollRead(p) \/ PollSubscribe(p) \/ PollClose(p)

-----------------------------------------------------------------------------
(* Sessions, commands and the watch *)

OpStart(u) ==
    /\ u \in Ops /\ pc[u] = "idle" /\ life = "up" /\ Setup
    /\ Goto(u, "queued")
    /\ UNCHANGED <<lock, cl, own, client, keep, up, closing, fed, state, success,
                   seen, life, writes>>

(* The operation ends.  The button goes on to its refresh and its finally. *)
OpDone(u) ==
    /\ Unlock(u)
    /\ own' = own \ {u}
    /\ Goto(u, IF u = Brew THEN "settle" ELSE "idle")

(* Mutant of OpAcquire: blind to a held link. *)
OpAlwaysDials(u) ==
    /\ pc[u] = "queued" /\ lock = None
    /\ lock' = u /\ Goto(u, "dial")
    /\ UNCHANGED <<cl, own, client, keep, up, closing, fed, state, success, seen, life,
                   writes>>

(* The operation has its link: which of the three it is.  The button's is a *)
(* command.                                                                 *)
Begin(u) == \E body \in (IF u = Brew THEN {"use"} ELSE {"session", "use", "attend"}) :
                Goto(u, body)

(* _session and _acquire_client: use the held link, or dial. *)
OpAcquire(u) ==
    /\ pc[u] = "queued" /\ lock = None
    /\ lock' = u
    /\ \/ Held /\ cl' = [cl EXCEPT ![u] = client] /\ Begin(u)
       \/ ~Held /\ Goto(u, "dial") /\ UNCHANGED cl
    /\ UNCHANGED <<own, client, keep, up, closing, fed, state, success, seen, life,
                   writes>>

(* _async_connected: one retry after a pause, then authenticate or close. *)
OpConnect(u) ==
    /\ pc[u] \in {"dial", "redial"}
    /\ \/ seen /\ Opened(u, "opauth") /\ own' = own \cup {u} /\ UNCHANGED lock
       \/ /\ pc[u] = "dial" /\ seen
          /\ Goto(u, "redial")
          /\ UNCHANGED <<lock, cl, own, up>>
       \/ OpDone(u) /\ UNCHANGED up
    /\ UNCHANGED <<client, keep, closing, fed, state, success, seen, life, writes>>

OpAuth(u) ==
    /\ pc[u] = "opauth"
    /\ \/ cl[u] \in up /\ Begin(u)
       \/ Goto(u, "close")
    /\ UNCHANGED <<lock, cl, own, client, keep, up, closing, fed, state, success,
                   seen, life, writes>>

(* A link the persistent poll subscribed: its status notifications are left alone. *)
PollHears(u) == u \notin own /\ Persistent

(* Mutant of Mute: no exception for the status characteristic. *)
MuteAll(u) == fed' = fed \ {cl[u]}

(* A command or a watch takes the notifications of the link over. *)
Mute(u) == fed' = IF PollHears(u) THEN fed ELSE fed \ {cl[u]}

(* The start_notify of a command, whether the machine lets it or not. *)
OpListen(u) ==
    /\ pc[u] = "use"
    /\ Goto(u, "listen")
    /\ Mute(u)
    /\ UNCHANGED <<lock, cl, own, client, keep, up, closing, state, success, seen,
                   life, writes>>

(* Mutant of OpWrite: a command whose answer is late is sent again. *)
OpWriteRetried(u) ==
    /\ pc[u] \in {"listen", "answer"} /\ cl[u] \in up
    /\ Goto(u, "answer")
    /\ writes' = IF u = Brew THEN writes + 1 ELSE writes
    /\ UNCHANGED <<lock, cl, own, client, keep, up, closing, fed, state, success,
                   seen, life>>

(* The one write of a command; the answer is awaited but never asked again. *)
OpWrite(u) ==
    /\ pc[u] = "listen" /\ cl[u] \in up
    /\ Goto(u, "answer")
    /\ writes' = IF u = Brew THEN writes + 1 ELSE writes
    /\ UNCHANGED <<lock, cl, own, client, keep, up, closing, fed, state, success,
                   seen, life>>

(* The start_notify of a watch, before its try: a refusal is passed over. *)
OpAttend(u) ==
    /\ pc[u] = "attend"
    /\ Goto(u, "watch")
    /\ Mute(u)
    /\ UNCHANGED <<lock, cl, own, client, keep, up, closing, state, success, seen,
                   life, writes>>

(* The reads of a watch end with its time, or when the link is gone. *)
OpWatched(u) ==
    /\ pc[u] = "watch"
    /\ Goto(u, "leave")
    /\ UNCHANGED <<lock, cl, own, client, keep, up, closing, fed, state, success,
                   seen, life, writes>>

(* The body of the operation is over, or raised: a client of one's own is   *)
(* closed, the held one is left as it stands.                               *)
OpFinish(u) ==
    /\ pc[u] \in Session \cup Command \cup {"leave"} /\ (u = Brew => pc[u] # "use")
    /\ \/ u \in own /\ Goto(u, "close") /\ UNCHANGED <<lock, cl, own>>
       \/ u \notin own /\ OpDone(u)
    /\ UNCHANGED <<client, keep, up, closing, fed, state, success, seen, life, writes>>

OpClose(u) ==
    /\ pc[u] = "close"
    /\ Closed(u)
    /\ OpDone(u)
    /\ UNCHANGED <<client, keep, closing, state, success, seen, life, writes>>

OpStep(u) ==
    \/ OpConnect(u) \/ OpAuth(u) \/ OpListen(u) \/ OpWrite(u) \/ OpAttend(u)
    \/ OpWatched(u) \/ OpFinish(u) \/ OpClose(u)

-----------------------------------------------------------------------------
(* The brew button *)

(* What _do_brew does with the state a press or a wait hands it.  "settle"  *)
(* is its last await: a notification, or the refresh after the command.     *)
Decide(s) ==
    Goto(Brew, CASE s = Warming -> "warm" [] s = Ready -> "queued" [] OTHER -> "settle")

(* A press while one is pending is ignored, as is one on an unavailable entity. *)
BrewPress ==
    /\ pc[Brew] = "idle" /\ life = "up" /\ Setup /\ success
    /\ keep' = TRUE                                     \* keep_connection()
    /\ writes' = 0
    /\ IF state = Asleep THEN Goto(Brew, "wake") ELSE Decide(state)
    /\ UNCHANGED <<lock, cl, own, client, up, closing, fed, state, success, seen, life>>

(* Mutant of BrewWait: no deadline on the wait for a warm machine. *)
BrewWaitForEver ==
    /\ \/ pc[Brew] = "wake" /\ Decide(state)
       \/ pc[Brew] = "warm" /\ state # Warming
          /\ Goto(Brew, IF state = Ready THEN "queued" ELSE "settle")
    /\ UNCHANGED <<lock, cl, own, client, keep, up, closing, fed, state, success, seen,
                   life, writes>>

(* _wait_to_leave: the state moved on, or five minutes are over. *)
BrewWait ==
    /\ \/ pc[Brew] = "wake" /\ Decide(state)
       \/ pc[Brew] = "warm" /\ state # Warming
          /\ Goto(Brew, IF state = Ready THEN "queued" ELSE "settle")
       \/ pc[Brew] = "warm" /\ state = Warming /\ Goto(Brew, "settle")
    /\ UNCHANGED <<lock, cl, own, client, keep, up, closing, fed, state, success, seen,
                   life, writes>>

(* Mutants of BrewRelease: no check that there is a link to close, the flag   *)
(* left set, nothing closed after the unload, or persistent mode ignored.     *)
BrewReleaseUnchecked ==
    /\ pc[Brew] = "settle" /\ Goto(Brew, "idle")
    /\ keep' = FALSE /\ client' = None /\ closing' = closing \cup {client}
    /\ UNCHANGED <<lock, cl, own, up, fed, state, success, seen, life, writes>>
BrewReleaseKeepsFlag ==
    /\ pc[Brew] = "settle" /\ Goto(Brew, "idle")
    /\ client' = None /\ closing' = closing \cup ({client} \ {None})
    /\ UNCHANGED <<lock, cl, own, keep, up, fed, state, success, seen, life, writes>>
BrewReleaseOnlyLoaded ==
    /\ pc[Brew] = "settle" /\ Goto(Brew, "idle")
    /\ keep' = FALSE
    /\ IF life = "down"
       THEN UNCHANGED <<client, closing>>
       ELSE client' = None /\ closing' = closing \cup ({client} \ {None})
    /\ UNCHANGED <<lock, cl, own, up, fed, state, success, seen, life, writes>>
BrewReleaseAlways ==
    /\ pc[Brew] = "settle" /\ Goto(Brew, "idle")
    /\ keep' = FALSE /\ client' = None /\ closing' = closing \cup ({client} \ {None})
    /\ UNCHANGED <<lock, cl, own, up, fed, state, success, seen, life, writes>>

(* async_release_kept_connection gives the link up without taking the lock. *)
Release ==
    /\ keep' = FALSE
    /\ IF Persistent
       THEN UNCHANGED <<client, closing>>
       ELSE client' = None /\ closing' = closing \cup ({client} \ {None})

(* The finally of async_press: the press is over, and the link is released. *)
BrewRelease ==
    /\ pc[Brew] = "settle"
    /\ Goto(Brew, "idle")
    /\ Release
    /\ UNCHANGED <<lock, cl, own, up, fed, state, success, seen, life, writes>>

(* The disconnect of a released or unloaded link completes. *)
FinishClose(c) ==
    /\ c \in closing
    /\ closing' = closing \ {c} /\ up' = up \ {c} /\ fed' = fed \ {c}
    /\ UNCHANGED <<lock, pc, cl, own, client, keep, state, success, seen, life, writes>>

-----------------------------------------------------------------------------
(* Unloading the entry, and the world outside *)

(* async_shutdown: _disconnect without the lock, then the base class. *)
Unload ==
    /\ MayUnload /\ life = "up" /\ Setup
    /\ life' = "unloading"
    /\ client' = None
    /\ closing' = closing \cup ({client} \ {None})
    /\ UNCHANGED <<lock, pc, cl, own, keep, up, fed, state, success, seen, writes>>

Unloaded ==
    /\ life = "unloading"
    /\ life' = "down"
    /\ UNCHANGED <<lock, pc, cl, own, client, keep, up, closing, fed, state, success,
                   seen, writes>>

(* Mutant of MachineGone: the poll or operation under way is not looked at. *)
MachineGoneUnguarded ==
    /\ seen /\ seen' = FALSE
    /\ success' = IF life = "up" /\ Setup /\ ~Held THEN FALSE ELSE success
    /\ UNCHANGED <<lock, pc, cl, own, client, keep, up, closing, fed, state, life, writes>>

(* Bluetooth loses the machine and calls async_machine_gone. *)
MachineGone ==
    /\ seen /\ seen' = FALSE
    /\ success' = IF life = "up" /\ Setup /\ ~Held /\ lock = None THEN FALSE ELSE success
    /\ UNCHANGED <<lock, pc, cl, own, client, keep, up, closing, fed, state, life, writes>>

MachineBack ==
    /\ ~seen /\ seen' = TRUE
    /\ UNCHANGED <<lock, pc, cl, own, client, keep, up, closing, fed, state, success,
                   life, writes>>

LinkDrop(c) ==
    /\ c \in up
    /\ up' = up \ {c} /\ fed' = fed \ {c}
    /\ UNCHANGED <<lock, pc, cl, own, client, keep, closing, state, success, seen, life,
                   writes>>

(* An advertisement or a notification moves self.data; see StatusFlow. *)
FastUpdate ==
    /\ Setup
    /\ state' \in MachineStates \ {state}
    /\ UNCHANGED <<lock, pc, cl, own, client, keep, up, closing, fed, success, seen,
                   life, writes>>

Next ==
    \/ \E p \in Polls : PollStart(p) \/ PollAcquire(p) \/ PollStep(p)
    \/ \E u \in Users : OpStart(u) \/ OpAcquire(u) \/ OpStep(u)
    \/ BrewPress \/ BrewWait \/ BrewRelease
    \/ \E c \in Clients : FinishClose(c) \/ LinkDrop(c)
    \/ Unload \/ Unloaded \/ MachineGone \/ MachineBack \/ FastUpdate

Spec == Init /\ [][Next]_vars

-----------------------------------------------------------------------------
(* Safety *)

(* The BLE lock is exclusive: the one task suspended inside it owns it. *)
OneHolder == \A t \in Tasks : pc[t] \in Holding <=> lock = t

(* "Only one BLE client can connect at a time" (README).  No poll, operation  *)
(* or kept connection ever opens a second link beside a live one; only a link *)
(* already being torn down may overlap with the next connect.                 *)
OneLiveLink == \A c, d \in up \ closing : c = d

(* No connection is lost track of: each one that is up is the coordinator's,  *)
(* is in the hands of the task that holds the lock, or is being disconnected. *)
NoOrphanLink ==
    \A c \in up : c = client \/ c \in closing \/ \E t \in Tasks : lock = t /\ cl[t] = c

(* Without persistent mode a link is held only for a pending brew, so the     *)
(* machine is free for the Nespresso app at all other times.                  *)
KeptOnlyForBrew == ~Persistent /\ client # None => keep /\ pc[Brew] # "idle"

(* In persistent mode a command or a watch on the held link never leaves the  *)
(* coordinator deaf to status notifications (the skip in async_send_command). *)
NeverDeaf == Persistent /\ Held => client \in fed

(* One press writes the brew command at most once, however slow the answer.   *)
OneCommandPerPress == writes <= 1

(* Once an unloaded entry's tasks are done, nothing holds the machine.        *)
FreeAfterUnload ==
    life = "down" /\ (\A t \in Tasks : pc[t] = "idle") => up \subseteq closing

(* "One connected, authenticated session, held under the BLE lock": nobody    *)
(* else disconnects the link an operation is in the middle of using.          *)
LinkNotClosedInUse ==
    \A u \in Users : pc[u] \in Body => cl[u] \notin closing

(* The availability flag falls only by a failed poll, or when no task is in   *)
(* the lock and no live link contradicts it (async_machine_gone).             *)
GoneOnlyWhenUnused ==
    [][success /\ ~success' =>
         \/ \E p \in Polls : pc[p] # pc'[p]
         \/ lock = None /\ up \subseteq closing]_vars

-----------------------------------------------------------------------------
(* The coordinator as the machine sees it. *)
Using == {t \in Tasks : pc[t] \in Holding}
Live  == up \ closing
Kept  == client \in Live
Dying == up \cap closing

Link == INSTANCE MachineLink WITH
    users <- Using, live <- Live, kept <- Kept, dying <- Dying

(* "Only one BLE client can connect at a time": whatever polls, operations,    *)
(* the button, an unload and lost links do to each other, a link is opened by  *)
(* the one task in the lock and only where none is live, outlives that task    *)
(* only as the one the coordinator keeps, and is taken from under another task *)
(* only if it was kept.                                                        *)
KeepsMachineLink == Link!LinkSpec

-----------------------------------------------------------------------------
(* Liveness.  asyncio.Lock wakes its waiters in FIFO order, hence strong      *)
(* fairness of the acquisitions; reads and writes of ble/protocol.py end      *)
(* within BLE_OP_TIMEOUT, pairing, connecting and disconnecting within the    *)
(* budgets of their layers, and the button's wait has a deadline.  The calls  *)
(* that coordinator.py makes on the client itself have no bound: start_notify *)
(* and stop_notify, the writes of commands and sessions, the status reads     *)
(* around a command, the reads of a watch.  Every await of a body is, or may  *)
(* be, one of them, and so is the subscription of a persistent poll.          *)
Unbounded == Body \cup {"subscribe"}

Fairness ==
    /\ \A p \in Polls :
          SF_vars(PollAcquire(p)) /\ WF_vars(pc[p] \notin Unbounded /\ PollStep(p))
    /\ \A u \in Users :
          SF_vars(OpAcquire(u)) /\ WF_vars(pc[u] \notin Unbounded /\ OpStep(u))
    /\ WF_vars(BrewWait) /\ WF_vars(BrewRelease)
    /\ \A c \in Clients : WF_vars(FinishClose(c))

FairSpec == Spec /\ Fairness

(* Every body, and every subscription, is answered and gets to its end. *)
Answered == \A t \in Tasks : []<>(pc[t] \notin Unbounded)

(* "Every BLE operation needs an explicit timeout": every refresh, operation  *)
(* and brew press comes to its end, whatever the machine leaves unanswered.   *)
EveryTaskEnds == \A t \in Tasks : []<>(pc[t] = "idle")

(* As far as the transport answers the calls the code does not bound, every   *)
(* task ends: none waits for another for ever, and every failure path leaves  *)
(* the lock.                                                                  *)
EveryTaskEndsIfAnswered == Answered => EveryTaskEnds
=============================================================================
