---------------------------- MODULE UpdateCycle ----------------------------
(***************************************************************************)
(* What keeps a machine polled (__init__.py, coordinator.py): the poll     *)
(* timer and the debounced refresh of Home Assistant's                     *)
(* DataUpdateCoordinator, the three Bluetooth callbacks that ask for a     *)
(* refresh or publish without one, last_update_success, and the set-up     *)
(* that stores the auth key and is tried again until a first refresh       *)
(* succeeds.  The module counts time in ticks; a refresh takes any number. *)
(* Coordinator has what a refresh does with the link.                      *)
(***************************************************************************)
EXTENDS Naturals

CONSTANTS
    Interval,       \* CONF_SCAN_INTERVAL
    Cooldown,       \* of the debouncer (Home Assistant's 10 seconds)
    Off             \* a timer that does not run

ASSUME CycleAssumption ==
    Interval \in Nat \ {0} /\ Cooldown \in Nat \ {0} /\ Off \notin Nat

VARIABLES
    setup,      \* the entry: "absent", "new", "first" (in its first refresh), "loaded"
    key,        \* the auth key the entry stores, 0 for none
    keys,       \* keys this entry has had
    success,    \* last_update_success
    data,       \* self.data is not None
    refresh,    \* where the refresh in flight is, if any
    timer,      \* ticks to the next poll
    cool,       \* ticks left of the debouncer's cooldown
    again,      \* a call waits for its end
    seen,       \* the machine is in the Bluetooth cache
    held,       \* a link to it is held open
    locked,     \* another operation has the BLE lock
    last,       \* history: how the last refresh ended, or that it was marked gone
    lines,      \* history: times the outage was reported since the machine was last read
    blamed,     \* history: an error reported a machine that the poll never found
    idle,       \* history: ticks since a refresh ran
    asked,      \* history: ticks since a refresh was asked for while none ran
    unread      \* history: a setting was written and no refresh tried to read since

entryVars   == <<setup, key, keys>>
debouncer   == <<cool, again>>
coordinator == <<success, data, refresh, timer, debouncer>>
bluetooth   == <<seen, held, locked>>
history     == <<last, lines, blamed, idle, asked, unread>>
cycleVars   == <<entryVars, coordinator, bluetooth, history>>

(* Where a poll is that has found the machine in the Bluetooth cache. *)
Found == {"reading", "aborted", "retried"}

FlagTypes ==
    /\ success \in BOOLEAN /\ data \in BOOLEAN /\ again \in BOOLEAN
    /\ seen \in BOOLEAN /\ held \in BOOLEAN /\ locked \in BOOLEAN
    /\ blamed \in BOOLEAN /\ unread \in BOOLEAN

PhaseTypes ==
    /\ setup \in {"absent", "new", "first", "loaded"}
    /\ refresh \in {"none", "queued", "overheld"} \cup Found
    /\ last \in {"none", "read", "failed", "gone"}

CountTypes ==
    /\ key \in Nat /\ keys \in Nat
    /\ timer \in {Off} \cup 0..Interval /\ cool \in {Off} \cup 0..Cooldown
    /\ lines \in Nat /\ idle \in Nat /\ asked \in Nat \cup {Off}

CycleTypeOK == FlagTypes /\ PhaseTypes /\ CountTypes

CycleInit ==
    /\ setup = "absent" /\ key = 0 /\ keys = 0
    /\ success = TRUE /\ data = FALSE /\ refresh = "none"
    /\ timer = Off /\ cool = Off /\ again = FALSE
    /\ seen \in BOOLEAN /\ held = FALSE /\ locked = FALSE
    /\ last = "none" /\ lines = 0 /\ blamed = FALSE /\ idle = 0 /\ asked = Off /\ unread = FALSE

-----------------------------------------------------------------------------
(* _async_refresh starts: it cancels the timer and the debouncer. *)
Begin ==
    /\ refresh' = "queued" /\ timer' = Off
    /\ cool' = Off /\ again' = FALSE /\ asked' = Off

(* async_request_refresh: a call that comes while one runs is dropped, one that *)
(* comes during the cooldown is remembered.                                     *)
Request ==
    \/ refresh # "none" /\ UNCHANGED <<refresh, timer, debouncer, asked>>
    \/ /\ refresh = "none" /\ cool # Off
       /\ again' = TRUE
       /\ asked' = IF asked = Off THEN 0 ELSE asked
       /\ UNCHANGED <<refresh, timer, cool>>
    \/ refresh = "none" /\ cool = Off /\ Begin
NoRequest == UNCHANGED <<refresh, timer, debouncer, asked>>

(* _async_refresh ends, and reported the outage or not if it failed.  The timer *)
(* starts again; after the first refresh of a set-up, adding the entities       *)
(* starts it.  Whether a poll of the timer starts a cooldown, as a debounced    *)
(* one does, is left open.                                                      *)
EndRefresh(ok, logged) ==
    /\ success' = ok /\ data' = (data \/ ok)
    /\ refresh' = "none" /\ timer' = Interval
    /\ cool' \in {Off, Cooldown} /\ again' = FALSE
    /\ setup' = IF setup = "first" /\ ~ok THEN "new" ELSE "loaded"
    /\ lines' = IF ok THEN 0 ELSE lines + logged
    /\ last' = IF ok THEN "read" ELSE "failed"
    /\ idle' = 0 /\ asked' = Off

(* A failure is an error in the log when the machine was available, and not in  *)
(* the first refresh of a set-up.                                               *)
ErrorLines == IF success /\ setup = "loaded" THEN 1 ELSE 0

(* _mark_gone: one info line, when the machine was available. *)
GoneLines == IF success THEN 1 ELSE 0

(* UpdateFailed with whatever reason, left to Home Assistant to report. *)
Fails ==
    /\ EndRefresh(FALSE, ErrorLines)
    /\ blamed' = (blamed \/ (ErrorLines > 0 /\ ~seen /\ refresh \notin Found))

(* A reading starts, with the lock. *)
Read(phase) ==
    /\ refresh' = phase /\ unread' = FALSE
    /\ UNCHANGED <<setup, success, data, timer, debouncer, last, lines, blamed, idle, asked>>

-----------------------------------------------------------------------------
(* The config flow adds the machine, with a token somebody typed or without,    *)
(* once: a unique id that is configured aborts it.                              *)
AddEntry ==
    /\ setup = "absent" /\ setup' = "new"
    /\ key' \in {0, 1} /\ keys' = key'
    /\ UNCHANGED <<coordinator, bluetooth, history>>

(* A set-up starts from a coordinator of its own, whose first refresh runs. *)
FirstRefresh ==
    /\ setup = "new" /\ setup' = "first"
    /\ success' = TRUE /\ data' = FALSE
    /\ Begin
    /\ last' = "none" /\ lines' = 0 /\ blamed' = FALSE
    /\ idle' = 0 /\ unread' = FALSE
    /\ UNCHANGED bluetooth

(* Mutant of SetUp: the key it makes is not stored with the entry. *)
SetUpUnstored ==
    /\ FirstRefresh
    /\ keys' = IF key = 0 THEN keys + 1 ELSE keys
    /\ UNCHANGED key

(* async_setup_entry up to its first refresh: the key of the entry, or one made *)
(* and stored before anything can fail.                                         *)
SetUp ==
    /\ FirstRefresh
    /\ IF key = 0 THEN keys' = keys + 1 /\ key' = keys' ELSE UNCHANGED <<key, keys>>

(* The coordinator of the entry is given up, with its link, its lock and what   *)
(* it had running.                                                              *)
GiveUp ==
    /\ refresh' = "none" /\ timer' = Off /\ cool' = Off /\ again' = FALSE
    /\ held' = FALSE /\ locked' = FALSE
    /\ UNCHANGED <<key, keys, success, data, seen, history>>

(* The options change, or Home Assistant restarts: the entry is set up again. *)
Reload == setup = "loaded" /\ setup' = "new" /\ GiveUp

(* The user removes the machine, loaded or not. *)
RemoveEntry == setup \in {"new", "loaded"} /\ setup' = "absent" /\ GiveUp

(* One tick, when no timer is due. *)
Tick ==
    /\ setup = "loaded" /\ timer # 0 /\ cool # 0
    /\ timer' = IF timer = Off THEN Off ELSE timer - 1
    /\ cool' = IF cool = Off THEN Off ELSE cool - 1
    /\ idle' = IF refresh = "none" THEN idle + 1 ELSE 0
    /\ asked' = IF asked = Off THEN Off ELSE asked + 1
    /\ UNCHANGED <<entryVars, success, data, refresh, again, bluetooth, last, lines, blamed, unread>>

TimerFires ==
    /\ setup = "loaded" /\ timer = 0
    /\ Begin /\ idle' = 0
    /\ UNCHANGED <<entryVars, success, data, bluetooth, last, lines, blamed, unread>>

(* The debouncer's cooldown ends: a remembered call refreshes now. *)
CooldownEnds ==
    /\ setup = "loaded" /\ cool = 0
    /\ \/ again /\ Begin
       \/ ~again /\ cool' = Off /\ UNCHANGED <<refresh, timer, again, asked>>
    /\ UNCHANGED <<entryVars, success, data, bluetooth, last, lines, blamed, idle, unread>>

-----------------------------------------------------------------------------
(* _async_update_data gets the lock: it reads over the link that is held. *)
ReadHeldLink ==
    /\ refresh = "queued" /\ ~locked /\ held
    /\ Read("overheld")
    /\ UNCHANGED <<key, keys, bluetooth>>

(* Without one, or when the read over it failed, it looks for the machine. *)
NoHeldLink ==
    \/ refresh = "queued" /\ ~locked /\ ~held /\ UNCHANGED held
    \/ refresh = "overheld" /\ held' = FALSE

(* Mutant of LookUp: a machine that left is an error like any other. *)
LookUpIsError ==
    /\ NoHeldLink
    /\ \/ seen /\ Read("reading")
       \/ ~seen /\ Fails /\ unread' = FALSE
    /\ UNCHANGED <<key, keys, seen, locked>>

(* A machine that is not in the cache is marked gone before the refresh fails,  *)
(* which then logs no error; not in a first refresh, where nothing was seen yet. *)
LookUp ==
    /\ NoHeldLink
    /\ \/ seen /\ Read("reading")
       \/ /\ ~seen /\ unread' = FALSE
          /\ \/ data /\ EndRefresh(FALSE, GoneLines) /\ UNCHANGED blamed
             \/ ~data /\ Fails
    /\ UNCHANGED <<key, keys, seen, locked>>

(* The connection is aborted: an info line of this attempt, and a pause with    *)
(* the lock held.                                                               *)
ConnectionAborts ==
    /\ refresh = "reading" /\ refresh' = "aborted"
    /\ UNCHANGED <<entryVars, success, data, timer, debouncer, bluetooth, history>>

(* After it the machine is looked up once more.  One that left meanwhile is not *)
(* marked gone here: the refresh fails as one that could not connect.           *)
LookUpAgain ==
    /\ refresh = "aborted"
    /\ \/ /\ seen /\ refresh' = "retried"
          /\ UNCHANGED <<setup, success, data, timer, debouncer, last, lines, blamed, idle, asked>>
       \/ ~seen /\ Fails
    /\ UNCHANGED <<key, keys, bluetooth, unread>>

(* The read ends: with data, the link kept or not, or because connecting,       *)
(* authenticating or reading failed.                                            *)
ReadEnds ==
    /\ \/ /\ refresh \in {"overheld", "reading", "retried"} /\ held' \in BOOLEAN
          /\ EndRefresh(TRUE, 0)
          /\ UNCHANGED blamed
       \/ /\ refresh \in {"reading", "retried"} /\ UNCHANGED held
          /\ Fails
    /\ UNCHANGED <<key, keys, seen, locked, unread>>

-----------------------------------------------------------------------------
(* Bluetooth sees the machine: _async_on_ble_event asks for a refresh while the *)
(* machine counts as unavailable.                                               *)
BleEvent ==
    /\ seen' = TRUE
    /\ IF setup = "loaded" /\ ~success THEN Request ELSE NoRequest
    /\ UNCHANGED <<entryVars, success, data, held, locked, last, lines, blamed, idle, unread>>

(* async_machine_gone: skipped while a link is held or the lock is taken. *)
MachineGone ==
    /\ seen /\ seen' = FALSE
    /\ IF setup = "loaded" /\ ~held /\ ~locked /\ refresh = "none"
       THEN /\ success' = FALSE /\ lines' = lines + GoneLines
            /\ last' = IF success THEN "gone" ELSE last
       ELSE UNCHANGED <<success, lines, last>>
    /\ UNCHANGED <<entryVars, data, refresh, timer, debouncer, held, locked, blamed, idle, asked, unread>>

(* Mutant of Advertise: async_set_updated_data publishes it. *)
AdvertiseAsUpdate(moved) ==
    /\ setup = "loaded"
    /\ success' = TRUE /\ timer' = Interval /\ cool' = Off /\ again' = FALSE
    /\ refresh' = IF moved THEN "queued" ELSE refresh
    /\ asked' = IF refresh' # "none" THEN Off ELSE asked
    /\ UNCHANGED <<entryVars, data, bluetooth, last, lines, blamed, idle, unread>>

(* _async_on_advertisement and _async_publish: whatever the advertisement says  *)
(* is published without touching the cycle, and a state that moved asks for the *)
(* rest.  A notification moves the state and asks for nothing.                  *)
Advertise(moved) ==
    /\ setup = "loaded"
    /\ IF moved THEN Request ELSE NoRequest
    /\ UNCHANGED <<entryVars, success, data, bluetooth, last, lines, blamed, idle, unread>>

(* An operation takes the lock, and later gives it back, with a link held open  *)
(* or not.  One that wrote a setting asks for a refresh after that.             *)
Operate ==
    /\ setup = "loaded" /\ ~locked /\ refresh \in {"none", "queued"}
    /\ locked' = TRUE
    /\ UNCHANGED <<entryVars, coordinator, seen, held, history>>

OperationEnds(wrote) ==
    /\ locked /\ locked' = FALSE
    /\ held' \in BOOLEAN
    /\ unread' = (unread \/ wrote)
    /\ IF wrote THEN Request ELSE NoRequest
    /\ UNCHANGED <<entryVars, success, data, seen, last, lines, blamed, idle>>

(* The machine drops the link that is held. *)
HeldLinkDrops ==
    /\ held /\ held' = FALSE
    /\ UNCHANGED <<entryVars, coordinator, seen, locked, history>>

CycleNext ==
    \/ AddEntry \/ SetUp \/ Reload \/ RemoveEntry
    \/ Tick \/ TimerFires \/ CooldownEnds
    \/ ReadHeldLink \/ LookUp \/ ConnectionAborts \/ LookUpAgain \/ ReadEnds
    \/ BleEvent \/ MachineGone \/ Operate \/ HeldLinkDrops
    \/ \E b \in BOOLEAN : Advertise(b) \/ OperationEnds(b)

CycleSpec == CycleInit /\ [][CycleNext]_cycleVars

-----------------------------------------------------------------------------
(* "Pushed the poll back for as long as the machine was busy": no burst of      *)
(* events, requests or published updates leaves a loaded entry without a        *)
(* refresh for longer than the scan interval.                                   *)
PollsGoOn == setup = "loaded" => idle <= Interval

(* "A machine that still advertises but no longer accepts connections would     *)
(* keep its entities available with stale connected data": they are available   *)
(* exactly when the last thing that ended was a successful read.                *)
AvailableMeansRead == setup = "loaded" => (success <=> last = "read")

(* "One info line per outage", and "a machine that is switched off is not an    *)
(* error": whoever notices first, the callback, the look-up of a poll or Home   *)
(* Assistant, an outage is reported once, and not as an error by a poll that    *)
(* does not find the machine when it looks for it.  (A machine that leaves the  *)
(* cache after that look-up, or that is off and still in the cache, is a failed *)
(* connection and an error.  The info lines of a single attempt, on an aborted  *)
(* connection or a refused authentication, come with every poll.)               *)
OneLinePerOutage == lines <= 1 /\ ~blamed

(* A refresh somebody asked for (the machine is back, its state moved, a        *)
(* setting was written) while none ran begins within the cooldown, and one      *)
(* dropped because another was on its way is made good by that one: a setting   *)
(* is read after it was written.                                                *)
AskedIsServed ==
    setup = "loaded" =>
        /\ asked # Off => asked <= Cooldown
        /\ unread /\ refresh = "none" => asked # Off

(* "So the same key survives ConfigEntryNotReady retries": however many set-ups *)
(* fail, are tried again or follow a restart, the machine meets one key, the    *)
(* one somebody typed if they did.                                              *)
OneKeyPerEntry == keys <= 1
=============================================================================
