---------------------------- MODULE CounterStore ----------------------------
(***************************************************************************)
(* The brew counters and their file (coordinator.py, __init__.py).  Each   *)
(* coordinator has a Store object of its own; a change schedules a write   *)
(* COUNTER_SAVE_DELAY seconds ahead, and what is written is what that      *)
(* coordinator holds when the timer fires; a further change puts it off.   *)
(* The timer belongs to the Store and not to the config entry, so it       *)
(* outlives a reload and a removal.                                        *)
(* Home Assistant writes what is pending when it stops, and not when it    *)
(* crashes.  A write of the file is atomic (Home Assistant's Store).       *)
(***************************************************************************)
EXTENDS Naturals, SequencesExt

CONSTANTS
    NoFile,
    Reloads,        \* whether the entry may be reloaded or removed while running
    Crashes,        \* whether Home Assistant may crash
    MaxGens,        \* bound on coordinators: restarts and reloads
    MaxChanges      \* bound on brews and on resets

Gens == 1..MaxGens

(* last_descaling is abstracted to the number of times its clock was set. *)
Counters == [brew_total : Nat, brews_since_descaling : Nat, last_descaling : Nat]
Fresh == [brew_total |-> 0, brews_since_descaling |-> 0, last_descaling |-> 0]

ASSUME StoreAssumption ==
    /\ NoFile \notin Counters
    /\ Reloads \in BOOLEAN /\ Crashes \in BOOLEAN
    /\ MaxGens \in Nat \ {0} /\ MaxChanges \in Nat

VARIABLES
    disk,       \* the file, or NoFile
    gen,        \* the coordinator of the loaded entry, or the last one
    entry,      \* "loaded", "unloaded" or "removed"
    alive,      \* coordinators that have been set up and whose code may still run
    mem,        \* the counters each coordinator holds
    pending,    \* coordinators whose Store has a delayed write, soonest first
    owed,       \* the counters every brew and reset so far adds up to
    hurried     \* history: an entry was unloaded or removed before the last
                \* write of a coordinator, one counted a brew after that, or
                \* Home Assistant stopped with the writes of two outstanding

storeVars == <<disk, gen, entry, alive, mem, pending, owed, hurried>>

StoreTypeOK ==
    /\ disk \in Counters \cup {NoFile}
    /\ gen \in Gens
    /\ entry \in {"loaded", "unloaded", "removed"}
    /\ alive \subseteq Gens
    /\ mem \in [Gens -> Counters]
    /\ pending \in Seq(Gens)
    /\ owed \in Counters
    /\ hurried \in BOOLEAN

-----------------------------------------------------------------------------
CountBrew(c) == [c EXCEPT !.brew_total = @ + 1, !.brews_since_descaling = @ + 1]
ResetDescaling(c) ==
    [c EXCEPT !.brews_since_descaling = 0, !.last_descaling = @ + 1]

(* Mutant of Loaded: no default without a file. *)
LoadedAsIs(file) == file

(* async_load_counters: what the file says; with no reference point yet the *)
(* clock is started and saved.                                              *)
Loaded(file) ==
    LET stored == IF file = NoFile THEN Fresh ELSE file IN
    IF stored.last_descaling = 0 THEN [stored EXCEPT !.last_descaling = 1] ELSE stored
LoadSaves(file) == file = NoFile \/ file.last_descaling = 0

(* _async_save_counters: the Store puts its write off to a full delay from now, *)
(* behind those of any other.                                                   *)
Place(timers, g) == CHOOSE i \in 1..Len(timers) : timers[i] = g
Delayed(timers, g) ==
    Append(IF g \in ToSet(timers) THEN RemoveAt(timers, Place(timers, g)) ELSE timers, g)
Save(g) == pending' = Delayed(pending, g)

(* A new coordinator is created and loads the file.  The first refresh may    *)
(* fail, and then the entry is set up again later with yet another one.       *)
Load(file, others, timers) ==
    /\ gen < MaxGens /\ gen' = gen + 1
    /\ mem' = [mem EXCEPT ![gen + 1] = Loaded(file)]
    /\ pending' = IF LoadSaves(file) THEN Delayed(timers, gen + 1) ELSE timers
    /\ \/ entry' = "loaded" /\ alive' = others \cup {gen + 1}
       \/ entry' = "unloaded" /\ alive' = others

(* The entry is set up for the first time, and its first refresh may fail. *)
StoreInit ==
    /\ disk = NoFile /\ gen = 1
    /\ \/ entry = "loaded" /\ alive = {1}
       \/ entry = "unloaded" /\ alive = {}
    /\ mem = [g \in Gens |-> IF g = 1 THEN Loaded(NoFile) ELSE Fresh]
    /\ pending = IF LoadSaves(NoFile) THEN <<1>> ELSE <<>>
    /\ owed = Loaded(NoFile) /\ hurried = FALSE

(* Mutants of TrackBrew: not saved, or counted by two paths. *)
TrackBrewUnsaved(g) ==
    /\ g \in alive /\ (entry = "loaded" \/ Reloads)
    /\ owed.brew_total < MaxChanges
    /\ mem' = [mem EXCEPT ![g] = CountBrew(@)]
    /\ owed' = CountBrew(owed)
    /\ hurried' = (hurried \/ g # gen \/ entry # "loaded")
    /\ UNCHANGED <<disk, gen, entry, alive, pending>>
TrackBrewTwice(g) ==
    /\ g \in alive /\ (entry = "loaded" \/ Reloads)
    /\ owed.brew_total < MaxChanges
    /\ mem' = [mem EXCEPT ![g] = CountBrew(CountBrew(@))]
    /\ owed' = CountBrew(owed)
    /\ Save(g)
    /\ hurried' = (hurried \/ g # gen \/ entry # "loaded")
    /\ UNCHANGED <<disk, gen, entry, alive>>

(* _async_track_brew.  A requested refresh in flight when its entry is        *)
(* unloaded runs on, so what counts need not be the current coordinator.      *)
TrackBrew(g) ==
    /\ g \in alive /\ (entry = "loaded" \/ Reloads)
    /\ owed.brew_total < MaxChanges
    /\ mem' = [mem EXCEPT ![g] = CountBrew(@)]
    /\ owed' = CountBrew(owed)
    /\ Save(g)
    /\ hurried' = (hurried \/ g # gen \/ entry # "loaded")
    /\ UNCHANGED <<disk, gen, entry, alive>>

(* async_reset_descaling, from the button of the loaded entry. *)
Reset ==
    /\ entry = "loaded" /\ owed.last_descaling <= MaxChanges
    /\ mem' = [mem EXCEPT ![gen] = ResetDescaling(@)]
    /\ owed' = ResetDescaling(owed)
    /\ Save(gen)
    /\ UNCHANGED <<disk, gen, entry, alive, hurried>>

(* The delay is over: the Store writes what its coordinator holds now. *)
SaveFires ==
    /\ pending # <<>>
    /\ disk' = mem[Head(pending)]
    /\ pending' = Tail(pending)
    /\ UNCHANGED <<gen, entry, alive, mem, owed, hurried>>

(* An options change reloads the entry: unload, then a new set-up. *)
Unload ==
    /\ Reloads /\ entry = "loaded"
    /\ entry' = "unloaded"
    /\ hurried' = (hurried \/ pending # <<>>)
    /\ UNCHANGED <<disk, gen, alive, mem, pending, owed>>

SetUpAgain ==
    /\ entry = "unloaded"
    /\ Load(disk, alive, pending)
    /\ UNCHANGED <<disk, owed, hurried>>

(* async_remove_entry, after the unload: a Store of its own deletes the file. *)
RemoveFile ==
    /\ Reloads /\ entry = "unloaded"
    /\ entry' = "removed"
    /\ disk' = NoFile
    /\ hurried' = (hurried \/ pending # <<>>)
    /\ UNCHANGED <<gen, alive, mem, pending, owed>>

(* A clean stop of Home Assistant writes what is pending, in any order, and *)
(* the next start begins with the file.                                     *)
Restart ==
    /\ entry # "removed"
    /\ \E final \in IF pending = <<>> THEN {disk} ELSE {mem[g] : g \in ToSet(pending)} :
        /\ disk' = final
        /\ Load(final, {}, <<>>)
    /\ hurried' = (hurried \/ Len(pending) > 1)
    /\ UNCHANGED owed

(* A crash or a power cut loses it, and what it costs is written off. *)
Crash ==
    /\ Crashes /\ entry # "removed"
    /\ Load(disk, {}, <<>>)
    /\ owed' = Loaded(disk)
    /\ UNCHANGED <<disk, hurried>>

StoreNext ==
    \/ \E g \in Gens : TrackBrew(g)
    \/ SaveFires \/ Reset \/ Unload \/ SetUpAgain \/ RemoveFile \/ Restart \/ Crash

StoreSpec == StoreInit /\ [][StoreNext]_storeVars

-----------------------------------------------------------------------------
(* "Persisted separately from the config entry so a reload does not reset      *)
(* them": as long as no entry is unloaded or removed with a write still        *)
(* scheduled, no coordinator counts after its entry was unloaded, and no stop  *)
(* of Home Assistant finds two writes scheduled, the counters shown are those  *)
(* that every brew and reset add up to, the file is behind them only while a   *)
(* write is scheduled (so a crash costs the changes of the last                *)
(* COUNTER_SAVE_DELAY seconds and no more), and the file of a removed machine  *)
(* stays deleted.  Without ~hurried TLC refutes the first and the last: a      *)
(* reload within COUNTER_SAVE_DELAY loads the older file, the Store of a first *)
(* set-up that failed may have the last word when Home Assistant stops, and a  *)
(* write that fires after the removal creates the file again.                  *)
CountersSurviveUnhurried ==
    ~hurried =>
        /\ entry = "loaded" => mem[gen] = owed
        /\ entry = "loaded" /\ pending = <<>> => disk = mem[gen]
        /\ entry = "removed" => disk = NoFile

(* Whatever reloads, crashes and late writes do, no counter runs ahead of what *)
(* happened, and the time half of the descaling schedule always has a          *)
(* reference point that a new set-up does not start again once it is saved.    *)
NothingInvented ==
    /\ mem[gen].brew_total <= owed.brew_total
    /\ disk # NoFile => disk.brew_total <= owed.brew_total
    /\ entry = "loaded" => mem[gen].last_descaling \in 1..owed.last_descaling
=============================================================================
