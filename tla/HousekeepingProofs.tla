------------------------- MODULE HousekeepingProofs -------------------------
(***************************************************************************)
(* Proofs of CounterStore, for any number of coordinators, restarts,       *)
(* reloads and changes; of UpdateCycle, for every interval, every cooldown *)
(* and any number of events between two polls; and of the two side by side.*)
(***************************************************************************)
EXTENDS MCHousekeeping, SequenceTheorems, TLAPS

(* The coordinators whose counters may still reach the file or the entities. *)
Holders == alive \cup ToSet(pending) \cup {gen}

(* Counters that are not ahead of what happened, their clock started. *)
Within(c) ==
    /\ c.brew_total <= owed.brew_total
    /\ c.last_descaling \in 1..owed.last_descaling

NoneAhead ==
    /\ Within(owed)
    /\ \A g \in Holders : Within(mem[g])
    /\ disk # NoFile => Within(disk)

(* A loaded entry holds every change, and the file gets it: its own write comes *)
(* last, or there is nothing left to write that is not in the file.             *)
LoadedKept ==
    entry = "loaded" =>
        /\ mem[gen] = owed
        /\ \/ pending # <<>> /\ Last(pending) = gen
           \/ disk = owed /\ \A g \in ToSet(pending) : mem[g] = owed

(* Between two set-ups the file is what the next one loads, or there was none. *)
UnloadedKept ==
    entry = "unloaded" =>
        /\ \/ disk = owed
           \/ disk = NoFile /\ owed = Loaded(NoFile) /\ pending # <<>>
        /\ \A g \in ToSet(pending) : mem[g] = owed

RemovedKept == entry = "removed" => pending = <<>> /\ disk = NoFile

StoreInv ==
    /\ StoreTypeOK
    /\ NoneAhead
    /\ ~hurried => LoadedKept /\ UnloadedKept /\ RemovedKept

-----------------------------------------------------------------------------
(* What _async_save_counters does to the queue of timers: the Store that asked *)
(* is in it once, at the end.                                                  *)
LEMMA DelayedQueue ==
  ASSUME NEW T, NEW timers \in Seq(T), NEW g \in T
  PROVE  /\ Delayed(timers, g) \in Seq(T)
         /\ Delayed(timers, g) # <<>>
         /\ Last(Delayed(timers, g)) = g
         /\ ToSet(Delayed(timers, g)) \subseteq ToSet(timers) \cup {g}
<1> DEFINE rest == IF g \in ToSet(timers) THEN RemoveAt(timers, Place(timers, g)) ELSE timers
<1>1. rest \in Seq(T) /\ ToSet(rest) \subseteq ToSet(timers)
  <2>1. CASE g \notin ToSet(timers)
    BY <2>1
  <2>2. CASE g \in ToSet(timers)
    <3> DEFINE i == Place(timers, g)
               front == SubSeq(timers, 1, i - 1)
               back == SubSeq(timers, i + 1, Len(timers))
    <3>1. i \in 1..Len(timers)
      <4>1. \E j \in 1..Len(timers) : timers[j] = g
        BY <2>2 DEF ToSet
      <4>2. QED
        BY <4>1 DEF Place
    <3> HIDE DEF i
    <3>2. front \in Seq(T) /\ Len(front) = i - 1 /\ \A j \in 1..i - 1 : front[j] = timers[j]
      BY <3>1, SubSeqProperties
    <3>3. /\ back \in Seq(T) /\ Len(back) = Len(timers) - i
          /\ \A j \in 1..Len(timers) - i : back[j] = timers[i + j]
      BY <3>1, SubSeqProperties
    <3>4. rest = front \o back
      BY <2>2 DEF RemoveAt, i
    <3> HIDE DEF front, back, rest
    <3>5. rest \in Seq(T) /\ Len(rest) = Len(front) + Len(back)
      BY <3>2, <3>3, <3>4, ConcatProperties
    <3>6. ASSUME NEW j \in 1..Len(rest) PROVE rest[j] \in ToSet(timers)
      <4>1. rest[j] = IF j <= Len(front) THEN front[j] ELSE back[j - Len(front)]
        BY <3>2, <3>3, <3>4, <3>5, ConcatProperties
      <4>2. CASE j <= i - 1
        BY <3>1, <3>2, <4>1, <4>2 DEF ToSet
      <4>3. CASE ~(j <= i - 1)
        <5>1. rest[j] = back[j - (i - 1)] /\ j - (i - 1) \in 1..Len(timers) - i
          BY <3>1, <3>2, <3>3, <3>5, <4>1, <4>3
        <5>2. rest[j] = timers[j + 1] /\ j + 1 \in 1..Len(timers)
          BY <3>1, <3>3, <4>3, <5>1
        <5>3. QED
          BY <5>2 DEF ToSet
      <4>4. QED
        BY <4>2, <4>3
    <3>7. QED
      BY <3>5, <3>6 DEF ToSet
  <2>3. QED
    BY <2>1, <2>2
<1>2. Delayed(timers, g) = Append(rest, g)
  BY DEF Delayed
<1> HIDE DEF rest
<1> DEFINE q == Delayed(timers, g)
<1>3. /\ q \in Seq(T) /\ Len(q) = Len(rest) + 1 /\ q[Len(rest) + 1] = g
      /\ \A j \in 1..Len(rest) : q[j] = rest[j]
  BY <1>1, <1>2
<1> HIDE DEF q
<1>4. q # <<>> /\ Last(q) = g
  BY <1>1, <1>3 DEF Last
<1>5. ASSUME NEW j \in 1..Len(q) PROVE q[j] \in ToSet(timers) \cup {g}
  <2>1. Len(rest) \in Nat
    BY <1>1
  <2>2. CASE j = Len(rest) + 1
    BY <1>3, <2>2
  <2>3. CASE j # Len(rest) + 1
    <3>1. j \in 1..Len(rest) /\ q[j] = rest[j]
      BY <1>3, <2>1, <2>3
    <3>2. rest[j] \in ToSet(rest)
      BY <1>1, <3>1 DEF ToSet
    <3>3. QED
      BY <1>1, <3>1, <3>2
  <2>4. QED
    BY <2>2, <2>3
<1>6. ToSet(q) \subseteq ToSet(timers) \cup {g}
  BY <1>3, <1>5 DEF ToSet
<1>7. QED
  BY <1>3, <1>4, <1>6 DEF q

(* A queue of timers is empty or has a first one, and the last stays the last. *)
LEMMA FiredQueue ==
  ASSUME NEW timers \in Seq(Gens), timers # <<>>
  PROVE  /\ Head(timers) \in ToSet(timers)
         /\ Tail(timers) \in Seq(Gens)
         /\ ToSet(Tail(timers)) \subseteq ToSet(timers)
         /\ Tail(timers) # <<>> => Last(Tail(timers)) = Last(timers)
         /\ Tail(timers) = <<>> => Head(timers) = Last(timers)
<1>1. /\ Len(timers) \in Nat \ {0} /\ Head(timers) = timers[1]
      /\ Tail(timers) \in Seq(Gens) /\ Len(Tail(timers)) = Len(timers) - 1
      /\ \A i \in 1..Len(timers) - 1 : Tail(timers)[i] = timers[i + 1]
  BY HeadTailProperties, EmptySeq
<1>2. Head(timers) \in ToSet(timers)
  BY <1>1 DEF ToSet
<1>3. ToSet(Tail(timers)) \subseteq ToSet(timers)
  <2>1. ASSUME NEW i \in 1..Len(Tail(timers)) PROVE Tail(timers)[i] \in ToSet(timers)
    <3>1. Tail(timers)[i] = timers[i + 1] /\ i + 1 \in 1..Len(timers)
      BY <1>1
    <3>2. QED
      BY <3>1 DEF ToSet
  <2>2. QED
    BY <1>1, <2>1 DEF ToSet
<1>4. Tail(timers) # <<>> => Last(Tail(timers)) = Last(timers)
  <2>1. SUFFICES ASSUME Tail(timers) # <<>> PROVE Last(Tail(timers)) = Last(timers)
    OBVIOUS
  <2>2. Len(Tail(timers)) \in Nat \ {0}
    BY <1>1, <2>1, EmptySeq
  <2>3. QED
    BY <1>1, <2>2 DEF Last
<1>5. Tail(timers) = <<>> => Head(timers) = Last(timers)
  <2>1. SUFFICES ASSUME Tail(timers) = <<>> PROVE Head(timers) = Last(timers)
    OBVIOUS
  <2>2. \A left \in Seq(Gens) : left = <<>> => Len(left) = 0
    BY EmptySeq
  <2>3. Len(timers) - 1 = 0
    BY <1>1, <2>1, <2>2, Zenon
  <2>4. \A n \in Nat : n - 1 = 0 => n = 1
    OBVIOUS
  <2>5. Len(timers) = 1
    BY <1>1, <2>3, <2>4, Zenon
  <2>6. QED
    BY <1>1, <2>5 DEF Last
<1>6. QED
  BY <1>1, <1>2, <1>3, <1>4, <1>5

(* What waits in a queue of timers are coordinators. *)
LEMMA PendingGens == ASSUME NEW timers \in Seq(Gens) PROVE ToSet(timers) \subseteq Gens
  BY DEF ToSet

(* Nothing waits in an empty one. *)
LEMMA EmptyQueue == ToSet(<<>>) = {}
  BY DEF ToSet

(* The queue of one Store. *)
LEMMA OneTimer ==
  ASSUME NEW g \in Gens
  PROVE  /\ <<g>> \in Seq(Gens) /\ <<g>> # <<>> /\ Last(<<g>>) = g
         /\ ToSet(<<g>>) = {g}
  BY DEF Last, ToSet

(* What a set-up loads has its clock started, and is the file if the file has. *)
LEMMA LoadedCounters ==
  ASSUME NEW file \in Counters \cup {NoFile}
  PROVE  /\ Loaded(file) \in Counters
         /\ Loaded(file).last_descaling >= 1
         /\ (file # NoFile /\ file.last_descaling # 0) => (Loaded(file) = file /\ ~LoadSaves(file))
         /\ Loaded(NoFile).brew_total = 0 /\ Loaded(NoFile).last_descaling = 1
         /\ LoadSaves(NoFile)
  BY StoreAssumption DEF Loaded, LoadSaves, Counters, Fresh

(* A brew and a reset on counters. *)
LEMMA ChangedCounters ==
  ASSUME NEW c \in Counters
  PROVE  /\ CountBrew(c) \in Counters /\ ResetDescaling(c) \in Counters
         /\ CountBrew(c).brew_total = c.brew_total + 1
         /\ CountBrew(c).last_descaling = c.last_descaling
         /\ ResetDescaling(c).brew_total = c.brew_total
         /\ ResetDescaling(c).last_descaling = c.last_descaling + 1
<1>1. /\ CountBrew(c).brew_total = c.brew_total + 1
      /\ CountBrew(c).last_descaling = c.last_descaling
      /\ ResetDescaling(c).brew_total = c.brew_total
      /\ ResetDescaling(c).last_descaling = c.last_descaling + 1
  BY DEF CountBrew, ResetDescaling, Counters
<1>2. CountBrew(c) \in Counters
  <2> DEFINE b == [c EXCEPT !.brew_total = @ + 1]
  <2>1. b \in Counters
    BY DEF Counters
  <2>2. \A d \in Counters : [d EXCEPT !.brews_since_descaling = @ + 1] \in Counters
    BY DEF Counters
  <2>3. CountBrew(c) = [b EXCEPT !.brews_since_descaling = @ + 1]
    BY DEF CountBrew, Counters
  <2>4. QED
    BY <2>1, <2>2, <2>3
<1>3. ResetDescaling(c) \in Counters
  <2> DEFINE b == [c EXCEPT !.brews_since_descaling = 0]
  <2>1. b \in Counters
    BY DEF Counters
  <2>2. \A d \in Counters : [d EXCEPT !.last_descaling = @ + 1] \in Counters
    BY DEF Counters
  <2>3. ResetDescaling(c) = [b EXCEPT !.last_descaling = @ + 1]
    BY DEF ResetDescaling, Counters
  <2>4. QED
    BY <2>1, <2>2, <2>3
<1>4. QED
  BY <1>1, <1>2, <1>3

(* A set-up that loads a file: the new coordinator holds what Loaded makes of   *)
(* it, and asks for a write only if the file had no started clock.              *)
LEMMA LoadStep ==
  ASSUME NEW file \in Counters \cup {NoFile}, NEW others \in SUBSET Gens,
         NEW timers \in Seq(Gens), StoreTypeOK, Load(file, others, timers)
  PROVE  /\ gen' \in Gens /\ mem' \in [Gens -> Counters]
         /\ mem'[gen'] = Loaded(file)
         /\ \A g \in Gens : mem'[g] \in {mem[g], Loaded(file)}
         /\ pending' \in Seq(Gens) /\ ToSet(pending') \subseteq ToSet(timers) \cup {gen'}
         /\ \/ pending' = timers /\ ~LoadSaves(file)
            \/ pending' # <<>> /\ Last(pending') = gen' /\ LoadSaves(file)
         /\ alive' \subseteq others \cup {gen'} /\ entry' \in {"loaded", "unloaded"}
<1>1. gen' \in Gens /\ gen' = gen + 1
  BY StoreAssumption DEF Load, StoreTypeOK, Gens
<1>2. Loaded(file) \in Counters
  BY LoadedCounters
<1>3. mem' = [mem EXCEPT ![gen'] = Loaded(file)]
  BY <1>1 DEF Load
<1>4. /\ mem' \in [Gens -> Counters] /\ mem'[gen'] = Loaded(file)
      /\ \A g \in Gens : mem'[g] \in {mem[g], Loaded(file)}
  BY <1>1, <1>2, <1>3 DEF StoreTypeOK
<1>5. pending' = IF LoadSaves(file) THEN Delayed(timers, gen') ELSE timers
  BY <1>1 DEF Load
<1>6. /\ pending' \in Seq(Gens) /\ ToSet(pending') \subseteq ToSet(timers) \cup {gen'}
      /\ \/ pending' = timers /\ ~LoadSaves(file)
         \/ pending' # <<>> /\ Last(pending') = gen' /\ LoadSaves(file)
  <2>1. CASE LoadSaves(file)
    <3>1. pending' = Delayed(timers, gen')
      BY <1>5, <2>1
    <3>2. QED
      BY <1>1, <2>1, <3>1, DelayedQueue
  <2>2. CASE ~LoadSaves(file)
    BY <1>5, <2>2
  <2>3. QED
    BY <2>1, <2>2
<1>7. alive' \subseteq others \cup {gen'} /\ entry' \in {"loaded", "unloaded"}
  BY <1>1 DEF Load
<1>8. QED
  BY <1>1, <1>4, <1>6, <1>7

-----------------------------------------------------------------------------
(* The first set-up, whether or not its first refresh fails. *)
LEMMA StoreInitInv == StoreInit => StoreInv
<1> SUFFICES ASSUME StoreInit PROVE StoreInv
  OBVIOUS
<1>1. 1 \in Gens /\ Fresh \in Counters
  BY StoreAssumption DEF Gens, Fresh, Counters
<1>2. Loaded(NoFile) \in Counters /\ LoadSaves(NoFile)
      /\ Loaded(NoFile).brew_total = 0 /\ Loaded(NoFile).last_descaling = 1
  BY LoadedCounters
<1>3. pending = <<1>> /\ mem[1] = Loaded(NoFile) /\ owed = Loaded(NoFile) /\ disk = NoFile
  BY <1>1, <1>2 DEF StoreInit
<1>4. mem \in [Gens -> Counters]
  BY <1>1, <1>2 DEF StoreInit
<1>5. pending \in Seq(Gens) /\ pending # <<>> /\ Last(pending) = 1 /\ ToSet(pending) = {1}
  BY <1>1, <1>3, OneTimer
<1>6. StoreTypeOK
  BY <1>1, <1>2, <1>3, <1>4, <1>5 DEF StoreInit, StoreTypeOK
<1>7. NoneAhead
  BY <1>2, <1>3, <1>5 DEF StoreInit, NoneAhead, Within, Holders
<1>8. LoadedKept /\ UnloadedKept /\ RemovedKept
  BY <1>3, <1>5 DEF StoreInit, LoadedKept, UnloadedKept, RemovedKept
<1>9. QED
  BY <1>6, <1>7, <1>8 DEF StoreInv

(* A brew that the current coordinator of a loaded entry counts is owed and is  *)
(* written last; one that another counts makes the run a hurried one.           *)
LEMMA TrackBrewInv ==
  ASSUME StoreInv, NEW g \in Gens, TrackBrew(g)
  PROVE  StoreInv'
<1> USE DEF TrackBrew, StoreInv
<1>1. /\ mem[g] \in Counters /\ mem' = [mem EXCEPT ![g] = CountBrew(mem[g])]
      /\ owed' = CountBrew(owed) /\ owed \in Counters
  BY DEF StoreTypeOK
<1>2. /\ CountBrew(mem[g]) \in Counters /\ owed' \in Counters
      /\ CountBrew(mem[g]).brew_total = mem[g].brew_total + 1
      /\ CountBrew(mem[g]).last_descaling = mem[g].last_descaling
      /\ owed'.brew_total = owed.brew_total + 1
      /\ owed'.last_descaling = owed.last_descaling
  BY <1>1, ChangedCounters
<1>3. /\ pending' \in Seq(Gens) /\ pending' # <<>> /\ Last(pending') = g
      /\ ToSet(pending') \subseteq ToSet(pending) \cup {g}
  BY DelayedQueue DEF StoreTypeOK, Save
<1>4. StoreTypeOK'
  BY <1>1, <1>2, <1>3 DEF StoreTypeOK
<1>5. NoneAhead'
  <2>1. Holders' \subseteq Holders /\ Holders \subseteq Gens
    BY <1>3, PendingGens DEF Holders, StoreTypeOK
  <2>2. ASSUME NEW c \in Counters, Within(c) PROVE Within(c)'
    BY <1>1, <1>2, <2>2 DEF Within, Counters
  <2>3. Within(owed)'
    BY <1>1, <1>2 DEF NoneAhead, Within, Counters
  <2>4. ASSUME NEW h \in Holders' PROVE Within(mem[h])'
    <3>1. Within(mem[h]) /\ h \in Gens /\ mem[h] \in Counters
      BY <2>1 DEF NoneAhead, StoreTypeOK
    <3>2. CASE h = g
      BY <1>1, <1>2, <3>1, <3>2 DEF Within, Counters, StoreTypeOK
    <3>3. CASE h # g
      BY <1>1, <1>2, <3>1, <3>3 DEF Within, Counters, StoreTypeOK
    <3>4. QED
      BY <3>2, <3>3
  <2>5. disk # NoFile => Within(disk)'
    BY <2>2 DEF NoneAhead, StoreTypeOK
  <2>6. QED
    BY <2>3, <2>4, <2>5 DEF NoneAhead
<1>6. ASSUME ~hurried' PROVE LoadedKept' /\ UnloadedKept' /\ RemovedKept'
  <2>1. ~hurried /\ g = gen /\ entry = "loaded" /\ LoadedKept
    BY <1>6
  <2>2. mem'[gen] = owed'
    BY <1>1, <2>1 DEF LoadedKept, StoreTypeOK
  <2>3. QED
    BY <1>3, <2>1, <2>2 DEF LoadedKept, UnloadedKept, RemovedKept
<1>7. QED
  BY <1>4, <1>5, <1>6

(* A reset of the descaling schedule, likewise. *)
LEMMA ResetInv == ASSUME StoreInv, Reset PROVE StoreInv'
<1> USE DEF Reset, StoreInv
<1>1. /\ gen \in Gens /\ mem[gen] \in Counters /\ owed \in Counters
      /\ mem' = [mem EXCEPT ![gen] = ResetDescaling(mem[gen])] /\ owed' = ResetDescaling(owed)
  BY DEF StoreTypeOK
<1>2. /\ ResetDescaling(mem[gen]) \in Counters /\ owed' \in Counters
      /\ ResetDescaling(mem[gen]).brew_total = mem[gen].brew_total
      /\ ResetDescaling(mem[gen]).last_descaling = mem[gen].last_descaling + 1
      /\ owed'.brew_total = owed.brew_total
      /\ owed'.last_descaling = owed.last_descaling + 1
  BY <1>1, ChangedCounters
<1>3. /\ pending' \in Seq(Gens) /\ pending' # <<>> /\ Last(pending') = gen
      /\ ToSet(pending') \subseteq ToSet(pending) \cup {gen}
  BY <1>1, DelayedQueue DEF StoreTypeOK, Save
<1>4. StoreTypeOK'
  BY <1>1, <1>2, <1>3 DEF StoreTypeOK
<1>5. NoneAhead'
  <2>1. Holders' \subseteq Holders /\ Holders \subseteq Gens
    BY <1>1, <1>3, PendingGens DEF Holders, StoreTypeOK
  <2>2. ASSUME NEW c \in Counters, Within(c) PROVE Within(c)'
    BY <1>1, <1>2, <2>2 DEF Within, Counters
  <2>3. Within(owed)'
    BY <1>1, <1>2 DEF NoneAhead, Within, Counters
  <2>4. ASSUME NEW h \in Holders' PROVE Within(mem[h])'
    <3>1. Within(mem[h]) /\ h \in Gens /\ mem[h] \in Counters
      BY <2>1 DEF NoneAhead, StoreTypeOK
    <3>2. CASE h = gen
      BY <1>1, <1>2, <3>1, <3>2 DEF Within, Counters, StoreTypeOK
    <3>3. CASE h # gen
      BY <1>1, <1>2, <3>1, <3>3 DEF Within, Counters, StoreTypeOK
    <3>4. QED
      BY <3>2, <3>3
  <2>5. disk # NoFile => Within(disk)'
    BY <2>2 DEF NoneAhead, StoreTypeOK
  <2>6. QED
    BY <2>3, <2>4, <2>5 DEF NoneAhead
<1>6. ASSUME ~hurried' PROVE LoadedKept' /\ UnloadedKept' /\ RemovedKept'
  <2>1. ~hurried /\ LoadedKept
    BY <1>6
  <2>2. mem'[gen] = owed'
    BY <1>1, <2>1 DEF LoadedKept, StoreTypeOK
  <2>3. QED
    BY <1>3, <2>1, <2>2 DEF LoadedKept, UnloadedKept, RemovedKept
<1>7. QED
  BY <1>4, <1>5, <1>6

(* A write puts into the file what its coordinator holds: everything owed, or   *)
(* something that a later write of the current coordinator replaces.            *)
LEMMA SaveFiresInv == ASSUME StoreInv, SaveFires PROVE StoreInv'
<1> USE DEF SaveFires, StoreInv
<1>1. /\ pending \in Seq(Gens) /\ pending # <<>>
      /\ disk' = mem[Head(pending)] /\ pending' = Tail(pending)
  BY DEF StoreTypeOK
<1>2. /\ Head(pending) \in ToSet(pending) /\ pending' \in Seq(Gens)
      /\ ToSet(pending') \subseteq ToSet(pending)
      /\ pending' # <<>> => Last(pending') = Last(pending)
      /\ pending' = <<>> => Head(pending) = Last(pending)
  BY <1>1, FiredQueue
<1>3. Head(pending) \in Gens
  BY <1>1, <1>2, PendingGens
<1>4. StoreTypeOK'
  BY <1>1, <1>2, <1>3 DEF StoreTypeOK
<1>5. NoneAhead'
  BY <1>1, <1>2 DEF NoneAhead, Within, Holders
<1>6. ASSUME ~hurried' PROVE LoadedKept' /\ UnloadedKept' /\ RemovedKept'
  <2>1. ~hurried /\ LoadedKept /\ UnloadedKept /\ RemovedKept
    BY <1>6
  <2>2. LoadedKept'
    <3>1. CASE pending' # <<>> /\ Last(pending) = gen
      BY <1>2, <2>1, <3>1 DEF LoadedKept
    <3>2. CASE pending' = <<>> /\ Last(pending) = gen
      <4>1. ToSet(pending') = {}
        BY <3>2, EmptyQueue, Zenon
      <4>2. QED
        BY <1>1, <1>2, <2>1, <3>2, <4>1 DEF LoadedKept
    <3>3. CASE disk = owed /\ \A g \in ToSet(pending) : mem[g] = owed
      BY <1>1, <1>2, <2>1, <3>3 DEF LoadedKept
    <3>4. QED
      BY <2>1, <3>1, <3>2, <3>3 DEF LoadedKept
  <2>3. UnloadedKept' /\ RemovedKept'
    BY <1>1, <1>2, <2>1 DEF UnloadedKept, RemovedKept
  <2>4. QED
    BY <2>2, <2>3
<1>7. QED
  BY <1>4, <1>5, <1>6

(* An unload with nothing left to write leaves the file complete. *)
LEMMA UnloadInv == ASSUME StoreInv, Unload PROVE StoreInv'
<1>1. StoreTypeOK'
  BY DEF Unload, StoreInv, StoreTypeOK
<1>2. NoneAhead'
  BY DEF Unload, StoreInv, NoneAhead, Within, Holders
<1>3. ASSUME ~hurried' PROVE LoadedKept' /\ UnloadedKept' /\ RemovedKept'
  <2>1. pending = <<>> /\ LoadedKept
    BY <1>3 DEF Unload, StoreInv
  <2>2. disk' = owed' /\ \A g \in ToSet(pending') : mem'[g] = owed'
    BY <2>1 DEF Unload, LoadedKept
  <2>3. QED
    BY <2>2 DEF Unload, LoadedKept, UnloadedKept, RemovedKept
<1>4. QED
  BY <1>1, <1>2, <1>3 DEF StoreInv

(* A removal with nothing left to write deletes the file for good. *)
LEMMA RemoveFileInv == ASSUME StoreInv, RemoveFile PROVE StoreInv'
<1>1. StoreTypeOK'
  BY DEF RemoveFile, StoreInv, StoreTypeOK
<1>2. NoneAhead'
  BY DEF RemoveFile, StoreInv, NoneAhead, Within, Holders
<1>3. ASSUME ~hurried' PROVE LoadedKept' /\ UnloadedKept' /\ RemovedKept'
  BY <1>3 DEF RemoveFile, StoreInv, LoadedKept, UnloadedKept, RemovedKept
<1>4. QED
  BY <1>1, <1>2, <1>3 DEF StoreInv

(* A file that is Within has its clock started and is loaded as it is. *)
LEMMA LoadedWithin ==
  ASSUME NEW file \in Counters \cup {NoFile}, file # NoFile => Within(file),
         owed \in Counters, Within(owed)
  PROVE  /\ Within(Loaded(file))
         /\ file # NoFile => Loaded(file) = file /\ ~LoadSaves(file)
<1>1. CASE file = NoFile
  BY <1>1, LoadedCounters DEF Within, Counters
<1>2. CASE file # NoFile
  BY <1>2, LoadedCounters DEF Within, Counters
<1>3. QED
  BY <1>1, <1>2

(* A set-up after an unload or a failed one loads everything owed. *)
LEMMA SetUpAgainInv == ASSUME StoreInv, SetUpAgain PROVE StoreInv'
<1> USE DEF SetUpAgain, StoreInv
<1>1. /\ disk \in Counters \cup {NoFile} /\ alive \in SUBSET Gens /\ pending \in Seq(Gens)
      /\ Load(disk, alive, pending) /\ owed \in Counters
  BY DEF StoreTypeOK
<1>2. /\ gen' \in Gens /\ mem' \in [Gens -> Counters]
      /\ mem'[gen'] = Loaded(disk)
      /\ \A g \in Gens : mem'[g] \in {mem[g], Loaded(disk)}
      /\ pending' \in Seq(Gens) /\ ToSet(pending') \subseteq ToSet(pending) \cup {gen'}
      /\ \/ pending' = pending /\ ~LoadSaves(disk)
         \/ pending' # <<>> /\ Last(pending') = gen' /\ LoadSaves(disk)
      /\ alive' \subseteq alive \cup {gen'} /\ entry' \in {"loaded", "unloaded"}
  BY <1>1, LoadStep
<1>3. Within(Loaded(disk)) /\ (disk # NoFile => Loaded(disk) = disk /\ ~LoadSaves(disk))
  BY <1>1, LoadedWithin DEF NoneAhead
<1>4. StoreTypeOK'
  BY <1>1, <1>2 DEF StoreTypeOK
<1>5. NoneAhead'
  <2>1. ASSUME NEW g \in Holders' PROVE Within(mem[g])'
    <3>1. g \in Holders \/ g = gen'
      BY <1>2, <2>1 DEF Holders
    <3>2. g \in Gens
      BY <1>1, <1>2, <3>1, PendingGens DEF Holders, StoreTypeOK
    <3>3. g = gen' => mem'[g] = Loaded(disk)
      BY <1>2
    <3>4. Within(mem'[g])
      BY <1>2, <1>3, <3>1, <3>2, <3>3 DEF NoneAhead
    <3>5. QED
      BY <3>4 DEF Within
  <2>2. QED
    BY <2>1 DEF NoneAhead, Within
<1>6. ASSUME ~hurried' PROVE LoadedKept' /\ UnloadedKept' /\ RemovedKept'
  <2>1. UnloadedKept /\ entry = "unloaded"
    BY <1>6
  <2>2. Loaded(disk) = owed
    BY <1>1, <1>3, <2>1, StoreAssumption DEF UnloadedKept
  <2>3. \A g \in ToSet(pending') : mem'[g] = owed
    BY <1>1, <1>2, <2>1, <2>2, PendingGens DEF UnloadedKept
  <2>4. \/ disk = owed
        \/ /\ pending' # <<>> /\ Last(pending') = gen'
           /\ disk = NoFile /\ owed = Loaded(NoFile)
    BY <1>1, <1>2, <1>3, <2>2, LoadedCounters
  <2>5. QED
    BY <1>2, <2>2, <2>3, <2>4 DEF LoadedKept, UnloadedKept, RemovedKept
<1>7. QED
  BY <1>4, <1>5, <1>6

(* Home Assistant starts again with a file and an empty queue. *)
LEMMA StartInv ==
  ASSUME StoreInv, NEW file \in Counters \cup {NoFile}, Load(file, {}, <<>>), disk' = file,
         owed' \in Counters, Within(owed)', file # NoFile => Within(file)',
         hurried' \in BOOLEAN, ~hurried' => owed' = Loaded(file)
  PROVE  StoreInv'
<1>1. <<>> \in Seq(Gens) /\ {} \in SUBSET Gens /\ ToSet(<<>>) = {} /\ StoreTypeOK
  BY EmptyQueue DEF StoreInv
<1>2. /\ gen' \in Gens /\ mem' \in [Gens -> Counters]
      /\ mem'[gen'] = Loaded(file)
      /\ pending' \in Seq(Gens) /\ ToSet(pending') \subseteq {gen'}
      /\ \/ pending' = <<>> /\ ~LoadSaves(file)
         \/ pending' # <<>> /\ Last(pending') = gen' /\ LoadSaves(file)
      /\ alive' \subseteq {gen'} /\ entry' \in {"loaded", "unloaded"}
  <2> HIDE DEF StoreInv
  <2>1. QED
    BY <1>1, LoadStep
<1>3. Within(Loaded(file))' /\ (file # NoFile => Loaded(file) = file /\ ~LoadSaves(file))
  <2>1. CASE file = NoFile
    BY <2>1, LoadedCounters DEF Within, Counters
  <2>2. CASE file # NoFile
    BY <2>2, LoadedCounters DEF Within, Counters
  <2>3. QED
    BY <2>1, <2>2
<1>4. StoreTypeOK'
  BY <1>1, <1>2 DEF StoreTypeOK
<1>5. NoneAhead'
  <2>1. ASSUME NEW g \in Holders' PROVE Within(mem[g])'
    <3>1. g = gen'
      BY <1>2, <2>1 DEF Holders
    <3>2. QED
      BY <1>2, <1>3, <3>1
  <2>2. QED
    BY <2>1 DEF NoneAhead
<1>6. ASSUME ~hurried' PROVE LoadedKept' /\ UnloadedKept' /\ RemovedKept'
  <2>1. \A g \in ToSet(pending') : mem'[g] = owed'
    BY <1>2, <1>6
  <2>2. \/ disk' = owed'
        \/ /\ pending' # <<>> /\ Last(pending') = gen'
           /\ disk' = NoFile /\ owed' = Loaded(NoFile)
    BY <1>2, <1>3, <1>6, LoadedCounters
  <2>3. QED
    BY <1>2, <1>6, <2>1, <2>2 DEF LoadedKept, UnloadedKept, RemovedKept
<1>7. QED
  BY <1>4, <1>5, <1>6 DEF StoreInv

(* A clean stop: with at most one write outstanding the file is complete. *)
LEMMA RestartInv == ASSUME StoreInv, Restart PROVE StoreInv'
<1>1. /\ pending \in Seq(Gens) /\ mem \in [Gens -> Counters] /\ owed \in Counters
      /\ disk \in Counters \cup {NoFile} /\ hurried \in BOOLEAN
  BY DEF StoreInv, StoreTypeOK
<1>2. PICK file \in IF pending = <<>> THEN {disk} ELSE {mem[g] : g \in ToSet(pending)} :
        disk' = file /\ Load(file, {}, <<>>)
  BY DEF Restart
<1>3. owed' = owed /\ hurried' = (hurried \/ Len(pending) > 1) /\ entry # "removed"
  BY DEF Restart
<1>4. file \in Counters \cup {NoFile} /\ (file # NoFile => Within(file))
  <2>1. CASE pending = <<>>
    BY <1>1, <1>2, <2>1 DEF StoreInv, NoneAhead
  <2>2. CASE pending # <<>>
    <3>1. PICK g \in ToSet(pending) : file = mem[g]
      BY <1>2, <2>2
    <3>2. QED
      BY <1>1, <3>1, PendingGens DEF StoreInv, NoneAhead, Holders
  <2>3. QED
    BY <2>1, <2>2
<1>5. Within(owed)' /\ (file # NoFile => Within(file)')
  BY <1>3, <1>4 DEF StoreInv, NoneAhead, Within
<1>6. ASSUME ~hurried' PROVE owed' = Loaded(file)
  <2>1. /\ ~hurried /\ LoadedKept /\ UnloadedKept /\ entry \in {"loaded", "unloaded"}
        /\ ~(Len(pending) > 1)
    BY <1>1, <1>3, <1>6 DEF StoreInv, StoreTypeOK
  <2>2. file = owed \/ (file = NoFile /\ owed = Loaded(NoFile))
    <3>1. CASE pending = <<>>
      BY <1>2, <2>1, <3>1 DEF LoadedKept, UnloadedKept
    <3>2. CASE pending # <<>>
      <4>1. PICK g \in ToSet(pending) : file = mem[g]
        BY <1>2, <3>2
      <4>2. g = Last(pending)
        BY <1>1, <2>1, <3>2 DEF ToSet, Last
      <4>3. mem[g] = owed
        BY <2>1, <4>2 DEF LoadedKept, UnloadedKept
      <4>4. QED
        BY <4>1, <4>3
    <3>3. QED
      BY <3>1, <3>2
  <2>3. owed # NoFile /\ Loaded(owed) = owed
    BY <1>1, StoreAssumption, LoadedWithin DEF StoreInv, NoneAhead
  <2>4. QED
    BY <1>3, <2>2, <2>3
<1>7. hurried' \in BOOLEAN /\ owed' \in Counters
  BY <1>1, <1>3
<1>8. QED
  BY <1>2, <1>4, <1>5, <1>6, <1>7, StartInv

(* A crash: what the file lacks is written off. *)
LEMMA CrashInv == ASSUME StoreInv, Crash PROVE StoreInv'
<1>1. /\ disk \in Counters \cup {NoFile} /\ (disk # NoFile => Within(disk))
      /\ owed \in Counters /\ Within(owed) /\ hurried \in BOOLEAN
  BY DEF StoreInv, StoreTypeOK, NoneAhead
<1>2. Load(disk, {}, <<>>) /\ disk' = disk /\ hurried' = hurried /\ owed' = Loaded(disk)
  BY DEF Crash
<1>3. /\ owed' \in Counters /\ owed'.last_descaling >= 1
      /\ disk # NoFile => owed' = disk
  BY <1>1, <1>2, LoadedCounters, LoadedWithin
<1>4. Within(owed)'
  BY <1>3 DEF Within, Counters
<1>5. disk # NoFile => Within(disk)'
  BY <1>2, <1>3, <1>4 DEF Within
<1>6. QED
  BY <1>1, <1>2, <1>3, <1>4, <1>5, StartInv

-----------------------------------------------------------------------------
(* Every state of every behaviour satisfies the inductive invariant, the types  *)
(* of all variables among it.                                                   *)
THEOREM StoreInvariant == StoreSpec => []StoreInv
<1>1. StoreInv /\ [StoreNext]_storeVars => StoreInv'
  <2> SUFFICES ASSUME StoreInv, [StoreNext]_storeVars PROVE StoreInv'
    OBVIOUS
  <2>1. CASE \E g \in Gens : TrackBrew(g)
    BY <2>1, TrackBrewInv
  <2>2. CASE SaveFires
    BY <2>2, SaveFiresInv
  <2>3. CASE Reset
    BY <2>3, ResetInv
  <2>4. CASE Unload
    BY <2>4, UnloadInv
  <2>5. CASE SetUpAgain
    BY <2>5, SetUpAgainInv
  <2>6. CASE RemoveFile
    BY <2>6, RemoveFileInv
  <2>7. CASE Restart
    BY <2>7, RestartInv
  <2>8. CASE Crash
    BY <2>8, CrashInv
  <2>9. CASE UNCHANGED storeVars
    BY <2>9 DEF storeVars, StoreInv, StoreTypeOK, NoneAhead, Holders, Within,
          LoadedKept, UnloadedKept, RemovedKept
  <2>10. QED
    BY <2>1, <2>2, <2>3, <2>4, <2>5, <2>6, <2>7, <2>8, <2>9 DEF StoreNext
<1>2. QED
  BY <1>1, StoreInitInv, PTL DEF StoreSpec

(* The counters of a loaded entry are those that every brew and reset adds up   *)
(* to, and the file is behind them only while a write is scheduled, unless the  *)
(* entry was unloaded or removed, or Home Assistant stopped, in a hurry.        *)
THEOREM StoreKeepsCounters == StoreSpec => []CountersSurviveUnhurried
<1>1. StoreInv => CountersSurviveUnhurried
  <2> SUFFICES ASSUME StoreInv PROVE CountersSurviveUnhurried
    OBVIOUS
  <2>1. (~hurried /\ entry = "loaded" /\ pending = <<>>) => disk = mem[gen]
    BY DEF StoreInv, LoadedKept
  <2>2. QED
    BY <2>1 DEF StoreInv, LoadedKept, RemovedKept, CountersSurviveUnhurried
<1>2. QED
  BY <1>1, StoreInvariant, PTL

(* No reload, crash, retry or late write makes a counter run ahead of what      *)
(* happened.                                                                    *)
THEOREM StoreInventsNothing == StoreSpec => []NothingInvented
<1>1. StoreInv => NothingInvented
  BY DEF StoreInv, NoneAhead, Holders, Within, NothingInvented
<1>2. QED
  BY <1>1, StoreInvariant, PTL

-----------------------------------------------------------------------------
(* While a loaded entry is idle its timer runs, and what has passed and what is *)
(* left of it make at most an interval.                                         *)
TimerRuns ==
    setup = "loaded" =>
        /\ idle <= Interval
        /\ refresh = "none" => timer # Off /\ idle + timer <= Interval

(* A request that did not start a refresh is remembered by a running debouncer. *)
RequestRemembered ==
    setup = "loaded" =>
        /\ asked # Off =>
              refresh = "none" /\ again /\ cool # Off /\ asked + cool <= Cooldown
        /\ unread /\ refresh = "none" => asked # Off

(* A refresh that reads has the lock, and nothing is written under it. *)
ReadingExcludesWriting == refresh \in Found \cup {"overheld"} => ~locked /\ ~unread

(* The flag, the way the last refresh ended, and the reports of the outage. *)
FlagAndLog ==
    /\ lines <= 1 /\ ~blamed
    /\ setup = "loaded" =>
        /\ data
        /\ success <=> last = "read"
        /\ success => lines = 0

(* The first refresh of a set-up has nothing behind it. *)
FirstIsFresh ==
    setup = "first" =>
        /\ refresh # "none" /\ ~data
        /\ lines = 0 /\ ~unread /\ asked = Off /\ ~locked

(* Without a set-up there is a coordinator that did nothing yet. *)
NothingRuns == setup \in {"absent", "new"} => refresh = "none" /\ ~locked

KeyIsKept == key = keys /\ keys <= 1 /\ (setup # "first" \/ key = 1)

CycleInv ==
    /\ CycleTypeOK
    /\ TimerRuns
    /\ RequestRemembered
    /\ ReadingExcludesWriting
    /\ FlagAndLog
    /\ FirstIsFresh
    /\ NothingRuns
    /\ KeyIsKept

-----------------------------------------------------------------------------
(* Before the entry exists. *)
LEMMA CycleInitInv == CycleInit => CycleInv
<1> SUFFICES ASSUME CycleInit PROVE CycleInv
  OBVIOUS
<1> USE CycleAssumption DEF CycleInit, Found
<1>1. FlagTypes
  BY DEF FlagTypes
<1>2. PhaseTypes
  BY DEF PhaseTypes
<1>3. CountTypes
  BY DEF CountTypes
<1>4. TimerRuns
  BY DEF TimerRuns
<1>5. RequestRemembered
  BY DEF RequestRemembered
<1>6. ReadingExcludesWriting
  BY DEF ReadingExcludesWriting
<1>7. FlagAndLog
  BY DEF FlagAndLog
<1>8. FirstIsFresh
  BY DEF FirstIsFresh
<1>9. NothingRuns
  BY DEF NothingRuns
<1>10. KeyIsKept
  BY DEF KeyIsKept
<1> QED
  BY <1>1, <1>2, <1>3, <1>4, <1>5, <1>6, <1>7, <1>8, <1>9, <1>10 DEF CycleInv, CycleTypeOK

(* A step keeps the types. *)
LEMMA CycleStepTypes == CycleInv /\ [CycleNext]_cycleVars => CycleTypeOK'
<1> SUFFICES ASSUME CycleInv, [CycleNext]_cycleVars PROVE CycleTypeOK'
  OBVIOUS
<1> USE CycleAssumption
    DEF CycleInv, CycleTypeOK, Found, entryVars, coordinator, debouncer, bluetooth, history
<1>1. CASE AddEntry
  BY <1>1 DEF AddEntry, FlagTypes, PhaseTypes, CountTypes
<1>2. CASE SetUp
  <2>1. FlagTypes'
    BY <1>2 DEF SetUp, FirstRefresh, Begin, FlagTypes
  <2>2. PhaseTypes'
    BY <1>2 DEF SetUp, FirstRefresh, Begin, PhaseTypes
  <2>3. CountTypes'
    BY <1>2 DEF SetUp, FirstRefresh, Begin, CountTypes
  <2> QED
    BY <2>1, <2>2, <2>3
<1>3. CASE Reload
  BY <1>3 DEF Reload, GiveUp, FlagTypes, PhaseTypes, CountTypes
<1>4. CASE RemoveEntry
  BY <1>4 DEF RemoveEntry, GiveUp, FlagTypes, PhaseTypes, CountTypes
<1>5. CASE Tick
  BY <1>5 DEF Tick, FlagTypes, PhaseTypes, CountTypes
<1>6. CASE TimerFires
  BY <1>6 DEF TimerFires, Begin, FlagTypes, PhaseTypes, CountTypes
<1>7. CASE CooldownEnds
  <2>1. FlagTypes'
    BY <1>7 DEF CooldownEnds, Begin, FlagTypes
  <2>2. PhaseTypes'
    BY <1>7 DEF CooldownEnds, Begin, PhaseTypes
  <2>3. CountTypes'
    BY <1>7 DEF CooldownEnds, Begin, CountTypes
  <2> QED
    BY <2>1, <2>2, <2>3
<1>8. CASE ReadHeldLink
  <2>1. FlagTypes'
    BY <1>8 DEF ReadHeldLink, Read, FlagTypes
  <2>2. PhaseTypes'
    BY <1>8 DEF ReadHeldLink, Read, PhaseTypes
  <2>3. CountTypes'
    BY <1>8 DEF ReadHeldLink, Read, CountTypes
  <2> QED
    BY <2>1, <2>2, <2>3
<1>9. CASE LookUp
  <2>1. FlagTypes'
    BY <1>9 DEF LookUp, NoHeldLink, Read, EndRefresh, Fails, ErrorLines,
          GoneLines, FlagTypes
  <2>2. PhaseTypes'
    BY <1>9 DEF LookUp, NoHeldLink, Read, EndRefresh, Fails, ErrorLines,
          GoneLines, PhaseTypes
  <2>3. CountTypes'
    BY <1>9 DEF LookUp, NoHeldLink, Read, EndRefresh, Fails, ErrorLines,
          GoneLines, CountTypes
  <2> QED
    BY <2>1, <2>2, <2>3
<1>10. CASE ReadEnds /\ EndRefresh(TRUE, 0) /\ UNCHANGED blamed
  <2>1. FlagTypes'
    BY <1>10 DEF EndRefresh, ReadEnds, FlagTypes
  <2>2. PhaseTypes'
    BY <1>10 DEF EndRefresh, ReadEnds, PhaseTypes
  <2>3. CountTypes'
    BY <1>10 DEF EndRefresh, ReadEnds, CountTypes
  <2> QED
    BY <2>1, <2>2, <2>3
<1>11. CASE ReadEnds /\ Fails
  <2>1. FlagTypes'
    BY <1>11 DEF ReadEnds, Fails, EndRefresh, ErrorLines, FlagTypes
  <2>2. PhaseTypes'
    BY <1>11 DEF ReadEnds, Fails, EndRefresh, ErrorLines, PhaseTypes
  <2>3. CountTypes'
    BY <1>11 DEF ReadEnds, Fails, EndRefresh, ErrorLines, CountTypes
  <2> QED
    BY <2>1, <2>2, <2>3
<1>12. CASE BleEvent
  <2>1. FlagTypes'
    BY <1>12 DEF BleEvent, NoRequest, Request, Begin, FlagTypes
  <2>2. PhaseTypes'
    BY <1>12 DEF BleEvent, NoRequest, Request, Begin, PhaseTypes
  <2>3. CountTypes'
    BY <1>12 DEF BleEvent, NoRequest, Request, Begin, CountTypes
  <2> QED
    BY <2>1, <2>2, <2>3
<1>13. CASE MachineGone
  <2>1. FlagTypes'
    <3>1. success' \in BOOLEAN
      BY <1>13 DEF FlagTypes, MachineGone
    <3>2. QED
      BY <1>13, <3>1 DEF FlagTypes, MachineGone
  <2>2. PhaseTypes'
    BY <1>13 DEF MachineGone, GoneLines, PhaseTypes
  <2>3. CountTypes'
    BY <1>13 DEF MachineGone, GoneLines, CountTypes
  <2> QED
    BY <2>1, <2>2, <2>3
<1>14. CASE Operate
  BY <1>14 DEF Operate, FlagTypes, PhaseTypes, CountTypes
<1>15. CASE HeldLinkDrops
  <2>1. FlagTypes'
    BY <1>15 DEF HeldLinkDrops, FlagTypes
  <2>2. PhaseTypes'
    BY <1>15 DEF HeldLinkDrops, PhaseTypes
  <2>3. CountTypes'
    BY <1>15 DEF HeldLinkDrops, CountTypes
  <2> QED
    BY <2>1, <2>2, <2>3
<1>16. CASE \E b \in BOOLEAN : Advertise(b)
  <2>1. FlagTypes'
    BY <1>16 DEF Advertise, NoRequest, Request, Begin, FlagTypes
  <2>2. PhaseTypes'
    BY <1>16 DEF Advertise, NoRequest, Request, Begin, PhaseTypes
  <2>3. CountTypes'
    BY <1>16 DEF Advertise, NoRequest, Request, Begin, CountTypes
  <2> QED
    BY <2>1, <2>2, <2>3
<1>17. CASE \E b \in BOOLEAN : OperationEnds(b)
  <2>1. FlagTypes'
    BY <1>17 DEF OperationEnds, NoRequest, Request, Begin, FlagTypes
  <2>2. PhaseTypes'
    BY <1>17 DEF OperationEnds, NoRequest, Request, Begin, PhaseTypes
  <2>3. CountTypes'
    BY <1>17 DEF OperationEnds, NoRequest, Request, Begin, CountTypes
  <2> QED
    BY <2>1, <2>2, <2>3
<1>18. CASE UNCHANGED cycleVars
  BY <1>18 DEF cycleVars, FlagTypes, PhaseTypes, CountTypes
<1>19. CASE ReadEnds
  BY <1>10, <1>11, <1>19 DEF ReadEnds
<1>20. CASE ConnectionAborts
  BY <1>20 DEF ConnectionAborts, FlagTypes, PhaseTypes, CountTypes
<1>21. CASE LookUpAgain
  <2>1. CASE Fails
    <3>1. FlagTypes'
      BY <1>21, <2>1 DEF LookUpAgain, Fails, EndRefresh, FlagTypes
    <3>2. PhaseTypes'
      BY <1>21, <2>1 DEF LookUpAgain, Fails, EndRefresh, PhaseTypes
    <3>3. CountTypes'
      BY <1>21, <2>1 DEF LookUpAgain, Fails, EndRefresh, ErrorLines, CountTypes
    <3> QED
      BY <3>1, <3>2, <3>3
  <2>2. CASE ~Fails
    BY <1>21, <2>2 DEF LookUpAgain, FlagTypes, PhaseTypes, CountTypes
  <2> QED
    BY <2>1, <2>2
<1> QED
  BY <1>1, <1>2, <1>3, <1>4, <1>5, <1>6, <1>7, <1>8, <1>9, <1>12, <1>13,
      <1>14, <1>15, <1>16, <1>17, <1>18, <1>19, <1>20, <1>21 DEF CycleNext

RestOfInv ==
    /\ TimerRuns /\ RequestRemembered /\ ReadingExcludesWriting
    /\ FlagAndLog /\ FirstIsFresh /\ NothingRuns /\ KeyIsKept

(* A step keeps the rest of the invariant. *)
LEMMA CycleStepRest == CycleInv /\ [CycleNext]_cycleVars => RestOfInv'
<1> SUFFICES ASSUME CycleInv, [CycleNext]_cycleVars PROVE RestOfInv'
  OBVIOUS
<1> USE CycleAssumption
    DEF RestOfInv, CycleInv, CycleTypeOK, Found, entryVars, coordinator, debouncer, bluetooth, history
<1>1. CASE AddEntry
  BY <1>1 DEF AddEntry, TimerRuns, RequestRemembered, ReadingExcludesWriting,
        FlagAndLog, FirstIsFresh, NothingRuns, KeyIsKept
<1>2. CASE SetUp
  BY <1>2 DEF SetUp, FirstRefresh, Begin, CountTypes, TimerRuns,
        RequestRemembered, ReadingExcludesWriting, FlagAndLog, FirstIsFresh, NothingRuns, KeyIsKept
<1>3. CASE Reload
  BY <1>3 DEF Reload, GiveUp, TimerRuns, RequestRemembered,
        ReadingExcludesWriting, FlagAndLog, FirstIsFresh, NothingRuns, KeyIsKept
<1>4. CASE RemoveEntry
  BY <1>4 DEF RemoveEntry, GiveUp, TimerRuns, RequestRemembered,
        ReadingExcludesWriting, FlagAndLog, FirstIsFresh, NothingRuns, KeyIsKept
<1>5. CASE Tick
  BY <1>5 DEF Tick, CountTypes, TimerRuns, RequestRemembered,
        ReadingExcludesWriting, FlagAndLog, FirstIsFresh, NothingRuns, KeyIsKept
<1>6. CASE TimerFires
  BY <1>6 DEF TimerFires, Begin, TimerRuns, RequestRemembered,
        ReadingExcludesWriting, FlagAndLog, FirstIsFresh, NothingRuns, KeyIsKept
<1>7. CASE CooldownEnds
  BY <1>7 DEF CooldownEnds, Begin, TimerRuns, RequestRemembered,
        ReadingExcludesWriting, FlagAndLog, FirstIsFresh, NothingRuns, KeyIsKept
<1>8. CASE ReadHeldLink
  BY <1>8 DEF ReadHeldLink, Read, TimerRuns, RequestRemembered,
        ReadingExcludesWriting, FlagAndLog, FirstIsFresh, NothingRuns, KeyIsKept
<1>9. CASE LookUp
  BY <1>9 DEF LookUp, NoHeldLink, Read, EndRefresh, Fails, ErrorLines,
        GoneLines, FlagTypes, PhaseTypes, CountTypes, TimerRuns, RequestRemembered, ReadingExcludesWriting, FlagAndLog, FirstIsFresh, NothingRuns, KeyIsKept
<1>10. CASE ReadEnds /\ EndRefresh(TRUE, 0) /\ UNCHANGED blamed
  <2>1. TimerRuns'
    BY <1>10 DEF EndRefresh, ReadEnds, FlagTypes, PhaseTypes, CountTypes,
          TimerRuns
  <2>2. RequestRemembered'
    BY <1>10 DEF EndRefresh, ReadEnds, RequestRemembered,
          ReadingExcludesWriting
  <2>3. ReadingExcludesWriting'
    BY <1>10 DEF EndRefresh, ReadEnds, ReadingExcludesWriting
  <2>4. FlagAndLog'
    <3>1. data' /\ success' /\ last' = "read" /\ lines' = 0 /\ blamed' = blamed
      BY <1>10 DEF EndRefresh, ReadEnds
    <3>2. QED
      BY <3>1 DEF FlagAndLog
  <2>5. FirstIsFresh'
    BY <1>10 DEF EndRefresh, ReadEnds, FirstIsFresh
  <2>6. NothingRuns'
    BY <1>10 DEF EndRefresh, ReadEnds, FlagAndLog, NothingRuns, KeyIsKept
  <2>7. KeyIsKept'
    BY <1>10 DEF EndRefresh, ReadEnds, ReadingExcludesWriting, FirstIsFresh,
          NothingRuns, KeyIsKept
  <2> QED
    BY <2>1, <2>2, <2>3, <2>4, <2>5, <2>6, <2>7
<1>11. CASE ReadEnds /\ Fails
  BY <1>11 DEF ReadEnds, Fails, EndRefresh, ErrorLines, FlagTypes, PhaseTypes,
        CountTypes, TimerRuns, RequestRemembered, ReadingExcludesWriting, FlagAndLog, FirstIsFresh, NothingRuns, KeyIsKept
<1>12. CASE BleEvent
  BY <1>12 DEF BleEvent, NoRequest, Request, Begin, CountTypes, TimerRuns,
        RequestRemembered, ReadingExcludesWriting, FlagAndLog, FirstIsFresh, NothingRuns, KeyIsKept
<1>13. CASE MachineGone
  BY <1>13 DEF MachineGone, GoneLines, CountTypes, TimerRuns,
        RequestRemembered, ReadingExcludesWriting, FlagAndLog, FirstIsFresh, NothingRuns, KeyIsKept
<1>14. CASE Operate
  BY <1>14 DEF Operate, TimerRuns, RequestRemembered, ReadingExcludesWriting,
        FlagAndLog, FirstIsFresh, NothingRuns, KeyIsKept
<1>15. CASE HeldLinkDrops
  BY <1>15 DEF HeldLinkDrops, TimerRuns, RequestRemembered,
        ReadingExcludesWriting, FlagAndLog, FirstIsFresh, NothingRuns, KeyIsKept
<1>16. CASE \E b \in BOOLEAN : Advertise(b)
  BY <1>16 DEF Advertise, NoRequest, Request, Begin, CountTypes, TimerRuns,
        RequestRemembered, ReadingExcludesWriting, FlagAndLog, FirstIsFresh, NothingRuns, KeyIsKept
<1>17. CASE \E b \in BOOLEAN : OperationEnds(b)
  BY <1>17 DEF OperationEnds, NoRequest, Request, Begin, CountTypes,
        TimerRuns, RequestRemembered, ReadingExcludesWriting, FlagAndLog, FirstIsFresh, NothingRuns, KeyIsKept
<1>18. CASE UNCHANGED cycleVars
  BY <1>18 DEF cycleVars, TimerRuns, RequestRemembered, ReadingExcludesWriting, FlagAndLog, FirstIsFresh, NothingRuns, KeyIsKept
<1>19. CASE ReadEnds
  BY <1>10, <1>11, <1>19 DEF ReadEnds
<1>20. CASE ConnectionAborts
  BY <1>20 DEF ConnectionAborts, TimerRuns, RequestRemembered, ReadingExcludesWriting,
        FlagAndLog, FirstIsFresh, NothingRuns, KeyIsKept
<1>21. CASE LookUpAgain /\ refresh' = "retried"
  BY <1>21 DEF LookUpAgain, Fails, EndRefresh, TimerRuns, RequestRemembered,
        ReadingExcludesWriting, FlagAndLog, FirstIsFresh, NothingRuns, KeyIsKept
<1>22. CASE LookUpAgain /\ Fails
  BY <1>22 DEF LookUpAgain, Fails, EndRefresh, ErrorLines, FlagTypes, PhaseTypes,
        CountTypes, TimerRuns, RequestRemembered, ReadingExcludesWriting, FlagAndLog, FirstIsFresh, NothingRuns, KeyIsKept
<1>23. CASE LookUpAgain
  BY <1>21, <1>22, <1>23 DEF LookUpAgain
<1> QED
  BY <1>1, <1>2, <1>3, <1>4, <1>5, <1>6, <1>7, <1>8, <1>9, <1>12, <1>13,
      <1>14, <1>15, <1>16, <1>17, <1>18, <1>19, <1>20, <1>23 DEF CycleNext

-----------------------------------------------------------------------------
(* Every state of every behaviour satisfies the inductive invariant, the types  *)
(* of all variables among it.                                                   *)
THEOREM CycleInvariant == CycleSpec => []CycleInv
<1>1. CycleInv /\ [CycleNext]_cycleVars => CycleInv'
  BY CycleStepTypes, CycleStepRest DEF CycleInv, RestOfInv
<1>2. QED
  BY <1>1, CycleInitInv, PTL DEF CycleSpec

(* However many events ask for a refresh or publish without one, a loaded entry *)
(* never goes without a refresh for longer than its interval.                   *)
THEOREM PollsNeverStop == CycleSpec => []PollsGoOn
<1>1. CycleInv => PollsGoOn
  BY CycleAssumption DEF CycleInv, TimerRuns, PollsGoOn
<1>2. QED
  BY <1>1, CycleInvariant, PTL

(* Entities are available exactly while the last thing that ended was a         *)
(* successful read.                                                             *)
THEOREM AvailabilityIsReal == CycleSpec => []AvailableMeansRead
<1>1. CycleInv => AvailableMeansRead
  BY CycleAssumption DEF CycleInv, FlagAndLog, AvailableMeansRead
<1>2. QED
  BY <1>1, CycleInvariant, PTL

(* However callback, polls and Home Assistant interleave, an outage is reported *)
(* once, and never as an error by a poll that does not find the machine when it *)
(* first looks for it.                                                          *)
THEOREM OutagesLogOnce == CycleSpec => []OneLinePerOutage
<1>1. CycleInv => OneLinePerOutage
  BY CycleAssumption DEF CycleInv, FlagAndLog, OneLinePerOutage
<1>2. QED
  BY <1>1, CycleInvariant, PTL

(* What was asked for while nothing ran begins within the cooldown.             *)
THEOREM RequestsAreServed == CycleSpec => []AskedIsServed
<1>1. CycleInv => AskedIsServed
  BY CycleAssumption DEF CycleInv, RequestRemembered, CycleTypeOK, CountTypes, AskedIsServed
<1>2. QED
  BY <1>1, CycleInvariant, PTL

(* However many set-ups fail, an entry has one auth key.                        *)
THEOREM KeySurvivesRetries == CycleSpec => []OneKeyPerEntry
<1>1. CycleInv => OneKeyPerEntry
  BY CycleAssumption DEF CycleInv, KeyIsKept, OneKeyPerEntry
<1>2. QED
  BY <1>1, CycleInvariant, PTL
-----------------------------------------------------------------------------
-----------------------------------------------------------------------------
(* Side by side, each of the two does what it does alone. *)
THEOREM HouseRunsBoth == HouseSpec => StoreSpec /\ CycleSpec
<1>1. HouseInit => StoreInit /\ CycleInit
  BY DEF HouseInit
<1>2. [HouseNext]_houseVars => [StoreNext]_storeVars /\ [CycleNext]_cycleVars
  BY DEF HouseNext, OnStore, OnCycle, houseVars
<1>3. QED
  BY <1>1, <1>2, PTL DEF HouseSpec, StoreSpec, CycleSpec

(* The variables of both keep their types. *)
THEOREM HouseTypes == HouseSpec => []HouseTypeOK
<1>1. StoreInv /\ CycleInv => HouseTypeOK
  BY DEF StoreInv, CycleInv, HouseTypeOK
<1>2. QED
  BY <1>1, HouseRunsBoth, StoreInvariant, CycleInvariant, PTL
=============================================================================
