# Verification of the Nespresso Smart integration

TLA+ models, TLC runs and TLAPS proofs for the Home Assistant integration in
`src/custom_components/nespresso/`. Paths below are relative to that directory.
`PROJECT.json` ties every definition to the lines it models, every run to its
properties, and every property to a mutation of the code's model it catches.

## 1. The system

The integration talks to one coffee machine over Bluetooth LE. Everything runs
on one asyncio event loop, so the code between two awaits is atomic and every
race is a race of awaits.

| Component | State it keeps | Operations | Talks to |
|---|---|---|---|
| Coordinator, link side (`coordinator.py`) | `_ble_lock`, `_client`, `_keep_connection`, `last_update_success`, `data` | refresh, session (number writes, Wi-Fi), command, watch, keep/release, shutdown, machine gone | protocol, Home Assistant's refresh, brew button |
| Brew button (`button.py`) | `_brew_pending` | press: wait for the machine, command, refresh, release | coordinator |
| Status updates (`coordinator.py`, `models.py`) | `data`, counters | poll, notification and advertisement publish; brews are counted, triggers fired | machine, event bus, counters |
| Counters (`coordinator.py`, `__init__.py`) | `brew_total`, `brews_since_descaling`, `last_descaling`, a file | load, count, reset, delayed save, removal | Home Assistant's Store |
| Link encryption (`ble/protocol.py`) | `_ELEVATED`, `_ENCRYPTED`, `_NEEDS_ENCRYPTION`, `_PAIR_FAILURES` | ask for encryption up front or on refusal, back off | bleak, poll |
| Authentication and onboarding (`ble/protocol.py`) | none between calls; the machine keeps a token | read state, TX level request, token, poll for the verdict, verify | machine |
| Update cycle (`coordinator.py`, `__init__.py`) | poll timer, debouncer, `last_update_success`, the entry's auth key | poll, request, availability callbacks, set-up and its retries | Home Assistant, Bluetooth |
| Reading a machine (`ble/protocol.py`, `ble/parsing.py`) | the machine's error selection | series of reads, some optional, one selected by a write; parsing | poll |
| Fast paths (`coordinator.py`) | `data`, `pairing_key_state` | a notification or an advertisement refines the dataset | status updates |
| Writes (`select.py`, `button.py`, `number.py`, `config_flow.py`) | the choices of the selects, the machine's settings, the auth key | recipe, brew command, the two numbers, a typed or made key | session, command |
| Wi-Fi (`ble/protocol.py`, `ble/parsing.py`) | none; the machine keeps market and network | scan, configure | session |
| Set-up and unload (`__init__.py`) | Bluetooth callbacks, services | first refresh, reload, unload, removal | all of them |
| Event entity, brewing timer (`event.py`, `timer_sensor.py`) | the state last heard, the tick and its start | hear an update, be added and removed | `data` |
| Config flow, sensors, language select, diagnostics | views and stored options | | `data` |

What is hard here, and what makes each part correct:

* **One machine, one BLE client.** Overlapping refreshes, operations, a brew
  press, a release, an unload and a link that drops at any await share
  `_client` and the lock. Correct means: one task inside the lock, at most one
  live link, no link that nobody will close, no link closed under its user.
* **A press spans minutes and several refreshes.** It must end on every path,
  give up the link it kept, and never brew twice.
* **Three unsynchronised paths update the data.** Each update is to be compared
  with the very status it replaces, or a brew is counted twice or missed.
* **Counters are written seconds after they change**, by a Store that outlives
  the coordinator: reloads, restarts, removals and crashes fall in between.
* **Encryption is asked for by refusal**, may fail for ever, and must be tried
  sparsely but not never.
* **A machine decides on a token after acknowledging it.** Onboarding must not
  touch a machine that belongs to somebody else, nor take a guess for proof,
  nor latch a machine out, nor sleep past the scan interval.
* **Selections are state of the machine.** The error and the Wi-Fi entry that a
  read returns were selected by an earlier write that may have been lost.
* **Bluetooth events come when they like.** Requests, published updates and
  absences must neither starve the poll nor log an outage twice nor leave an
  availability that no read stands for.
* **Tasks are cancelled at any await**, and `CancelledError` is no `Exception`.
* **Tables must agree.** The fields a fast path refreshes and those the poll
  fills are two lists; the frame of a command and what the machine reads, two
  layouts; the key of an account and the app's, two computations.

## 2. Modules

| Module | Models | Role |
|---|---|---|
| `MachineLink` | what the machine and its owner may rely on about the one link | abstract specification |
| `Coordinator` | link side of the coordinator and the brew button; implements `MachineLink` | core |
| `CoordinatorCancel` | the same with every task cancelled at any await | extension of the core |
| `MCCoordinator` | sets of tasks and clients, symmetry | TLC |
| `BrewLedger` | what a reader of the entities may rely on | abstract specification |
| `StatusFlow` | the orders of the three update paths; implements `BrewLedger` | detailed specification |
| `Readers`, `MCStatusFlow` | event entity and brewing timer over `StatusFlow` | composition, TLC |
| `UpdateCycle` | poll timer, debouncer, availability, set-up retries, key | |
| `CounterStore` | counters, Store timer, file, reload, restart, crash | |
| `MCHousekeeping` | `CounterStore` and `UpdateCycle` side by side | TLC |
| `LinkEncryption` | pairing requests and their backoff, as a poll uses them | |
| `Onboarding` | `_authenticate`, `_onboard`, `_onboard_once` against a machine | |
| `MCAuthentication` | `LinkEncryption` and `Onboarding` side by side | TLC |
| `MachineStatus` | the status bytes and their decoding, Barista and Vertuo Next | operators |
| `MachineRead` | the Vertuo Next read, its parsing, the two numbers | |
| `FastPaths` | what a poll, a notification and an advertisement make of the dataset | |
| `MachineWrites` | brew command, recipe, auth key | |
| `WifiSetup` | Wi-Fi scan and set-up | |
| `MCMachine` | the last four side by side, samples | TLC |
| `CoordinatorProofs`, `CancelProofs` | what holds of `Coordinator`, and of `CoordinatorCancel` | TLAPS |
| `StatusFlowProofs` | `StatusFlow`, `Readers` | TLAPS |
| `AuthenticationProofs` | `LinkEncryption`, `Onboarding` and the two side by side | TLAPS |
| `HousekeepingProofs` | `CounterStore`, `UpdateCycle` and the two side by side | TLAPS |
| `MachineDataProofs` | `MachineStatus`, `MachineRead`, `FastPaths` and all of `MCMachine` | TLAPS |
| `MachineWritesProofs`, `WifiSetupProofs` | `MachineWrites`, `WifiSetup` | TLAPS |

How they fit: `Coordinator` abstracts an authentication to "accepted, refused
once, refused twice, raised" and a read to "worked or not". `LinkEncryption`
and `Onboarding` open the authentication, `MachineRead` opens the read,
`WifiSetup` opens one body of a session and `MachineWrites` says what the other
bodies and the command write. Each of these may assume that nothing else uses
the link, which is `OneHolder` and `OneLiveLink` of `Coordinator`, and which
`MachineLink` states from the outside. `UpdateCycle` has what `Coordinator`
leaves open about refreshes: when they are asked for. `StatusFlow` has what
`Coordinator` abstracts to `FastUpdate`: where the state shown comes from;
`FastPaths` has what `StatusFlow` abstracts to one state and one flag: which
fields an update carries; `Readers` has who hears of it. `CounterStore` has what
`StatusFlow` abstracts to a counter restored on `Reload`.

### Correspondence to the code

**`Coordinator`.** A task's `pc` names the await it is suspended at: a refresh
runs `queued` (waiting for `_ble_lock`), `held` (reading over the open link),
`stale` (closing the one in `_client`), `connect`/`pause`/`reconnect`,
`auth`/`authdrop`/`authconnect`/`auth2`, `read`, `subscribe`, `closeok` or
`closefail`; an operation `queued`, `dial`/`redial`, `opauth`, then the body of a
session (`session`), of a command (`use`, `listen`, `answer`) or of a watch
(`attend`, `watch`, `leave`), and `close`; the button, a command, has `wake`,
`warm` and `settle` outside the lock.
`client` and `keep` are `_client` and `_keep_connection`, `cl[t]` is the local
`client` of a task, `own` its `own_client`. `up`, `fed` and `closing` are what
Bluetooth knows: connected clients, those on which the poll's own status
subscription stands, those being disconnected by someone who does not hold the lock
(`async_release_kept_connection`, `async_shutdown`). `Unload`/`Unloaded`
bracket the await inside `async_shutdown`; requests made in between still start.
External: `establish_connection` (`Opened`), `disconnect` (`Closed`), the
success flag Home Assistant sets in the step the refresh ends in, the Bluetooth
cache (`seen`), links dropping.

**`MachineLink`.** Nothing of the code but its promise: one user at a time opens
a link where there is none; it closes the link or leaves it kept; anyone may
give a kept link up, and it is then `dying` and counts no more. The map from
`Coordinator` takes the lock's owner for the user, the links nobody is closing
for the live one, and `_client` for "kept".

**`CoordinatorCancel`.** One action for each kind of place a task may be
cancelled at: waiting outside the lock, setting a link up (which for a watch
includes its subscription, made before its `try`), inside the body of a session
or a command, whose `finally` closes a link of its own, inside a watch, whose
`finally` unsubscribes first and may be cancelled at that, in a disconnect, in a
release. It says of each which of the code's `finally` and `async with` run, and
what its `except` clauses do not see.

**`StatusFlow`.** `PollRead` is the moment the poll reads the status, `PollDone`
the moment it publishes it; `HandleStatusUpdate` and `Advertise` are the fast
paths, neither of which asks whether a poll is on its way; all go through
`Publish`, which is `_async_note_update` and the
assignment to `data`. Fields of the status are a state and one flag with a
trigger; the other flags and triggers follow the same two rules.

**`Readers`.** The two entities are `none` before the platforms are set up,
`made` when their constructors have run, `added` when Home Assistant has added
them and they listen, `heard` from the first update on; updates that come
between `made` and `added` are not heard. `Tell` is the pair of
`_handle_coordinator_update`, called with the new data in place.

**`UpdateCycle`.** External, from how `src/` uses them: the poll timer and the
debounced `async_request_refresh` of `DataUpdateCoordinator`, its log lines and
its `last_update_success`. The code's own: the availability and advertisement
callbacks and what each asks for, `_mark_gone` before a refresh that finds no
machine at its first look, `async_machine_gone` and its two guards, the key made
and stored before the first refresh. `ConnectionAborts` and `LookUpAgain` are
the pause after an aborted connection and the second look, which marks nothing
gone; the other ends of a read are one action. Whether a poll of the timer starts the debouncer's cooldown
is left open. A refresh takes any number of ticks.

**`CounterStore`.** One generation per coordinator object. `pending` holds the
Stores with a delayed write, in the order their timers fire; the file is written
with what that coordinator holds then (the lambda in `_async_save_counters`).

**`LinkEncryption`.** A client lives as long as its connection, so the two weak
sets of clients are sets of addresses. `Pair` is `_pair` up to its await,
`AfterFailure`/`AfterSuccess` what its callers make of the result. `skips` is
history: connections in a row that wanted encryption and made no request.

**`Onboarding`.** `pc` is the operation `_authenticate` waits for. The machine
is external: it settles on a token when it likes, keeps the first one, may
ignore a token without the TX level request, and may not understand a key
without the marker nibble. Time is counted in poll intervals slept.

**`MachineRead`.** One action per GATT operation that matters: the four reads
whose failure fails the poll are three (the reads of names and versions behave
as `ReadStatus` does), then the selection of the active error whose failure is
logged and passed over, the listed error in one `try`, the optional ones.
Parsers and builders work on bytes. `meant` is history: what the two numbers may
be, by what was asked of the machine; a write whose answer is lost leaves it two
values.

**`FastPaths`.** `Parse` is the three `_parse_…` of a whole read, `StatusFields`
is `_STATUS_FIELDS`; both are tables of the source, and `Refine` is the
`replace` of the fast paths. All that a poll reads beside the status is one
value. A payload is the bytes of the status characteristic; one of the
notifications is cut short.

**`MachineWrites`.** `BrewData` and `CommandFrame` build the frame of `_do_brew`
byte by byte; `BuildCommand` is the press up to `async_send_command`,
`SendCommand` the write several awaits later, and the selects move in between.
`IsBrew` and `ReadFrame` are the machine's reading of it. A key is
a sequence of hex digits. `AppShift` is the app's computation as the docstring
of `normalize_auth_key` quotes it, `NormalizeAuthKey` the code's. A write whose
answer is lost may have reached the machine.

**`WifiSetup`.** The frame is a function from offsets to bytes in which the
bytes of ssid and passphrase are marked, so a field running into the next is
visible. The machine is external: a list of networks, a result characteristic
that shows the selected entry after a lag, a frame it takes apart by offset, a
reset at any time, in the middle of a set-up too, which drops the link.

## 3. Runs

| Run | Instance | Question |
|---|---|---|
| `coordinator_on_demand` | 2 polls, 1 operation, the button, 3 clients, no persistent mode, unload | Does it implement `MachineLink`; is the command written twice; is the machine declared gone in use; is it free after an unload? |
| `coordinator_persistent` | same, persistent, no unload | Do commands and watches leave the subscription in place; is the link closed under them? |
| `coordinator_live` | 1 poll, 1 operation, the button, 2 clients, cancellations, fairness | Does every task end and every link close, if the transport answers; does a cancelled body clean up? |
| `coordinator_release_race` | 2 polls, on demand | Violation: the release closes a link in use. |
| `coordinator_unload_race` | persistent, unload | Violation: a poll in flight leaves a link behind. |
| `coordinator_unbounded_call` | as `coordinator_live`, no cancellations | Violation: a call without timeout holds the lock for ever. |
| `coordinator_cancelled` | 2 polls, on demand, cancellations | Violation: a task cancelled while it sets a link up leaves it open. |
| `status_flow` | 3 states, 2 brews, 1 reload, both fast paths, the two readers, fairness | Is the ledger kept, are brews real, is the machine's status shown in the end, do the readers follow? |
| `status_stale_poll` | no reload | Violation: a brew is counted twice. |
| `authentication` | one address, the code's 4 and 20, 45 failures; the code's 2 attempts, 10 readings, 60 s; four makes of machine, 2 faults; fairness | One request per connection, sparse, never given up? Foreign machines, proof, budget, latching out? |
| `housekeeping` | 3 coordinators, 2 brews and resets, reloads, crashes; the code's 60 s and 10 s in ticks of 5 s | What can be lost, is anything invented? Do polls go on, is availability true, an outage logged once, a request served, the key kept? |
| `machine` | 3 statuses, 2 codes, counts either side of a byte; every bit of a status; 6 typed keys; 5 lists of networks, 7 calls | Does an update by any path tell the truth; do writes say what was asked; does a scan end with the list and a set-up with the network asked for? |

**Bounds.** Two polls suffice for every race between refreshes, since the third
would only queue; one operation and the button cover both users of a kept link,
and the two refreshes overlap them. Three clients are one more than can be live
or closing beside the one being dialled; a model with too few would only disable
a dial. `writes` needs no bound because `OneCommandPerPress` holds. In `status_flow`
two brews tell a double count from a real second brew; its readers look at the
state and not at the tank, so they are followed where the tank stays full. In
`housekeeping` three generations let an old Store write over a successor's file
while a third loads, and two changes of each kind order a brew before and after
a reset; the cycle needs no bound. In `authentication` the backoff uses the
code's own constants and runs past two retries (45); addresses do not interact,
so one is enough; onboarding uses the code's constants, and two faults allow one
in each attempt. In `machine`, counts 255 and 256 and error 260 need both bytes,
states 17 and 14 with milk 13 and 2 need both nibbles, and the two statuses that
are read differ in every flag; status payloads are every single bit, none and
all, so that no two fields can be taken for each other; a poll that succeeded is
followed by the next at once (`NextPollAtOnce`), and what the machine does and is
asked to do comes before the first and after any that failed;
keys are a CMID, a pairing key, one with separators, one too long, none and no
hex; calls sit on and just past each field's length; and the lists are empty,
shorter than, equal to and longer than `MaxEntries`. The modules that a run
explores side by side share no variable: the others stay at rest.

**Deadlock** is off only where the system stops: an unloaded entry whose tasks
are done, and counters whose bounds are used up.

**Fairness.** `asyncio.Lock` wakes waiters in FIFO order, hence strong fairness
of the acquisitions. Operations of `ble/protocol.py` end within
`BLE_OP_TIMEOUT`, pairing within its own, connects and disconnects within the
budgets of the layers below, and the button's wait has a deadline: weak
fairness of those steps. The calls `coordinator.py` makes on the client itself
(`start_notify` and `stop_notify`, the writes of commands and sessions, the
status reads around a command, the reads of a watch) have no timeout. Every
await of a body is, or may be, one of them, so no place of a body, nor the
subscription of a persistent poll, has any fairness in `Fairness` (`Unbounded`);
`EveryTaskEndsIfAnswered` states the assumption that they return as `Answered`.
In `StatusFlow` polls recur (timer; `UpdateCycle` shows that they do) and do not
fail for ever, in `LinkEncryption` a machine that has become willing answers at
last, in `Onboarding` the machine decides. Nothing is assumed of people, links,
resets or cancellations.

### What the runs show of the code

The passing runs show that the lock discipline, the kept link, the ledger, the
cycle, the backoff, onboarding, reading, writing and Wi-Fi set-up do what
comments and tests say. Five runs show where the code and its comments part:

1. `async_release_kept_connection` disconnects without the lock, so the end of
   a press can close the link under another operation that reuses it.
2. `async_shutdown` disconnects once and without the lock; in persistent mode a
   refresh past its connect stores a new link afterwards, which nobody closes.
3. A poll publishes the status it read first after it read the rest. A
   notification published in between makes it stale: the brew under way is
   counted again. An advertisement can do the same, when the poll's link is gone
   and the poll not yet at its end. `RealUnlessOvertaken` is what remains true.
4. Calls made on the client without a timeout hold the lock for as long as the
   machine stays silent, which `protocol.py:157-161` names as the thing to avoid.
5. A refresh has no `finally`, and an operation has one only around its body: a
   task cancelled while it connects on, authenticates, reads (a poll) or
   subscribes (a poll, or a watch before its `try`) drops the only reference to a
   connected client, and so does a watch cancelled in the `stop_notify` of its
   `finally`. `CancelledBodyCleansUp` and
   `EveryLinkClosesIfAnswered` say what remains true.

Two kinds of limit are stated in passing properties. A reload within the save delay
loads the older file, and the brews of the last seconds are lost; a file removed
with a write scheduled is created again by it; and when Home Assistant stops
with the writes of two coordinators outstanding, which a first set-up that
failed is enough for, the older one may come last: hence `~hurried` in
`CountersSurviveUnhurried`. The last of these three came out of its proof: an
invariant that covered it was not inductive, and TLC then showed why.
And a lost selection of error 0 makes the code show the list's error as the
active one: `PollTellsTheTruth` says that it then shows that one and no other.

One thing a comment leaves open is written into a property. `_mark_gone` before
a refresh fails keeps a machine that is off from being logged as an error
(`coordinator.py:1018-1022`). The second look after an aborted connection does
not call it, so a machine that leaves the cache in those three seconds is logged
as an error once; `OneLinePerOutage` asks for no error only of polls that do not
find the machine at their first look, and counts one report for either.

Each property comes with a mutant: a definition with the bug a change to that
code could bring in (a dropped guard, a wrong order, an off-by-one), written
next to the definition it replaces. TLC finds the property violated by it.

## 4. Proofs

Every invariant and every action property of a passing run is a theorem, for
every value of the constants the assumptions allow. Only the five liveness
properties are not (see the end of this section).

### The link

**`CoordinatorProofs`**, for any finite or infinite sets of polls, operations
and clients and either value of `Persistent` and `MayUnload`: `TypeCorrect`,
`LockIsExclusive`, `NoLinkIsLost`, `MachineSeesOneLink`, `KeptLinkIsForABrew`,
`UnloadFreesTheMachine` (without persistent mode; with it the run refutes it),
`GoneIsNeverWrong`, `PersistentLinkIsHeard`, `CommandGoesOutOnce`,
`OwnLinkIsSafe`, `PersistentLinkIsSafe`, and `ImplementsMachineLink`: the
initial states map to one of `MachineLink`, and every step to one of its actions
or to a stutter.

Assumptions: the kinds of task are disjoint and `None` is none of them
(`TasksAssumption`), the two flags are Booleans (`FlagsAssumption`).

None of the properties is inductive alone: that no link is orphaned when a poll
stores its client depends on `_client` being empty then, which depends on who
emptied it. The invariant has two layers:

    CoreInv == TypeOK /\ OneHolder /\ HandsInv /\ KeepInv
    IInv    == CoreInv /\ LentInv /\ NoOrphanLink

`HandsInv` says that only the lock's owner has a client in its hands, that a
poll past its lookup found or made `_client` empty, that a dialling task has no
client yet, and that a user which opened its own found no live link held;
`KeepInv` that the keep flag lasts no longer than the press and without
persistent mode a link is stored only while it is set; `LentInv` that a client a
task did not open is the coordinator's, being closed, or down. One step per
action, and one below it per conjunct, gives `Inductive`, and the theorems
follow: invariants by implication, `GoneIsNeverWrong` and the refinement by a
step argument, the others by one more induction each.

`PersistentLinkIsSafe` and `OwnLinkIsSafe` say what finding 1 leaves. In
persistent mode, as long as the entry is not unloaded, nobody closes the link an
operation is using (`Persistent` and `~MayUnload` are its hypotheses, the very
settings of `coordinator_persistent`). In either mode, through every release and
unload, a link that an operation opened *itself* is closed by nobody else: what
the release race can take away is a borrowed one only.

**`CancelProofs`**: what survives a cancellation at any await. `NoOrphanLink`
does not (finding 5), and the split above is where the line runs: `CoreInv`
mentions no orphan and holds of `CancelSpec`, the rest of `IInv` does not. It
gives `CancelLetsGoOfTheLock`, `CancelKeepsOnlyForABrew`,
`CancelKeepsOneKnownLink` (the lost links apart, one live link at most),
`CancelCommandGoesOutOnce`, `CancelledLinkIsHeard`, and
`CancelledBodiesCleanUp`, from the actions that may change a task's client: the
body of a session or of a command closes the link it opened wherever it is
cancelled, and so does a watch cancelled while it reads.

### The data

**`StatusFlowProofs`**: `FlowTypeCorrect`, `FlowRefinesLedger` (every step that
publishes is a `Baseline` or a `Move`, a reload a `Forget`, any other step a
stutter) and `CountsAreReal`, as long as neither a notification nor an
advertisement is published between a poll's status read and its end. It needs `CountInv` and `AlarmInv`: a brew
that the machine runs, or that a poll has read, and that the entities do not
show yet is one still to be counted, so the counter is strictly behind;
`total <= brews` alone says nothing about what publishing such a status does.

`ReadersFollowTheData` is about the event entity, the brewing timer and the
device triggers. An event must go from the state before to the state shown, and
`_last_state` is only that if no update was missed since it was set:
`EventIsLatest` says that from the first update heard on it is the state shown
and the last event ended in it, before it no event has fired. `TimerIsOfThisBrew`
follows with `TimerInv`. `UpdatePublishes` gives the one case split all of it
rests on: each path publishes against the data of the moment, whatever it read
before. `ReadersRunTheFlow`: with its readers the system still runs `FlowSpec`.

Assumptions: "brewing" is a state, `NoData` is no status (`StatesAssumption`),
nor a state, a number or an event (`ReadersAssumption`).

**`MachineDataProofs`**. *Reading*: `StatusIsTold` (the parser undoes the
packing of the status bytes, for every state, milk unit state, key state and set
of flags), `ErrorIsTold` and `CapsAreTold` are the inverses of the encodings.
`ReadInv` says that what was read so far is what the machine held, encoded, and
that between a selection and its read the machine selects what the code thinks,
unless the write was lost (`SelectionHolds`); `PollsTellTheTruth` follows for
any statuses, codes, counts and levels. `NumbersAreKept`: the two numbers are
those last asked for or counted, give or take a write whose answer was lost
(`NumbersMeant`), and every other byte of the settings is as the machine had it.
*Refining*:
`NothingIsMissed`, for any payloads of three bytes. `ListsAreInStep` is the heart
of it: for each family the fields of the fast path are those of the poll; with
it `Refine` of a dataset is the dataset a poll would have built.
`MachineRunsAll` carries the theorems of the four modules over to `MCMachine`,
and `MachineIsNotGarbled` follows.

Assumptions: samples fit the bytes they travel in, and the `None` that stands
for a value not read is no sequence of bytes (`SamplesAssumption`); payloads are
three bytes (`PayloadsAssumption`).

**`MachineWritesProofs`**: `CuttingIsShifting` (the first fifteen digits behind
the marker are, byte for byte, the app's shift by a nibble, for every pairing
key) and `SaysWhatWasAsked`, for any options within the tables, any recipes and
anything typed (`WritesAssumption`). `FrameIsShown` is the invariant behind the
first part: a frame on its way keeps saying what the selects showed together when
it was built, wherever they have moved since.

**`WifiSetupProofs`**: `TheOneAsked`, `TheWholeList` and `WifiTypes`, for any
networks, calls within the argument schema, maximum of entries and pause at
least as long as the machine's lag (`WifiAssumption`). `FrameIsUnderstood` says
that a checked call's frame, taken apart by offset, is the call; `ScanInv` that
what was found so far is the beginning of the list and that the entry selected
is the next.

### Authentication

**`AuthenticationProofs`**. *Encryption*: `OneRequest`, `PlainStaysPlain` and
`RequestsKeepTime`, for any addresses, any number of failures and backoff
constants with `1 <= PairQuietAfter <= PairRetryEvery` (`BackoffAssumption`).
`MarkInv` ties `_ELEVATED` to the requests of the connection (an unmarked client
has made none), `AskedInv` says that past `_prepare_link` a machine known to
want encryption has a marked client. For the third, `Rhythm(n, s)` says how many
connections `s` went by without a request after `n` failures, by the remainder
of `n`; lemmas on remainders show that one more skip, or one more failed
request, keeps the rhythm, and it bounds `s` on both sides.

*Onboarding*: `ForeignMachinesAreSafe` and `PairedMeansOurs`, for any number of
attempts, readings and faults (`OnboardingAssumption`).
`MachineInv` ties what the machine reports to the token it holds; `OnboardInv`
says that inside onboarding the last known state is an unpaired one and that the
link, as long as it is up, has kept everybody else off the machine.

*Time*: `OnboardingFitsThePoll`. `LongestWait` is what the constants let one
authentication sleep; `WaitInv` bounds, at each place of the code, what has been
slept by the attempts behind it and the readings of this one. If twice that is
less than the scan interval, so is what two authentications of one poll sleep.
With the code's 2 attempts, 10 readings, 2 s of delay and 60 s it reads 44 < 60:
raising the attempts to 3 would break the hypothesis. `AuthRunsBoth` and
`AuthTypes` are about the two halves side by side.

### Housekeeping

**`HousekeepingProofs`**. *Counters*: `StoreKeepsCounters` and
`StoreInventsNothing`, for any number of coordinators, reloads, restarts,
crashes and changes (`StoreAssumption`). Every Store that is still to write may
overwrite the file, so the invariant is about all of them. `NoneAhead`: what any
holder of counters (the entry, code that still runs, a scheduled write, the
file) says is at most what happened. `LoadedKept`, `UnloadedKept`,
`RemovedKept`, as long as nothing was hurried: a loaded entry's own write comes
last in the queue, or every write left repeats what the file says; between two
set-ups all of them repeat what the next one will load; after a removal there
are none. `DelayedQueue` and `FiredQueue` are the two facts about the queue of
timers: who saves again goes to its end, and what fires leaves the last one the
last.

*Cycle*: `PollsNeverStop`, `AvailabilityIsReal`, `OutagesLogOnce`,
`RequestsAreServed` and `KeySurvivesRetries`, for any interval and cooldown
(`CycleAssumption`: both at least one tick, `Off` no number). They follow from
`CycleInv`: `TimerRuns` (a loaded entry refreshes, or its timer has what is left
of the interval: this is what a published update must not disturb),
`RequestRemembered` (a dropped request has a refresh, or a remembered call, that
comes after it), `ReadingExcludesWriting` (a reading has the lock, so no setting
is written behind it), `FlagAndLog` (the flag, the last outcome and the number
of lines agree: `OutagesLogOnce` is about who reports, not about a second look
that fails), `FirstIsFresh`, `NothingRuns` and `KeyIsKept`. `HouseRunsBoth`
and `HouseTypes` are about both side by side.

### Only model-checked

Liveness under fairness, which the prover cannot do: `EveryTaskEndsIfAnswered`,
`EveryLinkClosesIfAnswered`, `ShowsTheMachine`, `NeverGivesUp` and
`NeverLatchedOut`. The refinement theorems are about the safety part of the
abstract specifications, which have no other. No module uses recursion.

## 5. Not modelled

* What a stop of Home Assistant does to open links: the process is gone.
* Contents and wording: names, versions, icons, translations, diagnostics, the
  debug dump; the notifications the button shows.
* Barista and VMini detail reads (versions, serial number, recipes, firmware
  status), which are decoded for show; their status is in `MachineStatus`.
* The VMini token, one unconditional write.
* The language select, which writes two letters the way the recipe select
  writes one byte; sensors and binary sensors, views of `data` without state.
* The forms and labels of the config flow, the services' argument schemas, the
  entity and device registries: calls to Home Assistant that change no state of
  the integration.
* What the machine does with a brew command it cannot carry out.
* A second press of the same person while the first is on its way after a reload:
  `OneCommandPerPress` counts per press, and the presses of one coordinator
  exclude each other by `_brew_pending`.
* A crash before Home Assistant has written the entry to disk (it delays that
  write): the key would be made again. `OneKeyPerEntry` takes a stored key for
  stored.
* Advertisements that Home Assistant's Bluetooth replays late or twice: an
  advertisement here says what the machine is doing then.
* The info lines of a single attempt (an aborted connection, a refused
  authentication), which come with every poll: `lines` counts what is logged when
  an outage begins.

## 6. Plan

Done: the core with its abstract specification and cancellation, the status
flow with its readers, the cycle, the counters, authentication, reading, fast
paths, writes and Wi-Fi; a theorem for every safety property that a run checks.

Left, in this order:

1. The safety half of the liveness properties, as far as it goes without
   fairness: a variant that no step of a refresh, an operation or a press
   raises, so that only the acquisitions and the calls without a timeout stand
   between a task and its end.
2. The backoff and the wait budget against the code's own constants, as
   corollaries with numbers.
3. A common invariant of `Coordinator` and `StatusFlow`, of which the second
   takes the publishing order of two polls for granted: polls hold the lock from
   their first read to the last, so they publish in the order they read.
