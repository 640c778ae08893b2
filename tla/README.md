# Verification of the SynDimm firmware

SynDimm is a knob: an ESP32-C6 with a rotary encoder, a button and a buzzer that
controls lamps, blinds, MQTT devices and HTTP endpoints over WiFi. This directory
models the firmware in `Code/neue` (paths below are relative to it; `Code/HW` and
`Code/GUI` are the former firmware and are only kept as its reference). It holds TLA+
modules, the TLC configurations that check them, and proofs checked by TLAPS.
`PROJECT.json` relates every definition to the lines it stands for.

    tlc -config ModeEngine.cfg MCModeEngine      # one configuration
    tlapm Update_proofs.tla                      # one module of proofs

## 1. Inventory

| component | state it keeps | operations | what makes it correct |
|---|---|---|---|
| `sd_mode_engine` | three slots (driver, value, state, errors), active slot, job queue, save timer and flags | knob input, slot step, CLI set/toggle/test/store/clear, `sd_cmd` loop, link changes, factory reset | the last value reaches the target; toggles are neither merged nor repeated; no job is lost, leaked or used after free; changed values reach NVS |
| `sd_offline` | per slot: offline, failures, time of last probe | feed a result, ask the gate, link down, link up | a dead target is probed once per interval, a live one never held back |
| `sd_behaviors` value drivers | parameters read at load | init, on_input, test | a range that is one; values stay in it; the right kind of send |
| `drv_safe`, `sd_sequence` | dialled segments, failures, lockout | on_input, on_timeout | an attempt is what was dialled; every wrong one counts; a lockout holds |
| `sd_safe_store` | five entries in RAM and NVS | set, clear, match, policy, reset | RAM and NVS agree; the first entry with a policy decides |
| `sd_encoder` | quadrature state, ring of detents, button level and debounce | interrupt, 10 ms polling task | no detent invented, reordered or decoded the wrong way |
| `sd_gesture` | press time, pending click, rotated flag | rotate, press, release, poll, switch gestures | each tap once; a stepped hold silent; a control release only after 5 s |
| `sd_prefs`, `sd_profiles`, `sd_binding`, `sd_config_io` | documents in NVS and caches | get, set, remove, import, export | caches, memory and flash agree; an import leaves all that it named, each slot after its profile |
| `sd_buzzer`, `sd_feedback` | running pattern, cached preferences | play, timer, reload | the cache follows the preferences |
| `sd_proto` (HTTP, UDP, MQTT) | MQTT client with its count and subscriptions; one kept HTTP connection | execute, acquire, release, subscribe | one session while someone needs it; a request goes to its own target; values are mapped to the nearest |
| `sk_auth`, `sk_passphrase` | bonds, window, pending bond; hash, mode and wrong guesses | exchange, verify, activate, rotate, clear | one bond per peer, kept over a power failure and gone after an unpairing; guesses are counted over restarts |
| `sk_secure_session`, TCP and BLE links | challenge, key, ring of nonces; client slots | lines, connections, ends | a session vouches for the peer at its other end; a message is taken once |
| `sk_wifi`, BLE radio | two credential slots, retry timer, workers; advertising | connect, disconnect, forget, scan, driver events | a disconnect that was asked for lasts; the network is found again; BLE comes back |
| `sk_ota`, `main` | status, two partitions, image states; crash counter kept over resets | check, download, commit, boot | an image that starts is whole and verified, a bad one is rolled back; faults in a row lead to a recovery boot |
| `sk_api` | endpoints in memory and NVS | add, remove, send, chain | memory is what a restart loads; a chain reaches every endpoint |
| `sk_cli`, `sk_confirm`, `sk_control` | command table, tokens | dispatch, confirm, restart, factory reset | a critical command runs behind a token; a reset erases everything |

**Who runs when.** Tasks: `sd_input` (polls encoder and button, calls drivers under
`eng_lock`), `sd_cmd` (takes jobs from the queue and makes the blocking network calls),
one task per TCP client, the USB task, the BLE host task, workers of `sk_wifi`, `sk_ota` and
`sk_api`, the task of the MQTT library, the `esp_timer` task, the system event task. The
GPIO interrupt fills the ring of detents. Shared state: the slots and the tracker under
`eng_lock`; the queue; `s_nvs_pending` without a lock; the reference count of a TEST job
under a spinlock; the ring without a lock; the MQTT session under `s_mtx` and, inside the
library, a lock of its own; bonds and passphrase each under a mutex, the pairing window
under none; nothing of `sk_wifi`, `sk_ota` and `sk_api` is locked.

    encoder interrupt --ring--> sd_input --gestures--> engine/driver --jobs--> sd_cmd --> network
                                              ^                        |           |      (HTTP, UDP,
    USB, TCP, BLE --lines--> session --> commands                      +--> NVS    +--> tracker  MQTT)
                                              |--> sk_auth, sk_wifi, sk_ota, sk_api, prefs, profiles, safe
    WiFi events --------- tracker, reconciliation ---> jobs
    event bus: "wifi.state", "prefs.changed", "factory.reset" are delivered in the publisher's task

**What is hard.** A value captured under a lock and queued after it; a full queue whose
producers take each other's jobs out; a waiter that gives up while its answer is being
written; an unlocked flag shared by four kinds of tasks; results that arrive after the link
or the slot changed; a timeout job that is late; a ring without a lock; a debounce that
hides an edge; a session shared by two slots that reload; power failures between two blobs
of one record; a slot of a server that is given away before its last task is done; a retry
timer that meets a disconnect; two radios that take turns; a download cut off; a dump that
is imported item by item. `PROJECT.json`, "hazards", lists them with their lines and the
properties that would notice.

## 2. Modules

| module | models | state and actions |
|---|---|---|
| `OfflineTracker` | `sd_offline.c` | operators on one slot's record; clock readings are ages that stop at the probe interval, the only thing the code asks |
| `Drivers` | `drv_dimmer.c`, `drv_shutter.c`, `drv_mqtt_remote.c` | initialisation from profile and binding, each `on_input` as what it leaves and sends, `test` |
| `ModeEngine` | `sd_mode_engine.c`, `sd_mode_cli.c` | slots, queue, tracker, link. One action per input, CLI command (in two steps where the code leaves the lock), timer, link change, and per critical section of `sd_cmd`. `pc`, `job`, `carry`, `wire` are the local variables of `cmd_task` |
| `JobQueue` | `enqueue_job`, `job_discard`, `test_release`, `eng_run_test`, receiving half of `cmd_task` | every FreeRTOS call is a step; the heap is a set of blocks that are allocated, shared, freed and reused |
| `NvsDebounce` | `sd_ctx_set_value`, `schedule_nvs_save`, `nvs_timer_cb`, `nvs_save_values`, discard, reload, reset, boot | each access of the unlocked flag is a step; values are versions; a power failure may cut a write |
| `SafeSequence` | `sd_sequence.c` | operators on `sd_seq_input_t`, and a reference definition (`RunLengths`) of what was dialled |
| `SafeLock` | `drv_safe.c`, matching and policy of `sd_safe_store.c` | entry, failures, lockout, timer, TIMEOUT jobs, the table |
| `DetentQueue` | (abstract) | a bounded queue of detents, the specification of the ring |
| `Gesture` | `sd_gesture.c` | operators on `sd_gesture_t` that return the record and the gestures emitted |
| `Encoder` | `sd_encoder.c` | contacts, interrupt, ring, the polling task statement by statement where the interrupt may come in between |
| `MqttSession` | `sd_proto_mqtt.c`, the engine's acquire and release | count, client, subscriptions; the library's task and lock (external, modelled from their use) |
| `Protocols` | `sd_proto.c`, HTTP, UDP, template mapping | one action: a command executed, with the kept connection it may use |
| `Bonds` | bond slots of `sk_auth.c` and their blobs | each operation under `s_mtx` is an action, a write may fail |
| `Passphrase` | `sk_passphrase.c` | operators and steps blob by blob, the mutex held while the derivation sleeps |
| `Pairing` | window, pending bond, pairing lines and passphrase commands | composes `Bonds` and `Passphrase`; the power may fail between any two steps |
| `Session` | `sk_secure_session.c`, handshake, HMAC | operators on one session: challenge, proof, signed command, ring of nonces |
| `Links` | `sk_transport_tcp.c`, `sk_transport_ble*.c` | client slots and their tasks, the BLE link; composes `Session` |
| `BleRadio` | advertising of `sk_transport_ble.c`, the resume timer of `sk_wifi.c` | the flag next to what the stack does; callbacks in two steps |
| `WifiManager` | `sk_wifi.c` | credential slots, workers, driver events, retry timer; composes `BleRadio` |
| `Boot` | `main.c`, image states | bootloader, crash counter, recovery boot |
| `Update` | `sk_ota.c` | checks, downloads part by part, rollback; composes `Boot` |
| `Endpoints`, `ApiCalls` | `sk_api.c` | records and their keys; callers, workers and the chain |
| `Commands` | the command tables, the gates of `sk_cli.c`, `sk_confirm.c` | which command needs what |
| `Settings` | validation and defaults of profiles, bindings, preferences, entries, dumps | documents are names with fields; what is accepted, what a load makes of the store |
| `QuietHours` | `sd_quiet_active`, the minute of the day the buzzer asks about | two operators, apart from `Settings` so that a module of proofs can use them beside `ModeEngine` |
| `Configuration` | the commands that change the configuration, `sd_config_io.c`, boot and factory reset | each command works through items in steps of flash and memory; composes `Settings` and `Commands` |
| `MC...` | | model values and small definitions for TLC, nothing else |
| `..._proofs` | | theorems (section 5); a module named after two components, such as `SafeLock_ApiCalls_proofs`, holds the theorems of both, which extend one another's modules only there |

`ModeEngine` extends `OfflineTracker` and `Drivers`, `SafeLock` extends `SafeSequence`,
`Encoder` extends `Gesture` and instantiates `DetentQueue`, `Protocols` extends
`MqttSession`, `Pairing` extends `Bonds` and `Passphrase`, `Links` extends `Session`,
`WifiManager` extends `BleRadio`, `Update` extends `Boot`, `ApiCalls` extends `Endpoints`,
`Configuration` extends `Settings` and `Commands`, `Settings` extends `QuietHours`.

The engine is cut because its concerns meet in few places: `ModeEngine` takes
`enqueue_job` as one step and `JobQueue` takes it apart; a save job carries nothing and
`NvsDebounce` follows it; the driver of a safe slot runs under `eng_lock` like any other,
and `SafeLock` keeps of the engine its timer, its jobs (which may wait and may be dropped)
and the reload; a send that `ModeEngine` hands to the transport is what `Protocols`
executes. What `Pairing` grants is the set of keys that `Links` takes its proofs from;
`Links` leaves open what a pairing line comes to. `Update` shares `Boot` with the recovery
boot of `Configuration`, which keeps of it one flag.

Where the models abstract:

- Names, payloads, keys and documents are members of small sets; JSON, templates and
  URLs are left out character by character and kept by what they decide.
- Times are ticks, and what is compared with a threshold is an age that stops there.
  The factor of a fast turn is a choice. Integers are unbounded.
- Cryptography is ideal: a proof made with a key is one that the key's holder made.
- The IDF, the bootloader, the driver of the radio, FreeRTOS and the MQTT library are
  external and modelled from how the code uses them; `PROJECT.json` marks each such
  definition.
- `cmd_task` merges while jobs come and stops after 50 ms without one (`DrainTimeout`).
- Memory: `make_job` may fail in `nvs_timer_cb` (`forgotten`), a task of `sk_api` may not
  be created (`MaxJobs`); elsewhere memory is there.
- History variables (named in each module) remember what the properties speak of, and no
  action reads them. So do the variables that mark two unlocked writers that met
  (`raced`, `shared`, `overlapped`, `dirty`): a property that excludes these cases says
  so, and the finding of that race is in `PROJECT.json`.
- Operators marked "A mutation" are not part of the models. Each is a plausible mistake in
  the definition that follows it, and shows that a property notices it.

## 3. What is checked

Twelve configurations, each with a type invariant (`TypeOK`, or `ProtocolTypeOK`,
`WifiTypeOK`, `ApiTypeOK`, `ConfigTypeOK` where a module of proofs has two of them) and:

| run | property | what it says |
|---|---|---|
| `engine` | `NothingLostOnTheWay` | the last VALUE the queue accepted is the last one handed on, and TOGGLEs are neither merged nor repeated |
| | `ProbesSpaced` | one attempt per probe interval after a failure of an offline target |
| | `Settles` | reconciliation does not feed itself: the engine comes to rest |
| | `TypeOK` | among others, values stay in the range of profile or driver |
| `queue` | `BlocksOwned` | a job block has one owner, no use after free, no leak, and the answer that is read is the one written |
| | `TestReturns` | a `mode.test` is always answered |
| `nvs` | `ChangesTracked` | a set flag has a timer behind it, a dirty slot a save under way, a clean slot is saved |
| | `DirtyReachesFlash` | a changed value gets to flash |
| `safe` | `AttemptIsWhatWasTyped` | the entry is the run lengths of what was dialled |
| | `LockSound` | every attempt counts and is bounded before a lockout, none is open during one, none loses its end |
| | `AttemptEnds` | an attempt is decided |
| `encoder` | `HandCounted` | detents, taps and stepped holds are accounted for |
| | `PressesEnd` | a waiting click comes, and a stepped hold stays silent |
| | `Implements` | the ring implements `DetentQueue`, its liveness included |
| `protocols` | `SessionShared` | a client exists while a slot counts, and the broker has the subscriptions that were asked for |
| | `SendsMapped` | a request goes to its own target with the nearest mapped value |
| `pairing` | `BondsKept` | one bond per peer, what was granted survives the power, nothing survives an unpairing |
| | `GuessesRemembered` | a restart forgets no wrong guess that was answered |
| `session` | `SessionsProved` | a session vouches for its own peer, and takes a nonce once within its ring |
| | `WaiterMeetsDispatcher` | who was told to send the passphrase is heard by the pairing |
| `wifi` | `StaysDisconnected` | nothing undoes a disconnect that was asked for |
| | `RadiosReturn` | a network that stays is found, and BLE is back afterwards |
| `update` | `UpdatesSafe` | a way back is kept, and what was verified is what boots |
| | `RecoveryAfterFaults` | exactly after that many faults in a row, whatever the supply does |
| | `CrashLoopEnds` | a configuration that kills every boot does not kill the device |
| `api` | `StoredAsHeld` | memory is what a restart loads |
| | `ChainReaches` | a chain reaches every endpoint that was left alone, once and in order |
| `config` | `StoreConsistent` | memory, flash and caches agree at rest, and a loaded slot keeps its profile |
| | `JobsComplete` | an import is all in force after its restart; a factory reset leaves nothing |

Bounds, and why they are enough:

- `engine`: a lamp with acceleration and a preset, a blind with a broken range, two remotes
  to load; queue of 2, 3 events, 2 failures to offline, error after 1. A queue of one or two
  is full after one or two jobs, so eviction, putting back and loss all happen; with two
  slots a job can be taken for one of another slot; three events are a value, a toggle and a
  link change, or an input, a command and a full queue.
- `queue`: 2 producers, 3 blocks, queue of 1, 4 jobs: the producers and `sd_cmd` are the three
  parties of the race in `enqueue_job`.
- `nvs`: input, 2 CLI tasks, timer; 2 slots, 2 changes, 2 faults.
- `safe`: 2 segments of 2 detents, 2 entries, 5 inputs, 1 command: one input more than the
  longest entry, and an overflow.
- `encoder`: ring of 2 cells (one usable), 6 contact edges, a loop late by up to 2 ticks.
  Two quarter steps are a detent (4 in the code), and the thresholds keep the code's order
  debounce < double-click window < click < long < control.
- `protocols`: 2 slots, 2 brokers, 2 topics of which one subscription fits, 2 clients; ranges
  that rise, fall and have no width, values outside of them.
- `pairing`: 1 peer, 2 bond slots (a second bond of the peer would show), 2 keys, one failing
  write, one clearing, one restart, 2 passphrases, lockout at 2, two transports.
- `session`: one client slot that is used again, 2 connections one after the other, 2 keys, 2
  nonces with a ring of 1 (the least that forgets).
- `wifi`: 2 networks, one command at a time beside the event task and the timers, a swap
  after 2 failures, one change of the air, one refused configuration, one event of BLE.
- `update`: a good image, one that never comes up, two workers, 3 faults to a recovery boot.
- `api`: 2 user and 2 system slots, two callers, 4 calls, one worker, one fault.
- `config`: 2 slots, one profile id with two versions, one entry, 2 transports and the
  button, 3 commands, failed writes and crashes together.

`CHECK_DEADLOCK FALSE` stands in `protocols`, `pairing`, `session`, `wifi` and `api`: there
the device may have nothing to do once the bounded commands, failures and connections
are used up; in `protocols` two tasks may also wait for each other (see the findings).
Elsewhere time or the task's loop always runs.

`PROJECT.json`, "findings", lists where the code departs from one of its documents or
comments, each with the line it quotes. Among them: a CLI value captured before an input
and queued after it is the last one sent; the gate does not open with the link within five
seconds of boot; a save past its lock writes values back after the erase of a factory
reset; a waiting TIMEOUT job ends an attempt that is being dialled; a tap released within
the debounce leaves "pressed" behind; releasing the MQTT session and its CONNECTED handler
wait for each other; the limit of wrong passphrases makes the task wait for its own mutex;
the knob and `mode.set` of a remote move in different ranges. The properties above either
exclude these cases by a history variable or speak of the part that holds.

## 4. Fairness

Weak fairness of the tasks' own steps: FreeRTOS runs a ready task whenever no task of
higher priority is ready, and all of these block (10 ms poll, queue receive, network
call with a timeout). `ModeEngine`: `SdCmd`, the loop of the link handler, the second half
of a CLI command, and time. `JobQueue`: producers and `sd_cmd`. `NvsDebounce`: each task's
way through `schedule_nvs_save`, the timer, `sd_cmd`, and the restart that ends a factory
reset. `SafeLock`: time, the timer, `sd_cmd`. `Encoder`: the polling task; the interrupt
needs none. `WifiManager`: the driver answers a connect that was begun (it reports success
or a reason in any case), the event task and the workers run, the armed timers expire.
`Update`: a boot goes on to its end or to its fault. `ApiCalls`: the runner of the chain.
No fairness is assumed of users, commands, access points, peers, the link, faults,
evictions or power: they may never come. Strong fairness is not used.

## 5. What is proved

TLAPS proves these for every value of the constants that satisfies the named assumptions of
the modules (`EngineAssumption`, `DebounceAssumption`, `SequenceAssumption` ...).

`ModeEngine_proofs`. `EngineTypeOK` ([]TypeOK). The type invariant is inductive with
`HasJob` (sd_cmd has a job wherever it is not waiting for one), which the steps that read
`job.slot` need. It is cut into `SlotsOK`, `QueueOK`, `TrackersOK`, `CmdOK` and `CliOK`, and
each action preserves each part. `AfterEnqueueType` takes both rounds of `enqueue_job`
apart; `InputValue` and `NewCtxType` carry the range of a slot, from the drivers and from
`RangedIn` about the engine's own clamp. Of the drivers, `RangesAreWide`: no profile and no
binding gives one an empty range or a step of zero; and `InputsStayInRange`: from there
every input ends in the range, by `ClampIn` and one lemma per way a value moves (a turn, a
preset, none), and a VALUE says "on" exactly above the lower end. `ProbesAreSpaced`
(ProbesSpaced) adds `AgeBehindLull`: the age the gate looks at was set back by the failure,
too, or by a link that came back. `EngineAndDriverAgree`: for dimmer and shutter the
engine's range is the driver's.

`EngineIsLossless` ([]NothingLostOnTheWay) takes the invariant `Lossless`. `Placed` says
what `sd_cmd` can have in its hand at each of its places. `Way(s)` follows the last VALUE
the queue accepted for a slot: it is the last of the slot's in the queue; if none is queued
it is what the task carries over; if nothing is carried it is the job in hand; and if that
is none it was sent, was refused by the gate with the tracker remembering it, or is what the
reconciliation takes next. It orders the four places, and the step from one to the next is a
step of `sd_cmd`. `toggles[s] = Flying(s)` counts the TOGGLEs on their way. Every way into
the queue (an input, a command, a job put back, both rounds of an eviction) is one lemma,
`QueueStep`: each slot owes nothing more, has its VALUE last, or sees what it saw. The
counts over queues of any length need no induction: an operation changes a queue by one job
at one end, and the places of TOGGLEs before and after are in bijection (`TogglesBehind`).

`QuietIsAnInterval`, in the same module: the two branches of `sd_quiet_active` are one
interval on the circle of the day, and an interval without length is off.

`NvsDebounce_Configuration_proofs`, first part. `TypeCorrect`. `PendingSound`
([]PendingMeansTimer) is inductive with the types: a set flag is kept by the armed timer,
its fired callback, or a task between setting it and starting the timer; each access that
could break one of the three cases creates another or clears the flag. `NoChangeForgotten`
([]SaveUnderWay) needs `PendingMeansTimer` for the step that finds the flag set and relies
on it, and for the one that clears the flag because the timer already runs.
`CleanSlotsAreSaved` ([]CleanMeansSaved) is not inductive: a write makes a slot clean, and
what it writes must be the slot's value. The strengthening `CopiesAreCurrent` says a slot
copied, not dirty since and not reloaded still holds its copy. `ChangesAreTracked` joins the
three.

`SafeLock_ApiCalls_proofs`, first part. `TypeCorrect`, with lemmas on the operators of
`SafeSequence` (a commit keeps a well-formed entry, whatever the limits). `AttemptsCount`
([]EveryAttemptCounts) rests on a strengthening about an open entry (it has a segment or a
running count, and an overflow never goes away). `AttemptsAwaitTheirEnd` ([]EndIsComing)
follows each of timer, job and drop. `LockedHoldsNoAttempt` ([]NothingTypedWhileLocked): the
step that locks finalizes, and a locked slot takes no input. `GuessesAreBounded`
([]GuessesBounded) needs `guesses <= fails`: the code's own counter is never below the wrong
attempts under the present policy. `LockIsSound` joins the four. `AttemptsAreTyped`
([]AttemptIsWhatWasTyped) compares what a pause finalizes with the reference definition
`RunLengths` of what was dialled, for attempts of any length. `Keeps(entry, typed)` says the
comparison for an open entry: its segments are the lengths of the runs that have ended, its
running count is that of the last one, and an overflow means that what was dialled does not
fit. The induction is along the behaviour, one input at a time, and not over the sequence:
`StartsAppended` and `LengthAppended` say what one more input does to the starts of the runs
and to their lengths.

`Encoder_proofs`. `TypeCorrect` and `Delivered` ([]DetentsInOrder) share one invariant: the
expected detents lie in the cells from `read` on, as many as `write` is ahead, and the
detent the task has read is the oldest until its cell is given back. It needs each index
computed modulo the ring's size as one subtraction (`Modulo`, `RingIndices`), a full ring
keeping one cell empty, and the types, since the task takes the tail of what is expected.
`RingIsAQueue` (Spec => Queue!Safety) is the refinement: initial states map to initial
states of `DetentQueue`, and with that invariant every step of the interrupt is an `Accept`
or none, every step of the task a `Deliver`, a `Done` or none of the queue's. `Decoder`
([]KnobDecoded) adds that the decoder's state is the contacts it saw last, and rests on
`StepDecoded`: the table gives one step for one step at any phase. `TapsCounted`
([]TapsConserved) rests on `TapsBalance`, which says of each operation of the classifier
that what it emits and the click it leaves waiting are the click that waited and the tap
that came. `SteppedHold` ([][...]_vars) needs that `pressed` and `rotated` stay set from the
step to the release. `NothingOfTheHandIsLost` joins them.

`JobQueue_Protocols_proofs`, first part. `JobTypeOK` ([]TypeOK) and `JobsAreOwned`
([]BlocksOwned), for any producers, blocks and queue length. The invariant says where blocks
may be (*Places*: every reference is in the hand of one producer, in one place of the queue
or in the hand of `sd_cmd`, and in one of them only) and what the heap must then hold
(*Account*: a block is allocated exactly when someone holds it or waits for its answer, and
a TEST has as many references as sides). It is cut along what a step does to a block: the
lemmas `TakeToHand`, `SendFromHand`, `LetGoHand`, `ReplaceHand`, `MakeInHand` ... say what
each move does to who holds what, `HeapTaken`, `HeapFree`, `HeapRelease`, `HeapLeave` ...
that the account still balances, and `Frame` that the producers that did not step see
nothing of it.

`Links_WifiManager_proofs`, first part. `LinksTypeOK` ([]TypeOK) and `SessionsAreProved`
([]SessionsProved), for any slots, connections, keys and nonces and a ring of any size. A
session that vouches for its peer needs the connection to have its slot to itself: `OwnSlot`
says a connection that found its slot without a task is served by its own task, which reads
from no other connection; `OneLink` that no two slots share a connection and none has that
of BLE; `Numbered` that a new connection is in nobody's hands. `TaskStep` and `TaskVouches`
treat the steps of a task at once, `BleStep`, `QuietStep` and `AcceptStep` the others. That
a nonce is taken once needs `RingKeeps`: the k-th nonce from the end is k places behind the
head, which a mark preserves because the head moves modulo the ring's size.

`WaitersAreServed` ([]WaiterMeetsDispatcher) adds `Standing`: a connection that has not
ended is the one in its task's slot. A peer that waits to send its passphrase then has a
task at the line that hands to the pairing, which no other task, no accept and no callback
moves.

`Update_proofs`. `UpdateTypes`; `RecoveryIsEarned` ([]RecoveryAfterFaults), by
`CountsFaults`: whatever the supply did, the counter in RTC memory is the number of faults
in a row, one step behind while a reset is pending. `UpdatesAreSafe` ([]UpdatesSafe), for
any images, servers, workers and failures. `TrialHasFallback` is that only the selected
partition is ever on trial, and that the other one is then whole and sound; `NoTaskYet`,
that no download outlives a reset, excludes the step that could overwrite that one before
the boot has decided on the trial. What holds only until two downloads met (`~overlapped =>
Undisturbed`) is a part of its own: one job at most has the other partition, the selected
one is sound, and a job whose hash was checked left the image it checked there.

`Pairing_proofs`. `PairingTypes`; `BondsAgree` ([]BondsKept), for any peers, slots and
tasks: `Tables` relates the table and NVS in each state of the power, `Promises` says a bond
that a peer was told of lies in NVS in the slot its peer has in memory (so that the search
for a free slot cannot hand it to another peer), `PendingIsCurrent` that a bond that waits
for the passphrase is no older than the last clearing, and, as long as no write failed,
`TablesAgree` that both tables are equal, with one bond for each peer. That the code takes
the first slot of a peer or the first free one rests on `LeastOf`: a set of numbers with a
bound has a least, from minimal sets and not by induction. `GuessesAreRemembered`
([]GuessesRemembered), by `CountsGuesses`: as long as no write failed, memory and NVS count
the same, and no fewer than were answered. Without that condition the lockout is no bound on
the answered guesses: one whose write failed is answered, and a restart forgets it, so
`told` ranges over Nat.

`JobQueue_Protocols_proofs`, second part. `ProtocolTypes`; `SessionIsShared`
([]SessionShared), for any slots, brokers, topics and clients. What the run checks, that a
client exists while a slot counts and that the broker has the subscriptions asked for, is
not inductive: a topic is in the list before it is at the broker. `Ownership` says which step of a
reload or of a subscriber goes with the mutex, `Linked` that the link, the flag and the
client go together, and `Applied` that all the broker lacks is what the CONNECTED handler or
the one subscriber is about to send. The count needs `HeldGrows` and `HeldShrinks`,
cardinalities of the slots that hold the session. `RequestsAreMapped` ([]SendsMapped) is
arithmetic: `MapValueNearest` says that half of the divisor added away from zero and C's
division toward zero give the nearest value, for any integers and ranges that rise, fall or
have no width. It is cut by sizes and signs (`QuotientNearest`, `ProductBySigns`,
`QuotientWithin`), since a product of two variables is beyond the arithmetic of the provers.

`SafeLock_ApiCalls_proofs`, second part. `ApiTypes`; `HeldIsStored` ([]StoredAsHeld) and
`ChainsReach` ([]ChainReaches), for any slots, names, peers and callers, from one invariant
(`ApiInvariant`). `OneStores`: two callers in one slot were seen (`raced`), and one alone
knows what is in the table. `Stored`: a slot that nobody is storing, that was not raced and
whose writes did not fail is in flash as in the table. `ChainRuns` says what a chain that
looks its endpoints up by name relies on: a slot nobody touched has its name to itself and
is still in use, so that the name finds it. `ChainSent` says that the chain has sent to
those behind it, in the order of the slots. To say it, the chain keeps each name with the
slot it was taken from.

`Links_WifiManager_proofs`, second part. `WifiTypeCorrect` ([]WifiTypeOK), with
`FlagsOwned`: the flag that lets one worker or one scan in is set only while its owner runs,
so no later command is answered BUSY for a worker that has gone. `DisconnectSticks`
(StaysDisconnected, an action property) goes through every step that joins: only those of a
connect that is under way do while the state is pinned.

`NvsDebounce_Configuration_proofs`, second part, for any profiles, bindings, entries,
preferences, dumps, transports and contents of the flash at boot.

- `ConfigTypes` ([]ConfigTypeOK). `JobOK` adds the shapes of the jobs: an item is of a kind,
  with its key and its document (`Work`); its command may have it (`Fits`); a task is
  between two halves only of the item at the head (`Within`); an import's items come from a
  dump that was accepted. One lemma per step (`StoreProfileDoes`, `SavePrefDoes` ...) says
  all that the step does, and the later invariants use these lemmas and no longer the
  actions. `TotalBounds` is about the sum of sizes that decides whether a dump fits: it is
  no smaller than each of them.
- `StoreIsConsistent` ([]StoreConsistent). What a client may observe holds only at rest. The
  invariant says it while commands are under way, for three regions: in `PrefRegion` memory
  is assigned first, flash follows and then the buzzer reads and copies; in `SafeRegion` and
  in `SlotRegion` flash is written first and memory follows. An item differs only while some
  task is between its two halves, or when it is doubtful. Two tasks that meet at an item
  make it doubtful before they can leave it wrong, which is what `DisturbedOnes` is for. The
  regions hold while the device serves (`Serving`): a reset or an import ends in a restart,
  which loads everything again (`BootFresh`). `ActiveHeld` is the active slot,
  `RemovalChecked` that a profile about to be removed is used by no loaded slot unless that
  was loaded since the check; both outlast an import, and a profile that a loaded slot uses
  is then in flash.
- `JobsAreComplete` ([]JobsComplete). The invariant follows a job that is alone: `WipeSoFar`
  says each region is erased or still to be, `ImportSoFar` that each item of the dump is in
  flash or still to be written (`Left`), where an item counts as written between its two
  halves. An item once written stays so because two items of a dump differ in kind or key
  (`DumpItemsDiffer`), and nobody else works (`Alone`). `LastDone` carries the result over
  the restart, after which `DumpInForce` reads it off the loaded memory. The attempt to
  prove it showed that `Restored` was false for a behaviour that no driver registers: such a
  binding is kept, and its slot stays disabled. The property now says so.

These proofs rest on assumptions the code gives: `LimitsAssumption` (a line of 1024
characters is shorter than a profile's 2048, so that no profile of a dump that was taken is
refused), `DocumentsAssumption` (None is no document, a size is a number, a binding's
profile is an id, absent or of the wrong type), `PrefsAssumption` (the default of a
preference is one of its values) and `ConfigurationAssumption` (flash starts with documents,
dumps have finitely many keys).

Every invariant and action property of the runs is thus a theorem. Only model-checked is all
liveness, since TLAPS has no ENABLED: `Settles`, `TestReturns`, `DirtyReachesFlash`,
`AttemptEnds`, `PressesEnd`, `RadiosReturn`, `CrashLoopEnds`, and the half of `Implements`
that is `Queue!Progress` (the other half is `RingIsAQueue`).

## 6. Not modelled

Listed with reasons in `PROJECT.json`, "components".

- `Code/HW`, `Code/GUI`: the former firmware and its page, not built by `Code/neue`. They are
  the larger part of the repository's C.
- Reports, names, mDNS, LEDs, logs, capabilities, help texts and the layout of answers: they
  read the state of the others and keep none that interleaves.
- The pattern player of the buzzer: its races are data races on plain pointers, whose outcome
  is not one of a few; `sd_feedback` is a stateless mapping. `sk_button.c` is never
  initialised.
- Deferred events (`sd_ctx_publish`) of the engine, unsubscription from the event bus, which
  nothing calls, fragmentation of BLE notifications, `get_state` of the drivers.
- USB is a local transport: lines without a session.
- JSON and templates at the level of characters.

## 7. What is left

1. A lock that takes whole attempts, refined by `SafeLock`, and a bounded channel with
   eviction, refined by `JobQueue`.
2. The deferred events of the engine, and the link between `WifiManager` and `ModeEngine`
   by the events themselves.
3. Liveness by hand: the ranking of `Settles` and of `DirtyReachesFlash` could be proved as
   safety properties of a counter.
