----------------------------- MODULE ModeEngine -----------------------------
(***************************************************************************)
(* The mode engine (sd_mode_engine.c) between an input and the network:     *)
(* slots with a driver (Drivers) and a value, the job queue, the sd_cmd task *)
(* that coalesces VALUE jobs and executes sends, the offline tracker and the     *)
(* reconciliation of a slot whose target came back.                        *)
(*                                                                         *)
(* The tasks: sd_input (a whole handler under eng_lock is one action), the  *)
(* CLI tasks (which enqueue after releasing eng_lock), the timers, the      *)
(* handler of "wifi.state" events, and sd_cmd.  A step is a critical        *)
(* section of eng_lock, a queue operation or a network call.  enqueue_job   *)
(* is one step here; JobQueue takes it apart.                               *)
(*                                                                         *)
(* Left to other modules: the NVS debounce (NvsDebounce), the waiter of a   *)
(* mode.test (JobQueue), the safe driver (SafeLock).                        *)
(***************************************************************************)
EXTENDS OfflineTracker, Drivers, Integers, Sequences, FiniteSets

CONSTANTS
    SlotCount,       \* SD_MODE_SLOTS
    Detents,         \* how far one ROTATE may turn
    SetTo,           \* values a CLI command may set
    StoredValues,    \* values NVS may hold for a slot
    Bindings,        \* the bindings mode.set may store
    InitialBinding,  \* what each slot holds at boot
    CliTasks,        \* transports a CLI command may run on
    QueueLen,        \* SD_ENGINE_QUEUE_LEN
    ErrLimit,        \* SD_ENGINE_ERR_LIMIT
    NoBinding,       \* an empty, disabled or failed slot
    NoJob,           \* a NULL job pointer
    MaxEvents        \* bound: inputs, commands, timer expiries and link changes

Slots == 1..SlotCount
NoValue == Absent

\* A loaded slot: its driver and parameters, whether it has a profile (mqtt_remote
\* may do without), the profile's set_value and the kinds materialize finds a
\* command for.
BindingType == [drv: ValueDrivers, profile: BOOLEAN, set_value: SetValues,
                params: Params, cmds: SUBSET Kinds]

ASSUME EngineAssumption ==
    /\ SlotCount \in Nat \ {0}
    /\ QueueLen \in Nat \ {0}
    /\ ErrLimit \in Nat \ {0}
    /\ Detents \subseteq Int /\ SetTo \subseteq Int /\ StoredValues \subseteq Int
    /\ Absent \notin Int \union BOOLEAN
    /\ Bindings \subseteq BindingType
    /\ NoBinding \notin BindingType
    /\ InitialBinding \in [Slots -> BindingType \union {NoBinding}]
    /\ MaxEvents \in Nat

\* eng_job_t.  NVS_SAVE and TIMEOUT jobs carry nothing the queue looks at.
JobTypes == {"SEND", "TEST", "NVS_SAVE", "TIMEOUT"}
Jobs == [type: JobTypes, slot: Slots, kind: Kinds, value: Int, toggle: BOOLEAN]

ASSUME NoJobAssumption == NoJob \notin Jobs

SendJob(s, kind, value, toggle) ==
    [type |-> "SEND", slot |-> s, kind |-> kind, value |-> value, toggle |-> toggle]

\* make_job for the types that carry no data.
PlainJob(type, s) ==
    [type |-> type, slot |-> s, kind |-> "VALUE", value |-> 0, toggle |-> FALSE]

IsSend(j, s, kind) == j.type = "SEND" /\ j.slot = s /\ j.kind = kind

VARIABLES
    bound,     \* slot -> binding with its driver loaded, or NoBinding
    ctx,       \* slot -> value, state, err_count and error of slot_ctx_t
    active,    \* s_active
    queue,     \* s_queue
    tracker,   \* s_offline
    uptime,    \* ticks since boot, up to ProbeTicks
    wifi,      \* the last link state published as wifi.state
    reconcile, \* next slot on_wifi_state reconciles, SlotCount + 1 when done
    pc,        \* where sd_cmd is
    job,       \* sd_cmd's job
    carry,     \* sd_cmd's carry
    wire,      \* the send execute_send captured from drv->test, or NoJob
    linked,    \* the link was up when the running network call started
    cli,       \* CLI task -> the job it made and has not enqueued, or NoJob
    events,    \* inputs, commands, timer expiries and link changes so far
    \* History variables: no action of the code reads them.
    owed,      \* slot -> the last VALUE accepted by the queue and not evicted
    sent,      \* slot -> the last queued VALUE handed to the transport
    toggles,   \* slot -> TOGGLE jobs accepted and neither executed nor evicted
    lull       \* slot -> ticks since a failure left or found it offline

slotVars == <<bound, ctx, active>>
cmdVars == <<pc, job, carry, wire, linked>>
history == <<owed, sent, toggles, lull>>
vars == <<slotVars, queue, tracker, uptime, wifi, reconcile, cmdVars, cli,
          events, history>>

Loaded(s) == bound[s] # NoBinding

\* What the driver of binding b was initialised with: without a profile every field of
\* set_value is absent.
SetValueOf(b) ==
    IF b.profile THEN b.set_value ELSE [min |-> Absent, max |-> Absent, step |-> Absent]
Priv(b) == DriverInit(b.drv, SetValueOf(b), b.params)

\* profile_range: the range the engine clamps to.
ProfileRange(b) ==
    LET lo == Field(SetValueOf(b).min, 0)
        hi == Field(SetValueOf(b).max, 100)
    IN  IF hi <= lo THEN [lo |-> 0, hi |-> 100] ELSE [lo |-> lo, hi |-> hi]
Ranged(b, v) == Clamp(v, ProfileRange(b).lo, ProfileRange(b).hi)

\* The slot after load_slot: zeroed, or with the stored value brought into its range.
NewCtx(b, value, on) ==
    [value |-> IF b = NoBinding THEN 0 ELSE Ranged(b, value),
     state |-> b # NoBinding /\ on, errs |-> 0, error |-> FALSE]

Init ==
    /\ bound = InitialBinding
    /\ ctx = [s \in Slots |-> NewCtx(InitialBinding[s], 0, FALSE)]
    /\ active = 1
    /\ queue = <<>>
    /\ tracker = [s \in Slots |-> NewTracker]
    /\ uptime = 0
    /\ wifi \in BOOLEAN
    /\ reconcile = SlotCount + 1
    /\ pc = "receive" /\ job = NoJob /\ carry = NoJob /\ wire = NoJob
    /\ linked = FALSE
    /\ cli = [c \in CliTasks |-> NoJob]
    /\ events = 0
    /\ owed = [s \in Slots |-> NoValue]
    /\ sent = [s \in Slots |-> NoValue]
    /\ toggles = [s \in Slots |-> 0]
    /\ lull = [s \in Slots |-> ProbeTicks]

\* An action of the environment uses up one of MaxEvents.
Event == events < MaxEvents /\ events' = events + 1

-----------------------------------------------------------------------------
(* The queue.                                                              *)

\* One round of enqueue_job on a full queue: the head is a victim when it is
\* a SEND and goes back to the tail when it is not.
MakeRoom(q) ==
    IF Head(q).type = "SEND" THEN Tail(q) ELSE Append(Tail(q), Head(q))

\* enqueue_job: two rounds, each of which first tries to send.  The queue
\* after it, and whether the new job is in it.
Accepted(q, j) == Len(q) < QueueLen \/ Len(MakeRoom(q)) < QueueLen
AfterEnqueue(q, j) ==
    IF Len(q) < QueueLen THEN Append(q, j)
    ELSE IF Len(MakeRoom(q)) < QueueLen THEN Append(MakeRoom(q), j)
    ELSE MakeRoom(MakeRoom(q))

HoldsSend(q, s, kind) == \E i \in 1..Len(q): IsSend(q[i], s, kind)
CountToggles(q, s) == Cardinality({i \in 1..Len(q): IsSend(q[i], s, "TOGGLE")})

\* enqueue_job and the bookkeeping of what it accepted and evicted.
Enqueue(j) ==
    LET q == AfterEnqueue(queue, j)
        toggleOf(s) == IF IsSend(j, s, "TOGGLE") THEN 1 ELSE 0
    IN  /\ queue' = q
        /\ owed' = [s \in Slots |->
                IF IsSend(j, s, "VALUE")
                THEN IF Accepted(queue, j) THEN j.value ELSE NoValue
                ELSE IF HoldsSend(queue, s, "VALUE") /\ ~HoldsSend(q, s, "VALUE")
                THEN NoValue ELSE owed[s]]
        /\ toggles' = [s \in Slots |->
                toggles[s] + CountToggles(q, s) - CountToggles(queue, s)]

-----------------------------------------------------------------------------
(* sd_input: the drivers' on_input under eng_lock.                         *)

\* sd_mode_engine_input's guard on the active slot.
TakesInput(s) == s = active /\ Loaded(s) /\ ~ctx[s].error

\* err_count after an on_input whose send was accepted or not.
CountError(c, ok) ==
    IF ok THEN [c EXCEPT !.errs = 0]
    ELSE [c EXCEPT !.errs = @ + 1, !.error = @ \/ c.errs + 1 >= ErrLimit]

\* sd_mode_engine_input: what the driver makes of input i.  One that sends nothing
\* succeeds, which ends a run of errors.
Input(s, i, factor) ==
    LET r == OnInput(bound[s].drv, Priv(bound[s]), ctx[s], i, factor)
        j == SendJob(s, r.kind, r.value, r.state)
        silent == r.kind = "NONE"
        ok == silent \/ Accepted(queue, j)
    IN  /\ Event
        /\ ctx' = [ctx EXCEPT ![s] =
                CountError([@ EXCEPT !.value = r.value, !.state = r.state], ok)]
        /\ IF silent THEN UNCHANGED <<queue, owed, toggles>> ELSE Enqueue(j)
        /\ UNCHANGED <<bound, active, tracker, uptime, wifi, reconcile, cmdVars,
                       cli, sent, lull>>

\* sd_mode_engine_slot_step and eng_set_active: bounded, no wrap-around.
SlotStep(dir) ==
    /\ Event
    /\ active + dir \in Slots
    /\ active' = active + dir
    /\ UNCHANGED <<bound, ctx, queue, tracker, uptime, wifi, reconcile, cmdVars,
                   cli, history>>

SdInput ==
    \/ \E s \in Slots, i \in Inputs(Detents):
        /\ TakesInput(s)
        /\ \E factor \in Factors(Priv(bound[s])): Input(s, i, factor)
    \/ \E dir \in {-1, 1}: SlotStep(dir)

-----------------------------------------------------------------------------
(* CLI tasks.                                                              *)

\* eng_set_value_direct, the part under eng_lock; a slot in error is served.
SetValue(c, s, v) ==
    /\ Event /\ cli[c] = NoJob
    /\ Loaded(s)
    /\ LET value == Ranged(bound[s], v)
           on == value > ProfileRange(bound[s]).lo
       IN  /\ ctx' = [ctx EXCEPT ![s].value = value, ![s].state = on]
           /\ cli' = [cli EXCEPT ![c] = SendJob(s, "VALUE", value, on)]
    /\ UNCHANGED <<bound, active, queue, tracker, uptime, wifi, reconcile,
                   cmdVars, history>>

\* eng_toggle_direct, the part under eng_lock.
Toggle(c, s) ==
    /\ Event /\ cli[c] = NoJob
    /\ Loaded(s)
    /\ ctx' = [ctx EXCEPT ![s].state = ~@]
    /\ cli' = [cli EXCEPT ![c] = SendJob(s, "TOGGLE", ctx[s].value, ~ctx[s].state)]
    /\ UNCHANGED <<bound, active, queue, tracker, uptime, wifi, reconcile,
                   cmdVars, history>>

\* Both, after eng_unlock: enqueue what was captured under the lock.
CliEnqueue(c) ==
    /\ cli[c] # NoJob
    /\ Enqueue(cli[c])
    /\ cli' = [cli EXCEPT ![c] = NoJob]
    /\ UNCHANGED <<slotVars, tracker, uptime, wifi, reconcile, cmdVars, events,
                   sent, lull>>

\* eng_run_test up to the wait.
RunTest(c, s) ==
    /\ Event /\ cli[c] = NoJob
    /\ Enqueue(PlainJob("TEST", s))
    /\ UNCHANGED <<slotVars, tracker, uptime, wifi, reconcile, cmdVars, cli,
                   sent, lull>>

\* load_slot and unload_slot on slot s, under eng_lock: the slot's memory is
\* zeroed and its value and state come from NVS, whatever it holds (NvsDebounce
\* says).
LoadSlot(s, b, value, on) ==
    /\ bound' = [bound EXCEPT ![s] = b]
    /\ ctx' = [ctx EXCEPT ![s] = NewCtx(b, value, on)]
    /\ owed' = [owed EXCEPT ![s] = NoValue]
    /\ sent' = [sent EXCEPT ![s] = NoValue]

\* eng_store_and_reload: the tracker keeps what it knew of the old target.
StoreAndReload(c, s, b, value, on) ==
    /\ Event /\ cli[c] = NoJob
    /\ LoadSlot(s, b, value, on)
    /\ UNCHANGED <<active, queue, tracker, uptime, wifi, reconcile, cmdVars,
                   cli, toggles, lull>>

\* eng_clear_slot.
ClearSlot(c, s) ==
    /\ Event /\ cli[c] = NoJob
    /\ LoadSlot(s, NoBinding, 0, FALSE)
    /\ UNCHANGED <<active, queue, tracker, uptime, wifi, reconcile, cmdVars,
                   cli, toggles, lull>>

Cli(c) ==
    \/ \E s \in Slots, v \in SetTo: SetValue(c, s, v)
    \/ \E s \in Slots: Toggle(c, s)
    \/ \E s \in Slots: RunTest(c, s)
    \/ \E s \in Slots, b \in Bindings, v \in StoredValues, on \in BOOLEAN:
        StoreAndReload(c, s, b, v, on)
    \/ \E s \in Slots: ClearSlot(c, s)

-----------------------------------------------------------------------------
(* Timers, time and the WiFi link.                                         *)

\* slot_timeout_cb and nvs_timer_cb (whose job names no slot): a timer only
\* enqueues a job.
TimerExpires(j) ==
    /\ Event
    /\ Enqueue(j)
    /\ UNCHANGED <<slotVars, tracker, uptime, wifi, reconcile, cmdVars, cli,
                   sent, lull>>

\* esp_timer_get_time advances by a tick.
Tick ==
    /\ uptime' = Older(uptime)
    /\ tracker' = [s \in Slots |-> [tracker[s] EXCEPT !.age = Older(@)]]
    /\ lull' = [s \in Slots |-> Older(lull[s])]
    /\ UNCHANGED <<slotVars, queue, wifi, reconcile, cmdVars, cli, events, owed,
                   sent, toggles>>

\* on_wifi_state with "disconnected".
WifiDown ==
    /\ Event
    /\ reconcile > SlotCount
    /\ wifi' = FALSE
    /\ tracker' = [s \in Slots |-> WifiDownTracker(tracker[s])]
    /\ UNCHANGED <<slotVars, queue, uptime, reconcile, cmdVars, cli, history>>

\* on_wifi_state with "connected", up to its loop over the slots.
WifiUp ==
    /\ Event
    /\ reconcile > SlotCount /\ ~wifi
    /\ wifi' = TRUE
    /\ tracker' = [s \in Slots |-> WifiUpTracker(tracker[s], uptime)]
    /\ reconcile' = 1
    /\ lull' = [s \in Slots |-> ProbeTicks]
    /\ UNCHANGED <<slotVars, queue, uptime, cmdVars, cli, owed, sent, toggles>>

\* reconcile_slot: a slot with a profile gets its current value queued.
ReconcileSlot(s) ==
    IF Loaded(s) /\ bound[s].profile
    THEN Enqueue(SendJob(s, "VALUE", ctx[s].value, ctx[s].state))
    ELSE UNCHANGED <<queue, owed, toggles>>

\* One round of on_wifi_state's loop.
WifiReconcile ==
    /\ reconcile \in Slots
    /\ ReconcileSlot(reconcile)
    /\ reconcile' = reconcile + 1
    /\ UNCHANGED <<slotVars, tracker, uptime, wifi, cmdVars, cli, events, sent,
                   lull>>

-----------------------------------------------------------------------------
(* sd_cmd.                                                                 *)

\* Where cmd_task goes with job j in hand: a VALUE first drains the queue.
PcFor(j) ==
    IF j = NoJob THEN "receive"
    ELSE IF j.type = "SEND" THEN IF j.kind = "VALUE" THEN "drain" ELSE "gate"
    ELSE IF j.type = "TEST" THEN "capture" ELSE "other"

\* xQueueReceive at the top of the loop.
Receive ==
    /\ pc = "receive" /\ queue # <<>>
    /\ job' = Head(queue)
    /\ queue' = Tail(queue)
    /\ pc' = PcFor(Head(queue))
    /\ UNCHANGED <<slotVars, tracker, uptime, wifi, reconcile, carry, wire,
                   linked, cli, events, history>>

\* A mutation: the slots of the two jobs are not compared.
MergesAnySlot(j, k) == k.type = "SEND" /\ k.kind = "VALUE"

\* The drain loop replaces its job by a later VALUE of the same slot.
Merges(j, k) == k.type = "SEND" /\ k.kind = "VALUE" /\ k.slot = j.slot

\* One round of the drain loop: keep the latest, or carry and stop.
Drain ==
    /\ pc = "drain" /\ queue # <<>>
    /\ queue' = Tail(queue)
    /\ IF Merges(job, Head(queue))
       THEN job' = Head(queue) /\ UNCHANGED <<pc, carry>>
       ELSE carry' = Head(queue) /\ pc' = "gate" /\ UNCHANGED job
    /\ UNCHANGED <<slotVars, tracker, uptime, wifi, reconcile, wire, linked,
                   cli, events, history>>

\* SD_ENGINE_COALESCE_MS pass without a job.
DrainTimeout ==
    /\ pc = "drain" /\ queue = <<>>
    /\ pc' = "gate"
    /\ UNCHANGED <<slotVars, queue, tracker, uptime, wifi, reconcile, job,
                   carry, wire, linked, cli, events, history>>

\* The end of dispatch_job: the carried job is next.
EndJob ==
    /\ job' = carry
    /\ carry' = NoJob
    /\ wire' = NoJob
    /\ pc' = PcFor(carry)

\* A TOGGLE that was executed or held back by the gate is accounted for.
Account ==
    toggles' = IF job.type = "SEND" /\ job.kind = "TOGGLE"
               THEN [toggles EXCEPT ![job.slot] = @ - 1] ELSE toggles

Finish == EndJob /\ Account

\* dispatch_job of an NVS_SAVE or a TIMEOUT job: nothing of this module.
Other ==
    /\ pc = "other"
    /\ Finish
    /\ UNCHANGED <<linked, slotVars, queue, tracker, uptime, wifi, reconcile,
                   cli, events, owed, sent, lull>>

\* execute_test under eng_lock: drv->test makes the send that is captured.
Capture ==
    /\ pc = "capture"
    /\ LET s == job.slot
       IN  IF Loaded(s)
           THEN /\ LET r == Test(ctx[s]) IN wire' = SendJob(s, r.kind, r.value, r.state)
                /\ pc' = "gate"
                /\ UNCHANGED <<job, carry, toggles>>
           ELSE Finish
    /\ UNCHANGED <<linked, slotVars, queue, tracker, uptime, wifi, reconcile,
                   cli, events, owed, sent, lull>>

\* The send execute_send is called with.
Sending == IF wire = NoJob THEN job ELSE wire

\* execute_send, first critical section: a closed gate ends the send.
Gate ==
    /\ pc = "gate"
    /\ LET s == Sending.slot
       IN  IF ShouldSend(tracker[s])
           THEN /\ tracker' = [tracker EXCEPT ![s] = AfterShouldSend(@)]
                /\ pc' = "materialize"
                /\ UNCHANGED <<job, carry, wire, toggles>>
           ELSE Finish /\ UNCHANGED tracker
    /\ UNCHANGED <<linked, slotVars, queue, uptime, wifi, reconcile, cli,
                   events, owed, sent, lull>>

\* execute_send, second critical section: the slot as it is now decides.
Materialize ==
    /\ pc = "materialize"
    /\ LET j == Sending
       IN  IF Loaded(j.slot) /\ j.kind \in bound[j.slot].cmds
           THEN /\ pc' = "transport"
                /\ linked' = wifi
                /\ sent' = IF job.type = "SEND" /\ j.kind = "VALUE"
                           THEN [sent EXCEPT ![j.slot] = j.value] ELSE sent
                /\ UNCHANGED <<job, carry, wire, toggles>>
           ELSE Finish /\ UNCHANGED <<linked, sent>>
    /\ UNCHANGED <<slotVars, queue, tracker, uptime, wifi, reconcile, cli,
                   events, owed, lull>>

\* sd_proto_execute returns and offline_feed takes the result, under eng_lock.
\* The result goes to the slot number, whatever was loaded there meanwhile.
Transport(ok) ==
    /\ pc = "transport" /\ (ok => linked)
    /\ LET s == Sending.slot
           t == Feed(tracker[s], ok)
       IN  /\ tracker' = [tracker EXCEPT ![s] = t]
           /\ lull' = [lull EXCEPT ![s] =
                   IF ok THEN ProbeTicks ELSE IF t.offline THEN 0 ELSE @]
           /\ IF Came(tracker[s], ok)
              THEN pc' = "reconcile" /\ UNCHANGED <<job, carry, wire>>
              ELSE EndJob
           /\ Account
    /\ UNCHANGED <<linked, slotVars, queue, uptime, wifi, reconcile, cli,
                   events, owed, sent>>

\* offline_feed's reconcile_slot, and the return to the loop.
CameReconcile ==
    /\ pc = "reconcile"
    /\ ReconcileSlot(Sending.slot)
    /\ EndJob
    /\ UNCHANGED <<linked, slotVars, tracker, uptime, wifi, reconcile, cli,
                   events, sent, lull>>

SdCmd ==
    \/ Receive \/ Drain \/ DrainTimeout \/ Other \/ Capture \/ Gate \/ Materialize
    \/ \E ok \in BOOLEAN: Transport(ok)
    \/ CameReconcile

-----------------------------------------------------------------------------
Next ==
    \/ SdInput
    \/ \E c \in CliTasks: Cli(c) \/ CliEnqueue(c)
    \/ \E s \in Slots: TimerExpires(PlainJob("TIMEOUT", s))
    \/ TimerExpires(PlainJob("NVS_SAVE", 1))
    \/ Tick \/ WifiDown \/ WifiUp \/ WifiReconcile
    \/ SdCmd

\* Ready tasks run: sd_cmd, the event handler and a CLI task between its
\* lock and its enqueue.  Nothing makes a user, a timer or the link act.
Fairness ==
    /\ WF_vars(SdCmd)
    /\ WF_vars(WifiReconcile)
    /\ \A c \in CliTasks: WF_vars(CliEnqueue(c))
    /\ WF_vars(Tick)

Spec == Init /\ [][Next]_vars /\ Fairness
-----------------------------------------------------------------------------
(* Properties.                                                             *)

\* The values a loaded slot may hold: a command keeps to the range of the profile, an
\* input to the range of the driver, which is another one only for a remote.
InRange(b, v) ==
    \/ v \in ProfileRange(b).lo .. ProfileRange(b).hi
    \/ v \in Priv(b).min .. Priv(b).max

\* Type invariant: the queue never exceeds its length, the value of every slot stays
\* in its range, whatever is set, turned, stored and reloaded, and every tracker is
\* well formed.
TypeOK ==
    /\ bound \in [Slots -> BindingType \union {NoBinding}]
    /\ ctx \in [Slots -> [value: Int, state: BOOLEAN, errs: Nat, error: BOOLEAN]]
    /\ \A s \in Slots: Loaded(s) => InRange(bound[s], ctx[s].value)
    /\ active \in Slots
    /\ queue \in Seq(Jobs) /\ Len(queue) <= QueueLen
    /\ tracker \in [Slots -> Trackers]
    /\ uptime \in Ages
    /\ wifi \in BOOLEAN /\ linked \in BOOLEAN
    /\ reconcile \in 1..(SlotCount + 1)
    /\ pc \in {"receive", "drain", "gate", "capture", "other", "materialize",
               "transport", "reconcile"}
    /\ job \in Jobs \union {NoJob} /\ carry \in Jobs \union {NoJob}
    /\ wire \in Jobs \union {NoJob}
    /\ cli \in [CliTasks -> Jobs \union {NoJob}]

\* sd_cmd waits on an empty queue and no reconciliation is under way.
Quiet == pc = "receive" /\ queue = <<>> /\ reconcile > SlotCount

\* ARCHITECTURE.md section 7: the last value of a turn is sent.  Of the
\* queue this holds: once the engine is at rest and the target is online, the
\* last VALUE the queue accepted for a slot, and did not evict, is the last
\* one handed to the transport, through coalescing, the offline gate, a lost
\* link and the reconciliation that follows.
LastAcceptedValueSent ==
    \A s \in Slots:
        (/\ Quiet /\ Loaded(s) /\ bound[s].profile /\ "VALUE" \in bound[s].cmds
         /\ ~tracker[s].offline /\ owed[s] # NoValue)
        => sent[s] = owed[s]

\* A job whose transport result is in is no longer on its way.
InFlight == (IF pc = "reconcile" THEN <<carry>> ELSE <<job, carry>>) \o queue

\* "iki TOGGLE asla birlesmez": the TOGGLE jobs on their way for a slot are
\* exactly those accepted and neither executed nor evicted; coalescing never
\* swallows one, which would leave a lamp in the opposite state.
TogglesConserved ==
    \A s \in Slots:
        toggles[s] = Cardinality({i \in 1..Len(InFlight):
                        InFlight[i] # NoJob /\ IsSend(InFlight[i], s, "TOGGLE")})

\* Between a queue that accepted a job and the transport nothing is lost or
\* doubled: the last VALUE arrives whatever was merged, held back or reconciled
\* before it, and the TOGGLEs add up.
NothingLostOnTheWay == LastAcceptedValueSent /\ TogglesConserved

\* A send that fails and finds or leaves its slot offline is followed by no
\* other attempt on that slot before ProbeTicks, unless the link came back.
ProbesSpaced ==
    [][\A s \in Slots:
        (pc = "gate" /\ pc' = "materialize" /\ Sending.slot = s /\ tracker[s].offline)
        => lull[s] >= ProbeTicks]_vars

\* When inputs, commands, timers and the link stay still the engine comes to
\* rest: reconciliation after a return does not feed itself.
Settles == <>[]Quiet
=============================================================================
