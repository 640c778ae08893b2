---------------------------- MODULE NvsDebounce ----------------------------
(***************************************************************************)
(* The delayed save of slot values (sd_mode_engine.c): a change marks its   *)
(* slot dirty and arms a one-shot timer unless one is pending; the timer    *)
(* enqueues a save; sd_cmd copies the dirty slots under eng_lock and writes  *)
(* the copy to flash without it.  enqueue_job may drop a queued save to make *)
(* room, or the new one: job_discard then schedules another.               *)
(*                                                                         *)
(* s_nvs_pending is read and written without a lock by the tasks that       *)
(* change a value or discard a job and by the timer task, so each access is  *)
(* a step.  The input task works inside eng_lock and keeps it up to the end *)
(* of schedule_nvs_save; CLI tasks have released it by then.               *)
(*                                                                         *)
(* A value is a version: the n-th change writes n; 0 is a slot with no key. *)
(***************************************************************************)
EXTENDS Integers

CONSTANTS
    InputTasks,  \* tasks that change values and enqueue under eng_lock (sd_input)
    CliTasks,    \* tasks that enqueue without it (CLI, event handlers)
    TimerTask,   \* the task that runs nvs_timer_cb and slot_timeout_cb
    Slots,
    MaxChanges,  \* bound: changes of any slot
    MaxFaults    \* bound: saves dropped, allocations and nvs_opens that fail

Tasks == InputTasks \union CliTasks \union {TimerTask}
Versions == 0..MaxChanges
NotSaved == -1

ASSUME DebounceAssumption ==
    /\ InputTasks \intersect CliTasks = {}
    /\ TimerTask \notin InputTasks \union CliTasks
    /\ MaxChanges \in Nat /\ MaxFaults \in Nat

VARIABLES
    value,     \* slot -> slot_ctx_t.value
    dirty,     \* slot -> slot_ctx_t.nvs_dirty
    flash,     \* slot -> the value under its NVS key
    pending,   \* s_nvs_pending
    armed,     \* s_nvs_timer is running
    jobs,      \* NVS_SAVE jobs in the queue
    snap,      \* slot -> the version nvs_save_values copied, or NotSaved
    saver,     \* where nvs_save_values is
    pc,        \* task -> where it is in nvs_timer_cb, job_discard or
               \* schedule_nvs_save
    wiped,     \* a factory reset has erased the namespace; a restart follows
    changes,   \* changes so far
    faults,    \* faults so far
    \* History variables.
    forgotten, \* nvs_timer_cb found no memory for its job, no change since
    torn       \* slot -> its last copy was not written, or was on its way to
               \* flash when the slot was reloaded

saveVars == <<value, dirty, flash, snap, saver>>
timerVars == <<pending, armed, jobs>>
history == <<forgotten, torn>>
vars == <<saveVars, timerVars, pc, wiped, changes, faults, history>>

NothingCopied == [s \in Slots |-> NotSaved]
NoSlot == [s \in Slots |-> FALSE]

Init ==
    /\ value = [s \in Slots |-> 0] /\ flash = [s \in Slots |-> 0]
    /\ dirty = NoSlot /\ torn = NoSlot
    /\ pending = FALSE /\ armed = FALSE /\ jobs = 0
    /\ snap = NothingCopied /\ saver = "idle"
    /\ pc = [t \in Tasks |-> "idle"]
    /\ wiped = FALSE /\ changes = 0 /\ faults = 0
    /\ forgotten = FALSE

\* No input task is between its eng_lock and its eng_unlock.
EngLockFree == \A t \in InputTasks: pc[t] = "idle"

Goto(t, label) == pc' = [pc EXCEPT ![t] = label]

Fault == faults < MaxFaults /\ faults' = faults + 1

-----------------------------------------------------------------------------
(* A change of a value and schedule_nvs_save.                              *)

\* sd_ctx_set_value, eng_set_value_direct and eng_toggle_direct, under eng_lock.
Change(t, s) ==
    /\ pc[t] = "idle" /\ EngLockFree
    /\ changes < MaxChanges /\ changes' = changes + 1
    /\ value' = [value EXCEPT ![s] = changes + 1]
    /\ dirty' = [dirty EXCEPT ![s] = TRUE]
    /\ torn' = [torn EXCEPT ![s] = FALSE]
    /\ forgotten' = FALSE
    /\ Goto(t, "check")
    /\ UNCHANGED <<flash, snap, saver, timerVars, wiped, faults>>

\* if (s_nvs_pending) return;
Check(t) ==
    /\ pc[t] = "check"
    /\ Goto(t, IF pending THEN "idle" ELSE "set")
    /\ UNCHANGED <<saveVars, timerVars, wiped, changes, faults, history>>

SetPending(t) ==
    /\ pc[t] = "set"
    /\ pending' = TRUE
    /\ Goto(t, "start")
    /\ UNCHANGED <<saveVars, armed, jobs, wiped, changes, faults, history>>

\* esp_timer_start_once fails on a running timer.
StartTimer(t) ==
    /\ pc[t] = "start"
    /\ armed' = TRUE
    /\ Goto(t, IF armed THEN "clear" ELSE "idle")
    /\ UNCHANGED <<saveVars, pending, jobs, wiped, changes, faults, history>>

\* ... and pending is taken back.
ClearPending(t) ==
    /\ pc[t] = "clear"
    /\ pending' = FALSE
    /\ Goto(t, "idle")
    /\ UNCHANGED <<saveVars, armed, jobs, wiped, changes, faults, history>>

Schedule(t) == Check(t) \/ SetPending(t) \/ StartTimer(t) \/ ClearPending(t)

-----------------------------------------------------------------------------
(* job_discard of a save.                                                  *)

\* A task that enqueues into a full queue takes a save out of it and finds the
\* place gone when it puts the save back (JobQueue).
Discard(t) ==
    /\ pc[t] = "idle" /\ jobs > 0 /\ Fault
    /\ t \in InputTasks => EngLockFree
    /\ jobs' = jobs - 1
    /\ Goto(t, "reset")
    /\ UNCHANGED <<saveVars, pending, armed, wiped, changes, history>>

\* s_nvs_pending = false; schedule_nvs_save();
ResetPending(t) ==
    /\ pc[t] = "reset"
    /\ pending' = FALSE
    /\ Goto(t, "check")
    /\ UNCHANGED <<saveVars, armed, jobs, wiped, changes, faults, history>>

-----------------------------------------------------------------------------
(* The timer and nvs_timer_cb.                                             *)

\* SD_ENGINE_NVS_DEBOUNCE_MS is longer than the time to a restart after a
\* factory reset.
TimerExpires ==
    /\ armed /\ pc[TimerTask] = "idle" /\ ~wiped
    /\ armed' = FALSE
    /\ Goto(TimerTask, "fired")
    /\ UNCHANGED <<saveVars, pending, jobs, wiped, changes, faults, history>>

\* A mutation: nvs_timer_cb leaves s_nvs_pending set.
CallbackLeavesPending ==
    /\ pc[TimerTask] = "fired"
    /\ Goto(TimerTask, "enqueue")
    /\ UNCHANGED <<saveVars, timerVars, wiped, changes, faults, history>>

CallbackClears ==
    /\ pc[TimerTask] = "fired"
    /\ pending' = FALSE
    /\ Goto(TimerTask, "enqueue")
    /\ UNCHANGED <<saveVars, armed, jobs, wiped, changes, faults, history>>

CallbackEnqueues ==
    /\ pc[TimerTask] = "enqueue"
    /\ jobs' = jobs + 1
    /\ Goto(TimerTask, "idle")
    /\ UNCHANGED <<saveVars, pending, armed, wiped, changes, faults, history>>

\* enqueue_job discards the new job.
CallbackRefused ==
    /\ pc[TimerTask] = "enqueue" /\ Fault
    /\ Goto(TimerTask, "reset")
    /\ UNCHANGED <<saveVars, timerVars, wiped, changes, history>>

\* make_job returned NULL: nothing is enqueued and nothing scheduled.
CallbackHasNoJob ==
    /\ pc[TimerTask] = "enqueue" /\ Fault
    /\ forgotten' = TRUE
    /\ Goto(TimerTask, "idle")
    /\ UNCHANGED <<saveVars, timerVars, wiped, changes, torn>>

Callback ==
    CallbackClears \/ CallbackEnqueues \/ CallbackRefused \/ CallbackHasNoJob

-----------------------------------------------------------------------------
(* sd_cmd: nvs_save_values.                                                *)

\* Under eng_lock: copy the dirty slots and clear their flags.
Copy ==
    /\ saver = "idle" /\ jobs > 0 /\ EngLockFree
    /\ jobs' = jobs - 1
    /\ snap' = [s \in Slots |-> IF dirty[s] THEN value[s] ELSE NotSaved]
    /\ dirty' = NoSlot
    /\ saver' = "write"
    /\ UNCHANGED <<value, flash, pending, armed, pc, wiped, changes, faults, history>>

\* A mutation: slots that were clean are not skipped.
WrittenUnchecked(S) == [s \in Slots |-> IF s \in S THEN snap[s] ELSE flash[s]]

\* The flash with the copies of the slots in S written.
Written(S) ==
    [s \in Slots |-> IF s \in S /\ snap[s] # NotSaved THEN snap[s] ELSE flash[s]]

\* A mutation: the flags are cleared after the write instead of at the copy.
WriteClearsDirty ==
    /\ saver = "write"
    /\ flash' = Written(Slots)
    /\ snap' = NothingCopied
    /\ dirty' = NoSlot
    /\ saver' = "idle"
    /\ UNCHANGED <<value, timerVars, pc, wiped, changes, faults, history>>

\* Without the lock: write the copies.
Write ==
    /\ saver = "write"
    /\ flash' = Written(Slots)
    /\ snap' = NothingCopied
    /\ saver' = "idle"
    /\ UNCHANGED <<value, dirty, timerVars, pc, wiped, changes, faults, history>>

\* nvs_open fails, and the copies are gone.
WriteFails ==
    /\ saver = "write" /\ Fault
    /\ torn' = [s \in Slots |-> torn[s] \/ snap[s] # NotSaved]
    /\ snap' = NothingCopied
    /\ saver' = "idle"
    /\ UNCHANGED <<value, dirty, flash, timerVars, pc, wiped, changes, forgotten>>

-----------------------------------------------------------------------------
(* Reload, factory reset and restart.                                      *)

\* load_slot under eng_lock: the slot's memory is zeroed and its value read
\* back from flash, a change not yet written being lost.
Reload(s) ==
    /\ EngLockFree
    /\ value' = [value EXCEPT ![s] = flash[s]]
    /\ dirty' = [dirty EXCEPT ![s] = FALSE]
    /\ torn' = [torn EXCEPT ![s] = snap[s] # NotSaved]
    /\ UNCHANGED <<flash, snap, saver, timerVars, pc, wiped, changes, faults,
                   forgotten>>

\* on_factory_reset under eng_lock.
FactoryReset ==
    /\ EngLockFree
    /\ armed' = FALSE /\ pending' = FALSE
    /\ dirty' = NoSlot
    /\ flash' = [s \in Slots |-> 0]
    /\ wiped' = TRUE
    /\ UNCHANGED <<value, snap, saver, jobs, pc, changes, faults, history>>

\* Memory is lost, flash is kept; a write that was under way has got through
\* for some of the slots.
Boot ==
    \E S \in SUBSET Slots:
        /\ flash' = Written(S) /\ value' = Written(S)
        /\ dirty' = NoSlot /\ torn' = NoSlot /\ forgotten' = FALSE
        /\ pending' = FALSE /\ armed' = FALSE /\ jobs' = 0
        /\ snap' = NothingCopied /\ saver' = "idle"
        /\ pc' = [t \in Tasks |-> "idle"]
        /\ wiped' = FALSE
        /\ UNCHANGED <<changes, faults>>

PowerLoss == ~wiped /\ Boot

\* esp_restart at the end of a factory reset.
Restart == wiped /\ Boot

-----------------------------------------------------------------------------
Next ==
    \/ \E t \in InputTasks \union CliTasks, s \in Slots: Change(t, s)
    \/ \E t \in Tasks: Schedule(t) \/ Discard(t) \/ ResetPending(t)
    \/ TimerExpires \/ Callback \/ Copy \/ Write \/ WriteFails
    \/ \E s \in Slots: Reload(s)
    \/ FactoryReset \/ PowerLoss \/ Restart

\* Tasks and timers run, sd_cmd takes its jobs, and a factory reset ends in
\* its esp_restart.  No user, command, fault or power failure is due.
Fairness ==
    /\ \A t \in Tasks: WF_vars(Schedule(t) \/ ResetPending(t))
    /\ WF_vars(TimerExpires) /\ WF_vars(Callback)
    /\ WF_vars(Copy) /\ WF_vars(Write \/ WriteFails)
    /\ WF_vars(Restart)

Spec == Init /\ [][Next]_vars /\ Fairness

-----------------------------------------------------------------------------
(* Properties.                                                             *)

\* Type invariant: flash and memory only ever hold versions that were made.
TypeOK ==
    /\ value \in [Slots -> Versions] /\ flash \in [Slots -> Versions]
    /\ dirty \in [Slots -> BOOLEAN] /\ torn \in [Slots -> BOOLEAN]
    /\ pending \in BOOLEAN /\ armed \in BOOLEAN /\ wiped \in BOOLEAN
    /\ jobs \in Nat
    /\ snap \in [Slots -> Versions \union {NotSaved}]
    /\ saver \in {"idle", "write"}
    /\ pc \in [Tasks -> {"idle", "check", "set", "start", "clear", "reset", "fired",
                         "enqueue"}]
    /\ changes \in Versions /\ faults \in 0..MaxFaults
    /\ forgotten \in BOOLEAN

\* A task that finds s_nvs_pending set and relies on it is right to: the timer
\* runs, its callback has not cleared the flag yet, or some task is about to
\* start it.  The unlocked flag is set and cleared by every task, by the
\* callback and by discards, in any order.
PendingMeansTimer ==
    pending => \/ armed
               \/ pc[TimerTask] = "fired"
               \/ \E t \in Tasks: pc[t] = "start"

\* job_discard's comment, "a dropped job is never lost silently": a dirty slot
\* has its save armed, fired, queued, or a task on its way to arm it, whatever
\* jobs were dropped.  The exception is a callback that had no memory for a job.
SaveUnderWay ==
    ((\E s \in Slots: dirty[s]) /\ ~forgotten) =>
        \/ armed \/ jobs > 0
        \/ \E t \in Tasks: pc[t] \in {"check", "set", "start", "reset", "fired",
                                      "enqueue"}

\* A slot that is neither dirty nor on its way to flash holds what flash holds,
\* so that a power failure then loses nothing; the exceptions are a write that
\* failed and a slot that was reloaded while its older copy was being written.
CleanMeansSaved ==
    \A s \in Slots:
        (~dirty[s] /\ snap[s] = NotSaved /\ ~torn[s] /\ ~wiped) => value[s] = flash[s]

\* The debounce never loses track of a change: it is in flash, being written, or
\* a save for it is on its way, which the unlocked flag is right about.
ChangesTracked == PendingMeansTimer /\ SaveUnderWay /\ CleanMeansSaved

\* ARCHITECTURE.md section 7, "last values are written to NVS": a changed value
\* reaches flash unless it is changed again, reloaded or lost with the power, or
\* memory or flash failed.
DirtyReachesFlash ==
    \A s \in Slots, v \in 1..MaxChanges:
        (dirty[s] /\ value[s] = v)
        ~> (flash[s] = v \/ value[s] # v \/ forgotten \/ torn[s])

=============================================================================
