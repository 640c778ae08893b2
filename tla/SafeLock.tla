------------------------------ MODULE SafeLock ------------------------------
(***************************************************************************)
(* The safe driver (drv_safe.c) on its slot: inputs build an attempt and    *)
(* restart a timer, the timer enqueues a TIMEOUT job, and sd_cmd finalizes   *)
(* the attempt and matches it against the stored entries, which CLI tasks    *)
(* change meanwhile.  Too many wrong attempts lock the slot for a while.    *)
(*                                                                         *)
(* A job waits in the queue behind network calls of other slots, so between *)
(* the timer and the job there is room for any number of inputs; and a full *)
(* queue may drop it.                                                      *)
(*                                                                         *)
(* Times are kept relative to now: the ticks since the last input, those    *)
(* left to the timer and to the end of the lockout.                        *)
(***************************************************************************)
EXTENDS SafeSequence

CONSTANTS
    EntryCount,    \* SD_SAFE_ENTRIES
    StoreChoices,  \* the entries safe.set may store
    InitialStore,  \* the entries at boot
    NoEntry,       \* an entry that is not in use
    IdleTicks,     \* SAFE_IDLE_COMMIT_MS
    MaxSeconds,    \* the longest lockout_seconds, in ticks
    MaxInputs,     \* bound: detents and presses
    MaxCommands    \* bound: safe.set, safe.clear and mode.set commands

EntryNumbers == 1..EntryCount

\* safe_entry_t: what entry_from_json accepts.
StoredEntry ==
    [seq: Seq(Segments), enabled: BOOLEAN, lockout: BOOLEAN, after: Nat \ {0},
     seconds: 1..MaxSeconds]

ASSUME SafeAssumption ==
    /\ IdleTicks \in Nat \ {0} /\ MaxSeconds \in Nat \ {0}
    /\ EntryCount \in Nat /\ MaxInputs \in Nat /\ MaxCommands \in Nat
    /\ StoreChoices \subseteq StoredEntry
    /\ NoEntry \notin StoredEntry
    /\ InitialStore \in [EntryNumbers -> StoredEntry \union {NoEntry}]

VARIABLES
    store,     \* s_entries
    entry,     \* safe_priv_t.in
    fails,     \* safe_priv_t.fail_count
    lockLeft,  \* lockout_until_ms - now, 0 when it has passed or is none
    since,     \* now - last_input_ms, up to MaxSeconds
    timer,     \* ticks to the expiry of the slot's timer, or Off
    jobs,      \* TIMEOUT jobs of the slot in the queue
    inputs,    \* inputs so far
    commands,  \* commands so far
    \* History variables.
    typed,     \* the inputs taken since the last attempt ended
    dropped,   \* a job that would have ended the attempt was dropped and no
               \* other is due
    guesses    \* attempts that matched nothing since a lockout, a match, a
               \* reload or a change of the store

privVars == <<entry, fails, lockLeft, since>>
history == <<typed, dropped, guesses>>
vars == <<store, privVars, timer, jobs, inputs, commands, history>>

Off == -1

Init ==
    /\ store = InitialStore
    /\ entry = NewEntry /\ fails = 0 /\ lockLeft = 0 /\ since = MaxSeconds
    /\ timer = Off /\ jobs = 0
    /\ inputs = 0 /\ commands = 0
    /\ typed = <<>> /\ dropped = FALSE /\ guesses = 0

-----------------------------------------------------------------------------
(* safe_on_input, under eng_lock.                                          *)

Locked == lockLeft > 0

\* A locked slot only notes the time.
InputIgnored ==
    /\ Locked
    /\ inputs < MaxInputs /\ inputs' = inputs + 1
    /\ since' = 0
    /\ UNCHANGED <<store, entry, fails, lockLeft, timer, jobs, commands, history>>

\* The timer starts again, whatever the step did to the entry.
Input(step) ==
    /\ ~Locked
    /\ inputs < MaxInputs /\ inputs' = inputs + 1
    /\ since' = 0
    /\ entry' = EnterStep(entry, step)
    /\ timer' = IdleTicks
    /\ typed' = Append(typed, step)
    /\ dropped' = FALSE
    /\ UNCHANGED <<store, fails, lockLeft, jobs, commands, guesses>>

\* A mutation: slot_timeout_cb makes no job.
TimerWithoutJob ==
    /\ timer = 0
    /\ timer' = Off
    /\ UNCHANGED <<store, privVars, jobs, inputs, commands, history>>

\* slot_timeout_cb.
TimerExpires ==
    /\ timer = 0
    /\ timer' = Off
    /\ jobs' = jobs + 1
    /\ UNCHANGED <<store, privVars, inputs, commands, history>>

\* job_discard of a TIMEOUT frees it, and nothing else (JobQueue).
JobDropped ==
    /\ jobs > 0 /\ jobs' = jobs - 1
    /\ dropped' = (dropped \/ (jobs = 1 /\ timer = Off))
    /\ UNCHANGED <<store, privVars, timer, inputs, commands, typed, guesses>>

-----------------------------------------------------------------------------
(* execute_timeout and safe_on_timeout, under eng_lock.                    *)

InUse(n) == store[n] # NoEntry /\ store[n].enabled

\* sd_safe_store_match hits some entry.
Matches(segs) == \E n \in EntryNumbers: InUse(n) /\ store[n].seq = segs

\* sd_safe_store_lockout_policy: the first entry in use with a lockout decides.
Policies == {n \in EntryNumbers: InUse(n) /\ store[n].lockout}
Decides(n) == n \in Policies /\ \A m \in Policies: n <= m

\* sd_seq_input_finalize leaves a clean entry in every case.
EndAttempt == entry' = NewEntry /\ typed' = <<>> /\ dropped' = FALSE

\* Nothing was typed: not an attempt.
NoAttempt ==
    /\ Finalized(entry) = <<>> /\ ~Overflowed(entry)
    /\ UNCHANGED <<fails, lockLeft, guesses>>

\* The endpoint of the entry is sent to.
Opens ==
    /\ Finalized(entry) # <<>> /\ Matches(Finalized(entry))
    /\ fails' = 0 /\ guesses' = 0
    /\ UNCHANGED lockLeft

LeftOf(seconds) == IF seconds > since THEN seconds - since ELSE 0

\* A wrong attempt, or one that overflowed.
Wrong ==
    IF Finalized(entry) = <<>> THEN Overflowed(entry) ELSE ~Matches(Finalized(entry))

\* A mutation: the limit itself is still allowed.
ReachesLate(n) == Decides(n) /\ fails + 1 > store[n].after

\* One more wrong attempt reaches the limit of entry n.
Reaches(n) == Decides(n) /\ fails + 1 >= store[n].after

\* The lockout runs from the last input.
LocksOut(n) ==
    /\ Wrong /\ Reaches(n)
    /\ fails' = 0 /\ guesses' = 0
    /\ lockLeft' = LeftOf(store[n].seconds)

Fails ==
    /\ Wrong /\ \A n \in EntryNumbers: ~Reaches(n)
    /\ fails' = fails + 1 /\ guesses' = guesses + 1
    /\ UNCHANGED lockLeft

OnTimeout ==
    /\ jobs > 0 /\ jobs' = jobs - 1
    /\ NoAttempt \/ Opens \/ Fails \/ \E n \in EntryNumbers: LocksOut(n)
    /\ EndAttempt
    /\ UNCHANGED <<store, since, timer, inputs, commands>>

-----------------------------------------------------------------------------
(* Commands and time.                                                      *)

Command == commands < MaxCommands /\ commands' = commands + 1

\* cmd_safe_set and cmd_safe_clear, the table under its lock.
SetEntry(n, e) ==
    /\ Command
    /\ store' = [store EXCEPT ![n] = e]
    /\ guesses' = 0
    /\ UNCHANGED <<privVars, timer, jobs, inputs, typed, dropped>>

\* unload_slot and load_slot: safe_deinit, and a zeroed safe_priv_t.  A job that
\* is queued stays.
Reload ==
    /\ Command
    /\ entry' = NewEntry /\ fails' = 0 /\ lockLeft' = 0 /\ since' = MaxSeconds
    /\ timer' = Off
    /\ typed' = <<>> /\ dropped' = FALSE /\ guesses' = 0
    /\ UNCHANGED <<store, jobs, inputs>>

Tick ==
    /\ since' = IF since < MaxSeconds THEN since + 1 ELSE since
    /\ timer' = IF timer > 0 THEN timer - 1 ELSE timer
    /\ lockLeft' = IF lockLeft > 0 THEN lockLeft - 1 ELSE 0
    /\ UNCHANGED <<store, entry, fails, jobs, inputs, commands, typed, dropped,
                   guesses>>

Next ==
    \/ InputIgnored
    \/ \E step \in Steps: Input(step)
    \/ TimerExpires \/ JobDropped \/ OnTimeout
    \/ \E n \in EntryNumbers, e \in StoreChoices \union {NoEntry}: SetEntry(n, e)
    \/ Reload
    \/ Tick

\* Time passes, the timer fires and sd_cmd takes its jobs.
Fairness == WF_vars(Tick) /\ WF_vars(TimerExpires) /\ WF_vars(OnTimeout)

Spec == Init /\ [][Next]_vars /\ Fairness

-----------------------------------------------------------------------------
(* Properties.                                                             *)

TypeOK ==
    /\ store \in [EntryNumbers -> StoredEntry \union {NoEntry}]
    /\ entry \in Entries
    /\ fails \in Nat /\ guesses \in Nat
    /\ lockLeft \in 0..MaxSeconds
    /\ since \in 0..MaxSeconds
    /\ timer \in Off..IdleTicks
    /\ jobs \in Nat
    /\ dropped \in BOOLEAN

\* What a pause would finalize is what the user dialled: the runs of detents
\* when they fit, and otherwise an overflow that counts as a wrong attempt.  No
\* press, change of direction or full segment loses or merges a run.
AttemptIsWhatWasTyped ==
    IF Fits(typed) THEN Finalized(entry) = RunLengths(typed) /\ ~Overflowed(entry)
    ELSE Finalized(entry) = <<>> /\ Overflowed(entry)

\* drv_safe.c:30-33, an attempt that is too long counts as a wrong one: asked
\* before finalize, sd_seq_input_overflowed tells exactly the attempts that
\* finalize will refuse, so that none ends unmatched and uncounted.
EveryAttemptCounts ==
    entry.active => (Overflowed(entry) <=> Finalized(entry) = <<>>)

\* A locked slot holds no attempt: nothing typed before or during a lockout is
\* matched while it lasts, whatever jobs were queued when it began.
NothingTypedWhileLocked == lockLeft > 0 => ~entry.active

\* Under an unchanged policy the slot is locked after at most `after` attempts
\* that matched nothing, overflowing ones included.
GuessesBounded ==
    \A n \in EntryNumbers: Decides(n) => guesses < store[n].after

\* An attempt that has begun has its end coming: a timer or a queued job, unless
\* the queue dropped the job, in which case the attempt waits for more input.
EndIsComing == entry.active => timer # Off \/ jobs > 0 \/ dropped

\* The lock cannot be walked around: an attempt ends, is judged and counts, and
\* the one that reaches the limit leaves a slot that holds and takes nothing.
LockSound ==
    EveryAttemptCounts /\ NothingTypedWhileLocked /\ GuessesBounded /\ EndIsComing

\* An attempt is always decided: it ends after the user stops.
AttemptEnds == entry.active ~> (~entry.active \/ dropped)

=============================================================================
