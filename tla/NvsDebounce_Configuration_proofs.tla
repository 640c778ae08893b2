------------------ MODULE NvsDebounce_Configuration_proofs ------------------
(***************************************************************************)
(* Proofs about the values kept for later and about the configuration.     *)
(*                                                                         *)
(* The delayed save, for any number of tasks and slots: its unlocked flag  *)
(* never claims a timer that does not run, a change is never forgotten     *)
(* whatever saves the queue drops, and a clean slot is a saved slot.       *)
(*                                                                         *)
(* The configuration, for any documents, dumps, transports and contents of *)
(* the flash at boot.  ConfigTypes is inductive on its own.  StoreConsistent*)
(* follows flash region by region: what memory holds is what a boot would  *)
(* load, except where a job is between the write and the load and where    *)
(* writes met or failed (doubtful).  JobsComplete counts what a job has left*)
(* to do: while nothing disturbs it, each part of a reset is erased, and   *)
(* each item of an import is in its store, or still ahead.                 *)
(***************************************************************************)
EXTENDS NvsDebounce, Configuration, FiniteSetTheorems, SequenceTheorems, WellFoundedInduction,
        TLAPS


\* NotSaved is told apart from every version.
LEMMA VersionsAreIntegers == Versions \subseteq Nat /\ NotSaved \notin Versions
BY DebounceAssumption DEF Versions, NotSaved

\* The empty copy, the empty set of marks and empty flash are well typed.
LEMMA EmptyTypes ==
    /\ NothingCopied \in [Slots -> Versions \union {NotSaved}]
    /\ NoSlot \in [Slots -> BOOLEAN]
    /\ [s \in Slots |-> 0] \in [Slots -> Versions]
<1>1. 0 \in Versions
  BY DebounceAssumption DEF Versions
<1>. QED BY <1>1 DEF NothingCopied, NoSlot

\* TypeOK is inductive on its own.
LEMMA InitTypeOK == Init => TypeOK
<1>. SUFFICES ASSUME Init PROVE TypeOK
  OBVIOUS
<1>1. changes \in Versions /\ faults \in 0..MaxFaults
  BY DebounceAssumption DEF Init, Versions
<1>2. pc \in [Tasks -> {"idle"}]
  BY DEF Init
<1>. QED BY <1>1, <1>2, EmptyTypes DEF Init, TypeOK

\* Whatever part of a copy got through, flash holds versions.
LEMMA WrittenType == ASSUME TypeOK, NEW S \in SUBSET Slots
                     PROVE  Written(S) \in [Slots -> Versions]
BY DEF TypeOK, Written

\* A fault leaves the count of faults within its bound.
LEMMA FaultType == ASSUME TypeOK, Fault PROVE faults' \in 0..MaxFaults
BY DebounceAssumption DEF TypeOK, Fault

\* Every action keeps the types.
LEMMA NextTypeOK == TypeOK /\ [Next]_vars => TypeOK'
<1>. SUFFICES ASSUME TypeOK, [Next]_vars PROVE TypeOK'
  OBVIOUS
<1>. USE DEF TypeOK, saveVars, timerVars, history
<1>1. ASSUME NEW t \in Tasks, NEW s \in Slots, Change(t, s) PROVE TypeOK'
  <2>1. changes + 1 \in Versions
    BY <1>1, DebounceAssumption DEF Change, Versions
  <2>. QED BY <1>1, <2>1 DEF Change, Goto
<1>2. ASSUME NEW t \in Tasks, Schedule(t) \/ Discard(t) \/ ResetPending(t)
      PROVE  TypeOK'
  <2>1. CASE Schedule(t)
    BY <2>1 DEF Schedule, Check, SetPending, StartTimer, ClearPending, Goto
  <2>2. CASE Discard(t)
    <3>1. jobs - 1 \in Nat
      BY <2>2 DEF Discard
    <3>. QED BY <2>2, <3>1, FaultType DEF Discard, Goto
  <2>3. CASE ResetPending(t)
    BY <2>3 DEF ResetPending, Goto
  <2>. QED BY <1>2, <2>1, <2>2, <2>3
<1>3. CASE TimerExpires
  BY <1>3 DEF TimerExpires, Goto
<1>4. CASE Callback
  <2>1. CASE CallbackClears
    BY <2>1 DEF CallbackClears, Goto
  <2>2. CASE CallbackEnqueues
    <3>1. jobs + 1 \in Nat
      OBVIOUS
    <3>. QED BY <2>2, <3>1 DEF CallbackEnqueues, Goto
  <2>3. CASE CallbackRefused \/ CallbackHasNoJob
    BY <2>3, FaultType DEF CallbackRefused, CallbackHasNoJob, Goto
  <2>. QED BY <1>4, <2>1, <2>2, <2>3 DEF Callback
<1>5. CASE Copy
  BY <1>5, EmptyTypes DEF Copy
<1>6. CASE Write
  BY <1>6, WrittenType, EmptyTypes DEF Write
<1>7. CASE WriteFails
  BY <1>7, EmptyTypes, FaultType DEF WriteFails
<1>8. ASSUME NEW s \in Slots, Reload(s) PROVE TypeOK'
  BY <1>8 DEF Reload
<1>9. CASE FactoryReset
  BY <1>9, EmptyTypes DEF FactoryReset
<1>10. CASE PowerLoss \/ Restart
  <2>1. PICK S \in SUBSET Slots: flash' = Written(S) /\ value' = Written(S)
    BY <1>10 DEF PowerLoss, Restart, Boot
  <2>2. Written(S) \in [Slots -> Versions]
    BY WrittenType
  <2>3. flash' \in [Slots -> Versions] /\ value' \in [Slots -> Versions]
    BY <2>1, <2>2
  <2>4. pc' = [t \in Tasks |-> "idle"]
    BY <1>10 DEF PowerLoss, Restart, Boot
  <2>5. /\ dirty' = NoSlot /\ torn' = NoSlot /\ snap' = NothingCopied
        /\ saver' = "idle" /\ jobs' = 0 /\ forgotten' = FALSE
        /\ pending' = FALSE /\ armed' = FALSE /\ wiped' = FALSE
        /\ changes' = changes /\ faults' = faults
    BY <1>10 DEF PowerLoss, Restart, Boot
  <2>. QED BY <2>3, <2>4, <2>5, EmptyTypes
<1>11. CASE UNCHANGED vars
  BY <1>11 DEF vars
<1>. QED BY <1>1, <1>2, <1>3, <1>4, <1>5, <1>6, <1>7, <1>8, <1>9, <1>10, <1>11
         DEF Next, Tasks

\* The state of the delayed save stays well typed.
THEOREM TypeCorrect == Spec => []TypeOK
BY InitTypeOK, NextTypeOK, PTL DEF Spec

-----------------------------------------------------------------------------
(* The unlocked flag.                                                      *)

\* PendingMeansTimer is inductive.  Only a timer that expires, a callback that
\* clears the flag and a task that leaves "start" could break it.
LEMMA PendingStep ==
    TypeOK /\ PendingMeansTimer /\ [Next]_vars => PendingMeansTimer'
<1>. SUFFICES ASSUME TypeOK, PendingMeansTimer, [Next]_vars
              PROVE  PendingMeansTimer'
  OBVIOUS
<1>. USE DEF TypeOK, PendingMeansTimer, saveVars, timerVars, history
<1>0. TimerTask \in Tasks
  BY DEF Tasks
<1>1. ASSUME NEW t \in Tasks, NEW s \in Slots, Change(t, s) PROVE PendingMeansTimer'
  <2>1. \A u \in Tasks: pc[u] # "idle" => pc'[u] = pc[u]
    BY <1>1 DEF Change, Goto
  <2>. QED BY <1>0, <1>1, <2>1 DEF Change
<1>2. ASSUME NEW t \in Tasks, Schedule(t) PROVE PendingMeansTimer'
  <2>1. CASE Check(t)
    <3>1. \A u \in Tasks: pc[u] # "check" => pc'[u] = pc[u]
      BY <2>1 DEF Check, Goto
    <3>. QED BY <1>0, <2>1, <3>1 DEF Check
  <2>2. CASE SetPending(t)
    BY <2>2 DEF SetPending, Goto
  <2>3. CASE StartTimer(t)
    BY <2>3 DEF StartTimer
  <2>4. CASE ClearPending(t)
    BY <2>4 DEF ClearPending
  <2>. QED BY <1>2, <2>1, <2>2, <2>3, <2>4 DEF Schedule
<1>3. ASSUME NEW t \in Tasks, Discard(t) \/ ResetPending(t) PROVE PendingMeansTimer'
  <2>1. CASE Discard(t)
    <3>1. \A u \in Tasks: pc[u] # "idle" => pc'[u] = pc[u]
      BY <2>1 DEF Discard, Goto
    <3>. QED BY <1>0, <2>1, <3>1 DEF Discard
  <2>2. CASE ResetPending(t)
    BY <2>2 DEF ResetPending
  <2>. QED BY <1>3, <2>1, <2>2
<1>4. CASE TimerExpires
  BY <1>0, <1>4 DEF TimerExpires, Goto
<1>5. CASE Callback
  <2>1. CASE CallbackClears
    BY <2>1 DEF CallbackClears
  <2>2. CASE CallbackEnqueues \/ CallbackRefused \/ CallbackHasNoJob
    <3>1. UNCHANGED <<pending, armed>>
      BY <2>2 DEF CallbackEnqueues, CallbackRefused, CallbackHasNoJob
    <3>2. pc[TimerTask] = "enqueue" /\ \A u \in Tasks \ {TimerTask}: pc'[u] = pc[u]
      BY <2>2 DEF CallbackEnqueues, CallbackRefused, CallbackHasNoJob, Goto
    <3>. QED BY <3>1, <3>2
  <2>. QED BY <1>5, <2>1, <2>2 DEF Callback
<1>6. CASE Copy \/ Write \/ WriteFails \/ (\E s \in Slots: Reload(s))
  BY <1>6 DEF Copy, Write, WriteFails, Reload
<1>7. CASE FactoryReset \/ PowerLoss \/ Restart
  BY <1>7 DEF FactoryReset, PowerLoss, Restart, Boot
<1>8. CASE UNCHANGED vars
  BY <1>8 DEF vars
<1>. QED BY <1>1, <1>2, <1>3, <1>4, <1>5, <1>6, <1>7, <1>8 DEF Next, Tasks

\* A task that relies on s_nvs_pending is right to.
THEOREM PendingSound == Spec => []PendingMeansTimer
<1>1. Init => PendingMeansTimer
  BY DEF Init, PendingMeansTimer
<1>. QED BY <1>1, TypeCorrect, PendingStep, PTL DEF Spec

-----------------------------------------------------------------------------
(* No change is forgotten.                                                 *)

\* SaveUnderWay needs PendingMeansTimer: a task that finds the flag set leaves
\* its change to somebody else.
LEMMA UnderWayStep ==
    TypeOK /\ PendingMeansTimer /\ SaveUnderWay /\ [Next]_vars => SaveUnderWay'
<1>. SUFFICES ASSUME TypeOK, PendingMeansTimer, SaveUnderWay, [Next]_vars
              PROVE  SaveUnderWay'
  OBVIOUS
<1>. USE DEF TypeOK, SaveUnderWay, saveVars, timerVars, history
<1>0. TimerTask \in Tasks
  BY DEF Tasks
<1>1. ASSUME NEW t \in Tasks, NEW s \in Slots, Change(t, s) PROVE SaveUnderWay'
  <2>1. pc'[t] = "check"
    BY <1>1 DEF Change, Goto
  <2>. QED BY <2>1
<1>2. ASSUME NEW t \in Tasks, Schedule(t) PROVE SaveUnderWay'
  <2>1. CASE Check(t)
    <3>1. CASE pending
      <4>1. \A u \in Tasks: pc[u] # "check" => pc'[u] = pc[u]
        BY <2>1 DEF Check, Goto
      <4>. QED BY <1>0, <2>1, <3>1, <4>1 DEF Check, PendingMeansTimer
    <3>2. CASE ~pending
      BY <2>1, <3>2 DEF Check, Goto
    <3>. QED BY <3>1, <3>2
  <2>2. CASE SetPending(t)
    BY <2>2 DEF SetPending, Goto
  <2>3. CASE StartTimer(t)
    BY <2>3 DEF StartTimer
  <2>4. CASE ClearPending(t)
    <3>1. \A u \in Tasks: pc[u] # "clear" => pc'[u] = pc[u]
      BY <2>4 DEF ClearPending, Goto
    <3>. QED BY <2>4, <3>1 DEF ClearPending
  <2>. QED BY <1>2, <2>1, <2>2, <2>3, <2>4 DEF Schedule
<1>3. ASSUME NEW t \in Tasks, Discard(t) \/ ResetPending(t) PROVE SaveUnderWay'
  <2>1. pc'[t] \in {"reset", "check"}
    BY <1>3 DEF Discard, ResetPending, Goto
  <2>. QED BY <2>1
<1>4. CASE TimerExpires
  BY <1>0, <1>4 DEF TimerExpires, Goto
<1>5. CASE Callback
  <2>1. CASE CallbackClears \/ CallbackRefused
    <3>1. pc'[TimerTask] \in {"enqueue", "reset"}
      BY <1>0, <2>1 DEF CallbackClears, CallbackRefused, Goto
    <3>. QED BY <1>0, <3>1
  <2>2. CASE CallbackEnqueues
    BY <2>2 DEF CallbackEnqueues
  <2>3. CASE CallbackHasNoJob
    BY <2>3 DEF CallbackHasNoJob
  <2>. QED BY <1>5, <2>1, <2>2, <2>3 DEF Callback
<1>6. CASE Copy
  BY <1>6 DEF Copy, NoSlot
<1>7. CASE Write \/ WriteFails
  BY <1>7 DEF Write, WriteFails
<1>8. ASSUME NEW s \in Slots, Reload(s) PROVE SaveUnderWay'
  <2>1. \A r \in Slots: dirty'[r] => dirty[r]
    BY <1>8 DEF Reload
  <2>. QED BY <1>8, <2>1 DEF Reload
<1>9. CASE FactoryReset \/ PowerLoss \/ Restart
  BY <1>9 DEF FactoryReset, PowerLoss, Restart, Boot, NoSlot
<1>10. CASE UNCHANGED vars
  BY <1>10 DEF vars
<1>. QED BY <1>1, <1>2, <1>3, <1>4, <1>5, <1>6, <1>7, <1>8, <1>9, <1>10 DEF Next, Tasks

\* A change is never forgotten, whatever saves the queue drops.
THEOREM NoChangeForgotten == Spec => []SaveUnderWay
<1>1. Init => SaveUnderWay
  BY DEF Init, SaveUnderWay, NoSlot
<1>. QED BY <1>1, UnderWayStep, TypeCorrect, PendingSound, PTL DEF Spec

-----------------------------------------------------------------------------
(* A clean slot is a saved slot.                                           *)

\* CleanMeansSaved is not inductive: the write must know that what it carries
\* is still the slot's value, and the next copy that nothing is left over.
CopiesAreCurrent ==
    /\ saver = "idle" => snap = NothingCopied
    /\ \A s \in Slots:
        (~dirty[s] /\ snap[s] # NotSaved /\ ~torn[s] /\ ~wiped) => value[s] = snap[s]

\* Clean slots are saved slots, and what is being written is current.
CleanInv == CleanMeansSaved /\ CopiesAreCurrent

\* Every action keeps both parts: a copy takes the current values, a change
\* makes its slot dirty again, a reload or a failed write marks it torn.
LEMMA CleanStep == TypeOK /\ CleanInv /\ [Next]_vars => CleanInv'
<1>. SUFFICES ASSUME TypeOK, CleanInv, [Next]_vars PROVE CleanInv'
  OBVIOUS
<1>. USE DEF TypeOK, CleanInv, CleanMeansSaved, CopiesAreCurrent,
             saveVars, timerVars, history
<1>1. ASSUME NEW t \in Tasks, NEW s \in Slots, Change(t, s) PROVE CleanInv'
  BY <1>1 DEF Change
<1>2. ASSUME NEW t \in Tasks, Schedule(t) \/ Discard(t) \/ ResetPending(t)
      PROVE  CleanInv'
  BY <1>2 DEF Schedule, Check, SetPending, StartTimer, ClearPending, Discard,
              ResetPending
<1>3. CASE TimerExpires \/ Callback
  BY <1>3 DEF TimerExpires, Callback, CallbackClears, CallbackEnqueues,
              CallbackRefused, CallbackHasNoJob
<1>4. CASE Copy
  <2>1. \A s \in Slots: snap[s] = NotSaved
    BY <1>4 DEF Copy, NothingCopied
  <2>2. \A s \in Slots: snap'[s] = IF dirty[s] THEN value[s] ELSE NotSaved
    BY <1>4 DEF Copy
  <2>3. \A s \in Slots: value[s] # NotSaved
    BY VersionsAreIntegers
  <2>. QED BY <1>4, <2>1, <2>2, <2>3 DEF Copy, NoSlot
<1>5. CASE Write
  <2>1. flash' = Written(Slots) /\ snap' = NothingCopied
    BY <1>5 DEF Write
  <2>2. \A s \in Slots: flash'[s] = IF snap[s] # NotSaved THEN snap[s] ELSE flash[s]
    BY <2>1 DEF Written
  <2>. QED BY <1>5, <2>1, <2>2 DEF Write, NothingCopied
<1>6. CASE WriteFails
  <2>1. \A s \in Slots: torn'[s] = (torn[s] \/ snap[s] # NotSaved)
    BY <1>6 DEF WriteFails
  <2>2. \A s \in Slots: snap'[s] = NotSaved
    BY <1>6 DEF WriteFails, NothingCopied
  <2>3. UNCHANGED <<value, dirty, flash, wiped>> /\ snap' = NothingCopied
    BY <1>6 DEF WriteFails
  <2>. QED BY <2>1, <2>2, <2>3
<1>7. ASSUME NEW s \in Slots, Reload(s) PROVE CleanInv'
  <2>1. value'[s] = flash[s] /\ torn'[s] = (snap[s] # NotSaved)
    BY <1>7 DEF Reload
  <2>2. \A r \in Slots \ {s}: /\ value'[r] = value[r] /\ dirty'[r] = dirty[r]
                            /\ torn'[r] = torn[r]
    BY <1>7 DEF Reload
  <2>3. UNCHANGED <<flash, snap, saver, wiped>>
    BY <1>7 DEF Reload
  <2>. QED BY <2>1, <2>2, <2>3
<1>8. CASE FactoryReset
  BY <1>8 DEF FactoryReset
<1>9. CASE PowerLoss \/ Restart
  BY <1>9 DEF PowerLoss, Restart, Boot, NothingCopied
<1>10. CASE UNCHANGED vars
  BY <1>10 DEF vars
<1>. QED BY <1>1, <1>2, <1>3, <1>4, <1>5, <1>6, <1>7, <1>8, <1>9, <1>10 DEF Next, Tasks

\* A slot that is neither dirty nor being written holds the value a power
\* failure would bring back.
THEOREM CleanSlotsAreSaved == Spec => []CleanMeansSaved
<1>1. Init => CleanInv
  BY DEF Init, CleanInv, CleanMeansSaved, CopiesAreCurrent, NothingCopied
<1>2. CleanInv => CleanMeansSaved
  BY DEF CleanInv
<1>. QED BY <1>1, <1>2, CleanStep, TypeCorrect, PTL DEF Spec

\* No change of a value is ever out of sight: in flash, being written, or with a
\* save on its way.
THEOREM ChangesAreTracked == Spec => []ChangesTracked
<1>1. PendingMeansTimer /\ SaveUnderWay /\ CleanMeansSaved => ChangesTracked
  BY DEF ChangesTracked
<1>. QED BY <1>1, PendingSound, NoChangeForgotten, CleanSlotsAreSaved, PTL

-----------------------------------------------------------------------------
(* The stores of the configuration.                                         *)

\* The commands, what a factory reset erases, and the sections that an export reads.
Ops == {"none", "command", "export", "import", "reset", "restart", "blocked"}
Regions == {"prefs", "profiles", "engine", "safe"}
Sections == {"prefs", "slots", "profiles"}

\* The items of a job: a kind, the key of the document, the document or None.
ProfileWork == {"profile"} \X Ids \X (DOMAIN ProfileDoc \cup {None})
SlotWork == {"slot"} \X ModeSlots \X (DOMAIN BindingDoc \cup {None})
PrefWork == UNION {{"pref"} \X {k} \X Known[k] : k \in Keys}
SafeWork == {"safe"} \X Entries \X (DOMAIN EntryDoc \cup {None})
ActiveWork == {"active"} \X {0} \X ModeSlots
ReadWork == {"read"} \X Sections \X {None}
WipeWork == {"wipe"} \X Regions \X {None}
Work == ProfileWork \cup SlotWork \cup PrefWork \cup SafeWork \cup ActiveWork
        \cup ReadWork \cup WipeWork

\* A binding and a safe entry reach a job only after the parser accepted them.
Checked(x) ==
    /\ x[1] = "slot" /\ x[3] # None => BindingValid(x[3])
    /\ x[1] = "safe" /\ x[3] # None => EntryValid(x[3])

\* What a command has among its items: only a reset wipes and only an export reads,
\* only a command removes a profile or a slot, and a command's safe entry fits its buffer.
Fits(op, x) ==
    /\ x[1] = "wipe" <=> op = "reset"
    /\ x[1] = "read" <=> op = "export"
    /\ x[1] \in {"profile", "slot"} /\ x[3] = None => op = "command"
    /\ x[1] = "safe" /\ x[3] # None /\ op = "command" => EntryDoc[x[3]].size < ENTRY_JSON_MAX
    /\ Checked(x)

\* The places at which a task can be between the two halves of an item.
Within(x, at) ==
    \/ x[1] = "slot" /\ at = "load"
    \/ x[1] = "pref" /\ at \in {"save", "read", "cache"}
    \/ x[1] = "safe" /\ at = "hold"
    \/ x[1] = "wipe" /\ at = "forget"

\* The items of a dump that are not the safe's, and those of the safe.
Profiles(d) == {<<"profile", i, d.profiles[i]>> : i \in DOMAIN d.profiles}
SlotsOf(d) == {<<"slot", s, d.slots[s]>> : s \in DOMAIN d.slots}
PrefsOf(d) == {<<"pref", k, d.prefs[k]>> : k \in DOMAIN d.prefs}
SafeOf(d) == {<<"safe", n, d.safe[n]>> : n \in DOMAIN d.safe}
ActiveOf(d) == IF d.active = Absent THEN {} ELSE {<<"active", 0, d.active>>}
Wanted(d) == Profiles(d) \cup SlotsOf(d) \cup PrefsOf(d) \cup ActiveOf(d)

\* A job is well formed: its items fit its command, it is between two halves only of the
\* item at the head, an import's items come from a dump that was accepted, and the buzzer's
\* cache is refreshed only for the preferences that it holds.
JobOK(j) ==
    /\ j = [op |-> j.op, todo |-> j.todo, at |-> j.at, dump |-> j.dump, seen |-> j.seen, alone |-> j.alone]
    /\ j.op \in Ops /\ j.todo \in Seq(Work) /\ j.alone \in BOOLEAN
    /\ j.op \in {"none", "restart", "blocked"} => j.todo = <<>>
    /\ j.op = "command" => Len(j.todo) <= 1
    /\ \A i \in DOMAIN j.todo : Fits(j.op, j.todo[i])
    /\ j.at = "next" \/ (j.todo # <<>> /\ Within(Head(j.todo), j.at))
    /\ j.op \in {"export", "import"} => DumpShape(j.dump)
    /\ j.op = "import" => Accepted(j.dump) /\ \A i \in DOMAIN j.todo : j.todo[i] \in Wanted(j.dump) \cup SafeOf(j.dump)
    /\ j.at \in {"read", "cache"} => Head(j.todo)[2] \in Cached
    /\ j.at = "cache" => DOMAIN j.seen = Cached

\* Memory holds documents, known values of preferences and a slot of the device.
MemoryOK(m) ==
    /\ m = [slot |-> m.slot, pref |-> m.pref, safe |-> m.safe, active |-> m.active]
    /\ m.slot \in [ModeSlots -> SlotType]
    /\ m.pref = [k \in Keys |-> m.pref[k]] /\ \A k \in Keys : m.pref[k] \in Known[k]
    /\ m.safe \in [Entries -> DOMAIN EntryDoc \cup {None}]
    /\ m.active \in ModeSlots

\* The device is up, and nobody imports, resets or restarts; an item whose write failed or
\* met another is doubtful.
Serving == /\ ~recovery /\ ~restarting
           /\ \A t \in Workers : job[t].op \in {"none", "command", "export"}
Unsure(kind, key) == <<kind, key>> \in doubtful
UnsureCache == \E k \in Cached : Unsure("pref", k)

\* sd_prefs.c: a preference in memory is the one in flash, but for the time between the
\* assignment and the NVS write; the one being saved is already in memory.
PrefsHeld == \A k \in Keys :
    Unsure("pref", k) \/ ram.pref[k] = PrefsLoaded(nvs)[k]
    \/ \E t \in Workers : At(t, "pref", "save") /\ Key(t) = k
PrefsSaving == \A t \in Workers : At(t, "pref", "save") =>
    Unsure("pref", Key(t)) \/ ram.pref[Key(t)] = Value(t)
\* sd_safe_store.c writes NVS first: an entry in memory is the one in flash, or it is in flash
\* and about to be held.
SafeHeld == \A n \in Entries :
    Unsure("safe", n) \/ ram.safe[n] = SafeLoaded(nvs)[n]
    \/ \E t \in Workers : At(t, "safe", "hold") /\ Key(t) = n
SafeHolding == \A t \in Workers : At(t, "safe", "hold") =>
    Unsure("safe", Key(t)) \/ nvs.safe[Key(t)] = Value(t)
\* sd_mode_engine.c: a slot in memory is bound as flash says, or is about to be reloaded.
SlotsHeld == \A s \in ModeSlots :
    Unsure("slot", s) \/ ram.slot[s].binding = SlotLoaded(nvs, s).binding
    \/ \E t \in Workers : At(t, "slot", "load") /\ Key(t) = s
SlotsLoading == \A t \in Workers : At(t, "slot", "load") /\ Value(t) = None =>
    Unsure("slot", Key(t)) \/ nvs.slot[Key(t)] = None
\* sd_buzzer.c: the buzzer's copy is that of the preferences, or a task is on its way to
\* refresh it; what that task has read is still what the preferences are.
BuzzerHeld ==
    UnsureCache \/ buzzer = CacheOf(ram)
    \/ \E t \in Workers : Item(t, "pref") /\ job[t].at # "next" /\ Key(t) \in Cached
BuzzerCaching == \A t \in Workers : At(t, "pref", "cache") =>
    UnsureCache \/ job[t].seen = CacheOf(ram)

\* The active slot is the one a boot would load, unless a reset has begun.
ActiveHeld ==
    recovery \/ (\E t \in Workers : job[t].op \in {"reset", "blocked"})
    \/ Unsure("active", 0) \/ ram.active = ActiveLoaded(nvs)
\* sd_profiles.c: a profile about to be removed is used by no slot that is loaded.
RemovalChecked ==
    Wiping \/ \A t \in Workers : At(t, "profile", "next") /\ Value(t) = None =>
      Unsure("profile", Key(t)) \/ \A s \in ModeSlots : ~ (ram.slot[s].enabled /\ Uses(ram.slot[s].binding, Key(t)))

\* The part of flash that a region's wipe erases.
Part(store, h) == CASE h = "prefs" -> store.pref = Erased.pref
                    [] h = "profiles" -> store.profile = Erased.profile
                    [] h = "engine" -> store.slot = Erased.slot /\ store.active = Erased.active
                    [] h = "safe" -> store.safe = Erased.safe

-----------------------------------------------------------------------------
(* Sums over the sections of a dump.                                       *)

\* A set of numbers up to a bound has a least one.
LEMMA LeastNumber ==
    ASSUME NEW n \in Nat, NEW S \in SUBSET (0 .. n), S # {}
    PROVE  \E s \in S : \A t \in S : s <= t
  <1> DEFINE Below(s) == {t \in 0 .. n : t <= s}
             F == {Below(s) : s \in S}
             R == StrictSubsetOrdering(0 .. n)
             FS == FiniteSubsetsOf(0 .. n)
  <1>1. IsFiniteSet(0 .. n)
    BY FS_Interval
  <1>2. IsWellFoundedOn(R, FS)
    BY <1>1, FS_StrictSubsetOrderingWellFounded
  <1>3. F \subseteq FS
    BY <1>1, FS_Subset DEF FiniteSubsetsOf
  <1>4. F # {}
    OBVIOUS
  <1> HIDE DEF F, R, FS
  <1>5. PICK X \in F : \A Y \in F : ~ (<<Y, X>> \in R)
    BY <1>2, <1>3, <1>4, WFMin
  <1>6. PICK s \in S : X = Below(s)
    BY DEF F
  <1>7. ASSUME NEW t \in S, t < s
        PROVE  FALSE
    <2>1. Below(t) \in F
      BY DEF F
    <2>2. Below(t) \subseteq Below(s) /\ Below(t) # Below(s)
      <3>1. s \in Below(s) /\ s \notin Below(t)
        BY <1>7
      <3>2. Below(t) \subseteq Below(s)
        BY <1>7
      <3> QED BY <3>1, <3>2
    <2>3. <<Below(t), Below(s)>> \in R
      BY <2>2 DEF R, StrictSubsetOrdering
    <2> QED BY <1>5, <1>6, <2>1, <2>3
  <1> QED BY <1>7

\* The sums of the first n of some sizes.
SumsOf(f, n, w) == f = [i \in 0 .. n |-> IF i = 0 THEN 0 ELSE f[i - 1] + w[i]]

\* Such sums exist: with LeastNumber, a longest prefix that has sums is all of it.
LEMMA SumsExist ==
    ASSUME NEW m \in Nat, NEW w \in [1 .. m -> Nat]
    PROVE  \E f : SumsOf(f, m, w)
  <1> DEFINE S == {n \in 0 .. m : ~ \E f : SumsOf(f, n, w)}
  <1>1. SUFFICES ASSUME S # {} PROVE FALSE
    <2>1. m \in 0 .. m
      OBVIOUS
    <2> QED BY <2>1
  <1>2. PICK s \in S : \A t \in S : s <= t
    BY <1>1, LeastNumber
  <1>3. s # 0
    <2>1. SumsOf([i \in 0 .. 0 |-> 0], 0, w)
      BY DEF SumsOf
    <2> QED BY <2>1, <1>2
  <1>4. s - 1 \in 0 .. m /\ s \in 0 .. m /\ s - 1 \notin S
    BY <1>2, <1>3
  <1>5. PICK g : SumsOf(g, s - 1, w)
    BY <1>4
  <1> DEFINE f == [i \in 0 .. s |-> IF i = s THEN g[s - 1] + w[s] ELSE g[i]]
  <1>6. SumsOf(f, s, w)
    <2>1. ASSUME NEW i \in 0 .. s
          PROVE  f[i] = IF i = 0 THEN 0 ELSE f[i - 1] + w[i]
      <3>1. CASE i = s
        <4>1. s - 1 \in 0 .. s /\ s - 1 # s
          BY <1>4, <1>3
        <4> QED BY <3>1, <4>1, <1>3
      <3>2. CASE i # s
        <4>1. i \in 0 .. s - 1
          BY <3>2, <1>4
        <4>2. g[i] = IF i = 0 THEN 0 ELSE g[i - 1] + w[i]
          BY <1>5, <4>1 DEF SumsOf
        <4>3. i # 0 => i - 1 \in 0 .. s /\ i - 1 # s
          BY <4>1, <1>4
        <4> QED BY <3>2, <4>1, <4>2, <4>3
      <3> QED BY <3>1, <3>2
    <2> HIDE DEF f
    <2>2. f = [i \in 0 .. s |-> f[i]]
      BY DEF f
    <2> QED BY <2>1, <2>2 DEF SumsOf
  <1> QED BY <1>2, <1>6

\* The last sum is a number no smaller than any size.
LEMMA SumsBound ==
    ASSUME NEW m \in Nat, NEW w \in [1 .. m -> Nat], NEW f, SumsOf(f, m, w)
    PROVE  f[m] \in Nat /\ \A i \in 1 .. m : w[i] <= f[m]
  <1> DEFINE Good(n) == f[n] \in Nat /\ \A i \in 1 .. n : w[i] <= f[n]
             S == {n \in 0 .. m : ~ Good(n)}
  <1>0. \A i \in 0 .. m : f[i] = IF i = 0 THEN 0 ELSE f[i - 1] + w[i]
    BY DEF SumsOf
  <1>1. SUFFICES ASSUME S # {} PROVE FALSE
    <2>1. m \in 0 .. m
      OBVIOUS
    <2> QED BY <2>1
  <1>2. PICK s \in S : \A t \in S : s <= t
    BY <1>1, LeastNumber
  <1>3. s # 0
    BY <1>0, <1>2
  <1>4. s - 1 \in 0 .. m /\ s \in 1 .. m /\ Good(s - 1)
    BY <1>2, <1>3
  <1>5. f[s] = f[s - 1] + w[s] /\ w[s] \in Nat
    BY <1>0, <1>3, <1>4
  <1>6. ASSUME NEW i \in 1 .. s
        PROVE  w[i] <= f[s] /\ w[i] \in Nat
    <2>1. CASE i = s
      BY <2>1, <1>4, <1>5
    <2>2. CASE i # s
      <3>1. i \in 1 .. s - 1 /\ i \in 1 .. m
        BY <2>2, <1>4
      <3>2. w[i] <= f[s - 1] /\ w[i] \in Nat
        BY <3>1, <1>4
      <3> QED BY <3>2, <1>4, <1>5
    <2> QED BY <2>1, <2>2
  <1>7. Good(s)
    BY <1>4, <1>5, <1>6
  <1> QED BY <1>2, <1>7

\* SetToSeq lists a finite set: nothing else, and all of it.
LEMMA Listed ==
    ASSUME NEW S, IsFiniteSet(S)
    PROVE  /\ Len(SetToSeq(S)) \in Nat
           /\ SetToSeq(S) \in [1 .. Len(SetToSeq(S)) -> S]
           /\ DOMAIN SetToSeq(S) = 1 .. Len(SetToSeq(S))
           /\ \A x \in S : \E i \in DOMAIN SetToSeq(S) : SetToSeq(S)[i] = x
  <1> DEFINE n == Cardinality(S)
  <1>1. n \in Nat /\ ExistsBijection(1 .. n, S)
    BY FS_CardinalityType
  <1> HIDE DEF n
  <1>2. \E f \in [1 .. n -> S] : IsInjective(f)
    BY <1>1 DEF ExistsBijection, Bijection, Injection
  <1>3. SetToSeq(S) \in [1 .. n -> S] /\ IsInjective(SetToSeq(S))
    BY <1>2 DEF SetToSeq, n
  <1> DEFINE q == SetToSeq(S)
  <1> HIDE DEF q
  <1>4. q \in Injection(1 .. n, S)
    BY <1>3 DEF q, Injection
  <1>5. Cardinality(1 .. n) = Cardinality(S)
    BY <1>1, FS_Interval DEF n
  <1>6. q \in Surjection(1 .. n, S)
    BY <1>4, <1>5, FS_Injection
  <1>7. q \in [1 .. n -> S] /\ \A x \in S : \E i \in 1 .. n : q[i] = x
    BY <1>6 DEF Surjection
  <1>8. Len(q) = n
    BY <1>7, <1>1
  <1> QED BY <1>1, <1>7, <1>8 DEF q

\* Total is a number no smaller than each size it adds up.
LEMMA TotalBounds ==
    ASSUME NEW section, NEW doc, IsFiniteSet(DOMAIN section),
           \A k \in DOMAIN section : doc[section[k]].size \in Nat
    PROVE  /\ Total(section, doc) \in Nat
           /\ \A k \in DOMAIN section : doc[section[k]].size <= Total(section, doc)
  <1> DEFINE keys == SetToSeq(DOMAIN section)
             m == Len(keys)
             upTo == CHOOSE f : f = [n \in 0 .. m |-> IF n = 0 THEN 0 ELSE f[n - 1] + doc[section[keys[n]]].size]
             w == [n \in 1 .. m |-> doc[section[keys[n]]].size]
  <1>1. Total(section, doc) = upTo[m]
    BY DEF Total
  <1> HIDE DEF keys
  <1>2. m \in Nat /\ (\A i \in 1 .. m : keys[i] \in DOMAIN section)
        /\ \A x \in DOMAIN section : \E i \in 1 .. m : keys[i] = x
    BY Listed DEF keys
  <1> HIDE DEF m
  <1>3. w \in [1 .. m -> Nat]
    BY <1>2
  <1>4. PICK f : SumsOf(f, m, w)
    BY <1>2, <1>3, SumsExist
  <1>5. ASSUME NEW g
        PROVE  [n \in 0 .. m |-> IF n = 0 THEN 0 ELSE g[n - 1] + w[n]]
                = [n \in 0 .. m |-> IF n = 0 THEN 0 ELSE g[n - 1] + doc[section[keys[n]]].size]
    <2>1. \A n \in 0 .. m : n # 0 => w[n] = doc[section[keys[n]]].size
      BY <1>2
    <2> HIDE DEF w
    <2> QED BY <2>1
  <1>6. f = [n \in 0 .. m |-> IF n = 0 THEN 0 ELSE f[n - 1] + doc[section[keys[n]]].size]
    <2> HIDE DEF w
    <2> QED BY <1>4, <1>5 DEF SumsOf
  <1>7. upTo = [n \in 0 .. m |-> IF n = 0 THEN 0 ELSE upTo[n - 1] + doc[section[keys[n]]].size]
    <2> HIDE DEF w
    <2> QED BY <1>6
  <1> HIDE DEF upTo
  <1>8. SumsOf(upTo, m, w)
    <2> HIDE DEF w
    <2> QED BY <1>5, <1>7 DEF SumsOf
  <1>9. upTo[m] \in Nat /\ \A i \in 1 .. m : w[i] <= upTo[m]
    <2> HIDE DEF w
    <2> QED BY <1>2, <1>3, <1>8, SumsBound
  <1>10. ASSUME NEW k \in DOMAIN section
         PROVE  doc[section[k]].size <= upTo[m]
    BY <1>2, <1>9
  <1> QED BY <1>1, <1>9, <1>10

-----------------------------------------------------------------------------
(* Items.                                                                  *)

\* An item is in a list of items.
In(x, s) == \E i \in DOMAIN s : s[i] = x

\* An item is a triple; its kind says what its key and its document are.
LEMMA WorkShape ==
    ASSUME NEW x \in Work
    PROVE  /\ x = <<x[1], x[2], x[3]>>
           /\ x[1] \in {"profile", "slot", "pref", "safe", "active", "read", "wipe"}
           /\ x[1] = "profile" => x[2] \in Ids /\ x[3] \in DOMAIN ProfileDoc \cup {None}
           /\ x[1] = "slot" => x[2] \in ModeSlots /\ x[3] \in DOMAIN BindingDoc \cup {None}
           /\ x[1] = "pref" => x[2] \in Keys /\ x[3] \in Known[x[2]]
           /\ x[1] = "safe" => x[2] \in Entries /\ x[3] \in DOMAIN EntryDoc \cup {None}
           /\ x[1] = "active" => x[2] = 0 /\ x[3] \in ModeSlots
           /\ x[1] = "read" => x[2] \in Sections
           /\ x[1] = "wipe" => x[2] \in Regions
  <1>1. CASE x \in ProfileWork
    BY <1>1 DEF ProfileWork
  <1>2. CASE x \in SlotWork
    BY <1>2 DEF SlotWork
  <1>3. CASE x \in PrefWork
    <2>1. PICK k \in Keys : x \in {"pref"} \X {k} \X Known[k]
      BY <1>3 DEF PrefWork
    <2>2. x = <<x[1], x[2], x[3]>> /\ x[1] = "pref" /\ x[2] = k /\ x[3] \in Known[k]
      BY <2>1
    <2> QED BY <2>2
  <1>4. CASE x \in SafeWork
    BY <1>4 DEF SafeWork
  <1>5. CASE x \in ActiveWork
    BY <1>5 DEF ActiveWork
  <1>6. CASE x \in ReadWork
    BY <1>6 DEF ReadWork
  <1>7. CASE x \in WipeWork
    BY <1>7 DEF WipeWork
  <1> QED BY <1>1, <1>2, <1>3, <1>4, <1>5, <1>6, <1>7 DEF Work

\* The items that commands make are work.
LEMMA IsWork ==
    /\ \A i \in Ids, p \in DOMAIN ProfileDoc \cup {None} : <<"profile", i, p>> \in Work
    /\ \A s \in ModeSlots, b \in DOMAIN BindingDoc \cup {None} : <<"slot", s, b>> \in Work
    /\ \A k \in Keys : \A v \in Known[k] : <<"pref", k, v>> \in Work
    /\ \A n \in Entries, e \in DOMAIN EntryDoc \cup {None} : <<"safe", n, e>> \in Work
    /\ \A s \in ModeSlots : <<"active", 0, s>> \in Work
    /\ \A x \in Sections : <<"read", x, None>> \in Work
    /\ \A h \in Regions : <<"wipe", h, None>> \in Work
  <1>1. \A i \in Ids, p \in DOMAIN ProfileDoc \cup {None} : <<"profile", i, p>> \in Work
    BY DEF Work, ProfileWork
  <1>2. \A s \in ModeSlots, b \in DOMAIN BindingDoc \cup {None} : <<"slot", s, b>> \in Work
    BY DEF Work, SlotWork
  <1>3. ASSUME NEW k \in Keys, NEW v \in Known[k]
        PROVE  <<"pref", k, v>> \in Work
    <2>1. <<"pref", k, v>> \in {"pref"} \X {k} \X Known[k]
      OBVIOUS
    <2>2. <<"pref", k, v>> \in PrefWork
      BY <2>1 DEF PrefWork
    <2> QED BY <2>2 DEF Work
  <1>4. \A n \in Entries, e \in DOMAIN EntryDoc \cup {None} : <<"safe", n, e>> \in Work
    BY DEF Work, SafeWork
  <1>5. \A s \in ModeSlots : <<"active", 0, s>> \in Work
    BY DEF Work, ActiveWork
  <1>6. \A x \in Sections : <<"read", x, None>> \in Work
    BY DEF Work, ReadWork
  <1>7. \A h \in Regions : <<"wipe", h, None>> \in Work
    BY DEF Work, WipeWork
  <1> QED BY <1>1, <1>2, <1>3, <1>4, <1>5, <1>6, <1>7

\* None is told apart from every document and every value of a preference.
LEMMA NotNone ==
    /\ None \notin DOMAIN ProfileDoc /\ None \notin DOMAIN BindingDoc /\ None \notin DOMAIN EntryDoc
    /\ \A k \in Keys : None \notin Known[k]
  BY DocumentsAssumption, PrefsAssumption

\* Items lists each key of a finite section, and nothing else.
LEMMA ItemsListed ==
    ASSUME NEW kind, NEW section, IsFiniteSet(DOMAIN section), NEW S,
           \A k \in DOMAIN section : <<kind, k, section[k]>> \in S
    PROVE  /\ Items(kind, section) \in Seq(S)
           /\ \A k \in DOMAIN section : In(<<kind, k, section[k]>>, Items(kind, section))
  <1> DEFINE keys == SetToSeq(DOMAIN section)
             n == Len(keys)
             items == [i \in 1 .. n |-> <<kind, keys[i], section[keys[i]]>>]
  <1>1. /\ n \in Nat /\ DOMAIN keys = 1 .. n
        /\ \A i \in 1 .. n : keys[i] \in DOMAIN section
        /\ \A x \in DOMAIN section : \E i \in 1 .. n : keys[i] = x
    BY Listed
  <1>2. Items(kind, section) = items
    BY <1>1 DEF Items
  <1> HIDE DEF keys, n
  <1>3. \A i \in 1 .. n : items[i] \in S
    BY <1>1
  <1>4. items \in Seq(S)
    BY <1>1, <1>3
  <1>5. \A k \in DOMAIN section : In(<<kind, k, section[k]>>, items)
    BY <1>1 DEF In
  <1> QED BY <1>2, <1>4, <1>5

\* What is in a list is in a longer one.
LEMMA InConcat ==
    ASSUME NEW S, NEW s \in Seq(S), NEW r \in Seq(S), NEW x, In(x, s) \/ In(x, r)
    PROVE  In(x, s \o r)
  <1>1. /\ s \o r \in Seq(S) /\ Len(s \o r) = Len(s) + Len(r)
        /\ \A i \in 1 .. Len(s) + Len(r) : (s \o r)[i] = IF i <= Len(s) THEN s[i] ELSE r[i - Len(s)]
    BY ConcatProperties
  <1>2. /\ Len(s) \in Nat /\ Len(r) \in Nat /\ DOMAIN s = 1 .. Len(s) /\ DOMAIN r = 1 .. Len(r)
        /\ DOMAIN (s \o r) = 1 .. Len(s) + Len(r)
    BY <1>1, LenProperties
  <1> DEFINE q == s \o r
  <1> HIDE DEF q
  <1>3. CASE In(x, s)
    <2>1. PICK i \in 1 .. Len(s) : s[i] = x
      BY <1>2, <1>3 DEF In
    <2>2. i \in 1 .. Len(s) + Len(r) /\ q[i] = x
      BY <1>1, <1>2, <2>1 DEF q
    <2> QED BY <1>2, <2>2 DEF In, q
  <1>4. CASE In(x, r)
    <2>1. PICK i \in 1 .. Len(r) : r[i] = x
      BY <1>2, <1>4 DEF In
    <2>2. i + Len(s) \in 1 .. Len(s) + Len(r) /\ ~ (i + Len(s) <= Len(s)) /\ i + Len(s) - Len(s) = i
      BY <1>2, <2>1
    <2>3. q[i + Len(s)] = x
      BY <1>1, <2>1, <2>2 DEF q
    <2> QED BY <1>2, <2>2, <2>3 DEF In, q
  <1> QED BY <1>3, <1>4

\* A list without its head.
LEMMA InTail ==
    ASSUME NEW S, NEW s \in Seq(S), s # <<>>
    PROVE  /\ Tail(s) \in Seq(S) /\ Head(s) \in S /\ Head(s) = s[1] /\ In(Head(s), s)
           /\ \A i \in DOMAIN Tail(s) : i + 1 \in DOMAIN s /\ Tail(s)[i] = s[i + 1]
           /\ \A i \in DOMAIN s : i # 1 => i - 1 \in DOMAIN Tail(s) /\ Tail(s)[i - 1] = s[i]
           /\ Len(Tail(s)) = Len(s) - 1 /\ Len(s) \in Nat /\ 1 \in DOMAIN s
  <1>1. /\ Head(s) \in S /\ Tail(s) \in Seq(S) /\ Len(Tail(s)) = Len(s) - 1
        /\ \A i \in 1 .. Len(Tail(s)) : Tail(s)[i] = s[i + 1]
    BY HeadTailProperties
  <1>2. Len(s) \in Nat \ {0} /\ DOMAIN s = 1 .. Len(s)
    BY EmptySeq, LenProperties
  <1>3. DOMAIN Tail(s) = 1 .. Len(s) - 1
    BY <1>1, LenProperties
  <1>4. Head(s) = s[1] /\ 1 \in DOMAIN s
    BY <1>2
  <1>5. \A i \in DOMAIN Tail(s) : i + 1 \in DOMAIN s /\ Tail(s)[i] = s[i + 1]
    BY <1>1, <1>2, <1>3
  <1>6. \A i \in DOMAIN s : i # 1 => i - 1 \in DOMAIN Tail(s) /\ Tail(s)[i - 1] = s[i]
    <2>1. ASSUME NEW i \in DOMAIN s, i # 1
          PROVE  i - 1 \in DOMAIN Tail(s) /\ Tail(s)[i - 1] = s[i]
      <3>1. i - 1 \in DOMAIN Tail(s) /\ i - 1 + 1 = i
        BY <1>2, <1>3, <2>1
      <3> QED BY <1>5, <3>1
    <2> QED BY <2>1
  <1> QED BY <1>1, <1>2, <1>4, <1>5, <1>6 DEF In

\* Removing one element makes a list one shorter.
LEMMA RemoveAtShortens ==
    ASSUME NEW S, NEW s \in Seq(S), NEW i \in DOMAIN s
    PROVE  RemoveAt(s, i) \in Seq(S) /\ Len(RemoveAt(s, i)) = Len(s) - 1
  <1>1. Len(s) \in Nat /\ i \in 1 .. Len(s) /\ \A n \in 1 .. Len(s) : s[n] \in S
    BY LenProperties
  <1>2. SubSeq(s, 1, i - 1) \in Seq(S) /\ Len(SubSeq(s, 1, i - 1)) = i - 1
    <2>1. \A n \in 1 .. i - 1 : s[n] \in S
      BY <1>1
    <2>2. 1 \in Int /\ i - 1 \in Int
      BY <1>1
    <2>3. /\ SubSeq(s, 1, i - 1) \in Seq(S)
          /\ Len(SubSeq(s, 1, i - 1)) = IF 1 <= i - 1 THEN i - 1 - 1 + 1 ELSE 0
      BY <2>1, <2>2, SubSeqProperties
    <2> QED BY <2>3, <1>1
  <1>3. SubSeq(s, i + 1, Len(s)) \in Seq(S) /\ Len(SubSeq(s, i + 1, Len(s))) = Len(s) - i
    <2>1. \A n \in i + 1 .. Len(s) : s[n] \in S
      BY <1>1
    <2>2. i + 1 \in Int /\ Len(s) \in Int
      BY <1>1
    <2>3. /\ SubSeq(s, i + 1, Len(s)) \in Seq(S)
          /\ Len(SubSeq(s, i + 1, Len(s))) = IF i + 1 <= Len(s) THEN Len(s) - (i + 1) + 1 ELSE 0
      BY <2>1, <2>2, SubSeqProperties
    <2> QED BY <2>3, <1>1
  <1>4. /\ SubSeq(s, 1, i - 1) \o SubSeq(s, i + 1, Len(s)) \in Seq(S)
        /\ Len(SubSeq(s, 1, i - 1) \o SubSeq(s, i + 1, Len(s))) = i - 1 + (Len(s) - i)
    BY <1>2, <1>3, ConcatProperties
  <1>5. i - 1 + (Len(s) - i) = Len(s) - 1
    BY <1>1
  <1> QED BY <1>4, <1>5 DEF RemoveAt

\* A list of one item.
LEMMA SingletonSeq ==
    ASSUME NEW S, NEW x \in S
    PROVE  /\ <<x>> \in Seq(S) /\ Len(<<x>>) = 1 /\ DOMAIN <<x>> = {1} /\ <<x>>[1] = x
           /\ In(x, <<x>>)
  BY DEF In

-----------------------------------------------------------------------------
(* Dumps.                                                                  *)

\* The dump that an export starts from has the shape of a dump.
LEMMA EmptyDumpShape == DumpShape(EmptyDump)
  <1>1. DOMAIN NoSection = {}
    BY DEF NoSection
  <1>2. IsFiniteSet({})
    BY FS_EmptySet
  <1> QED BY <1>1, <1>2 DEF DumpShape, EmptyDump

\* Every item of an accepted dump is work that an import may do.
LEMMA DumpItems ==
    ASSUME NEW d, DumpShape(d), DumpValid(d), NEW x \in Wanted(d) \cup SafeOf(d)
    PROVE  x \in Work /\ Fits("import", x)
  <1>1. CASE x \in Profiles(d)
    BY <1>1, IsWork, NotNone DEF Profiles, DumpShape, DumpValid, Fits, Checked
  <1>2. CASE x \in SlotsOf(d)
    BY <1>2, IsWork, NotNone DEF SlotsOf, DumpShape, DumpValid, Fits, Checked
  <1>3. CASE x \in PrefsOf(d)
    BY <1>3, IsWork, NotNone DEF PrefsOf, DumpShape, DumpValid, PrefValid, Fits, Checked
  <1>4. CASE x \in SafeOf(d)
    BY <1>4, IsWork, NotNone DEF SafeOf, DumpShape, DumpValid, Fits, Checked
  <1>5. CASE x \in ActiveOf(d)
    <2>1. d.active # Absent /\ x = <<"active", 0, d.active>>
      BY <1>5 DEF ActiveOf
    <2>2. d.active \in ModeSlots
      BY <2>1 DEF DumpValid
    <2>3. x \in Work
      BY <2>1, <2>2, IsWork
    <2> QED BY <2>1, <2>2, <2>3 DEF Fits, Checked
  <1> QED BY <1>1, <1>2, <1>3, <1>4, <1>5 DEF Wanted

\* An import works through all that its dump names, and through nothing else.
LEMMA ImportWork ==
    ASSUME NEW t, NEW d, DumpShape(d), DumpValid(d)
    PROVE  /\ ImportItems(t, d) \in Seq(Work)
           /\ \A i \in DOMAIN ImportItems(t, d) :
                 ImportItems(t, d)[i] \in Wanted(d) \cup SafeOf(d) /\ Fits("import", ImportItems(t, d)[i])
           /\ \A x \in Wanted(d) : In(x, ImportItems(t, d))
  <1> DEFINE S == Wanted(d) \cup SafeOf(d)
             p == Items("profile", d.profiles)
             s == Items("slot", d.slots)
             f == Items("pref", d.prefs)
             n == IF t \in Authenticated THEN Items("safe", d.safe) ELSE <<>>
             a == IF d.active = Absent THEN <<>> ELSE <<<<"active", 0, d.active>>>>
  <1>1. /\ IsFiniteSet(DOMAIN d.prefs) /\ IsFiniteSet(DOMAIN d.slots)
        /\ IsFiniteSet(DOMAIN d.profiles) /\ IsFiniteSet(DOMAIN d.safe)
    BY DEF DumpShape
  <1>2. p \in Seq(S) /\ \A x \in Profiles(d) : In(x, p)
    <2>1. \A k \in DOMAIN d.profiles : <<"profile", k, d.profiles[k]>> \in S
      BY DEF Wanted, Profiles
    <2>2. p \in Seq(S) /\ \A k \in DOMAIN d.profiles : In(<<"profile", k, d.profiles[k]>>, p)
      BY <1>1, <2>1, ItemsListed
    <2> QED BY <2>2 DEF Profiles
  <1>3. s \in Seq(S) /\ \A x \in SlotsOf(d) : In(x, s)
    <2>1. \A k \in DOMAIN d.slots : <<"slot", k, d.slots[k]>> \in S
      BY DEF Wanted, SlotsOf
    <2>2. s \in Seq(S) /\ \A k \in DOMAIN d.slots : In(<<"slot", k, d.slots[k]>>, s)
      BY <1>1, <2>1, ItemsListed
    <2> QED BY <2>2 DEF SlotsOf
  <1>4. f \in Seq(S) /\ \A x \in PrefsOf(d) : In(x, f)
    <2>1. \A k \in DOMAIN d.prefs : <<"pref", k, d.prefs[k]>> \in S
      BY DEF Wanted, PrefsOf
    <2>2. f \in Seq(S) /\ \A k \in DOMAIN d.prefs : In(<<"pref", k, d.prefs[k]>>, f)
      BY <1>1, <2>1, ItemsListed
    <2> QED BY <2>2 DEF PrefsOf
  <1>5. n \in Seq(S)
    <2>1. \A k \in DOMAIN d.safe : <<"safe", k, d.safe[k]>> \in S
      BY DEF SafeOf
    <2>2. Items("safe", d.safe) \in Seq(S)
      BY <1>1, <2>1, ItemsListed
    <2>3. <<>> \in Seq(S)
      BY EmptySeq
    <2> QED BY <2>2, <2>3
  <1>6. a \in Seq(S) /\ \A x \in ActiveOf(d) : In(x, a)
    <2>1. CASE d.active = Absent
      <3>1. a = <<>> /\ ActiveOf(d) = {}
        BY <2>1 DEF ActiveOf
      <3> QED BY <3>1, EmptySeq
    <2>2. CASE d.active # Absent
      <3>1. a = <<<<"active", 0, d.active>>>> /\ ActiveOf(d) = {<<"active", 0, d.active>>}
        BY <2>2 DEF ActiveOf
      <3>2. <<"active", 0, d.active>> \in S
        BY <3>1 DEF Wanted
      <3> HIDE DEF a, S
      <3> QED BY <3>1, <3>2, SingletonSeq
    <2> QED BY <2>1, <2>2
  <1>7. ImportItems(t, d) = p \o s \o f \o n \o a
    BY DEF ImportItems
  <1>8. \A x \in S : x \in Work /\ Fits("import", x)
    BY DumpItems
  <1>9. \A x : x \in Wanted(d) <=> x \in Profiles(d) \/ x \in SlotsOf(d) \/ x \in PrefsOf(d) \/ x \in ActiveOf(d)
    BY DEF Wanted
  <1> HIDE DEF p, s, f, n, a, S
  <1>10. p \o s \in Seq(S) /\ \A x : In(x, p) \/ In(x, s) => In(x, p \o s)
    BY <1>2, <1>3, ConcatProperties, InConcat
  <1>11. p \o s \o f \in Seq(S) /\ \A x : In(x, p \o s) \/ In(x, f) => In(x, p \o s \o f)
    BY <1>10, <1>4, ConcatProperties, InConcat
  <1>12. p \o s \o f \o n \in Seq(S) /\ \A x : In(x, p \o s \o f) => In(x, p \o s \o f \o n)
    BY <1>11, <1>5, ConcatProperties, InConcat
  <1>13. /\ p \o s \o f \o n \o a \in Seq(S)
         /\ \A x : In(x, p \o s \o f \o n) \/ In(x, a) => In(x, p \o s \o f \o n \o a)
    BY <1>12, <1>6, ConcatProperties, InConcat
  <1> DEFINE all == p \o s \o f \o n \o a
  <1>14. \A x \in Wanted(d) : In(x, all)
    BY <1>2, <1>3, <1>4, <1>6, <1>9, <1>10, <1>11, <1>12, <1>13
  <1>15. all \in Seq(S)
    BY <1>13
  <1> HIDE DEF all
  <1>16. all \in Seq(Work)
    <2>1. S \subseteq Work
      BY <1>8
    <2> QED BY <1>15, <2>1, SeqMonotonic
  <1>17. \A i \in DOMAIN all : all[i] \in S
    BY <1>15, LenProperties, ElementOfSeq
  <1> QED BY <1>7, <1>8, <1>14, <1>16, <1>17 DEF all, S

\* A profile of an accepted dump is short enough to be stored.
LEMMA DumpProfilesFit ==
    ASSUME NEW d, DumpShape(d), Accepted(d), NEW i \in DOMAIN d.profiles
    PROVE  ProfileDoc[d.profiles[i]].size <= SD_PROFILE_JSON_MAX
  <1>1. /\ IsFiniteSet(DOMAIN d.slots) /\ IsFiniteSet(DOMAIN d.profiles) /\ IsFiniteSet(DOMAIN d.safe)
        /\ \A k \in DOMAIN d.profiles : ProfileDoc[d.profiles[k]].size \in Nat
        /\ \A s \in DOMAIN d.slots : BindingDoc[d.slots[s]].size \in Nat
        /\ \A n \in DOMAIN d.safe : EntryDoc[d.safe[n]].size \in Nat
    BY DocumentsAssumption DEF DumpShape
  <1> DEFINE x == Total(d.slots, BindingDoc)
             y == Total(d.profiles, ProfileDoc)
             z == Total(d.safe, EntryDoc)
             size == ProfileDoc[d.profiles[i]].size
  <1>2. x \in Nat
    BY <1>1, TotalBounds
  <1>3. y \in Nat /\ size <= y /\ size \in Nat
    BY <1>1, TotalBounds
  <1>4. z \in Nat
    BY <1>1, TotalBounds
  <1>5. Envelope + x + y + z < SK_CLI_LINE_BUF
    BY DEF Accepted, LineFits, DumpSize
  <1>6. SK_CLI_LINE_BUF \in Nat /\ SD_PROFILE_JSON_MAX \in Nat /\ SK_CLI_LINE_BUF <= SD_PROFILE_JSON_MAX
    BY LimitsAssumption
  <1> HIDE DEF x, y, z, size
  <1>7. size <= SD_PROFILE_JSON_MAX
    BY <1>2, <1>3, <1>4, <1>5, <1>6 DEF Envelope
  <1> QED BY <1>7 DEF size

\* Two items of a dump with one kind and key are the same item.
LEMMA DumpItemsDiffer ==
    ASSUME NEW d, NEW x \in Wanted(d), NEW y \in Wanted(d) \cup SafeOf(d), x[1] = y[1], x[2] = y[2]
    PROVE  x = y
  BY DEF Wanted, Profiles, SlotsOf, PrefsOf, ActiveOf, SafeOf

-----------------------------------------------------------------------------
(* Memory and flash.                                                       *)

\* What a boot makes of a slot: its binding if it is valid, in force only with its profile.
LEMMA SlotBinding ==
    ASSUME NEW store, InFlash(store), NEW s \in ModeSlots
    PROVE  /\ SlotLoaded(store, s) \in SlotType
           /\ SlotLoaded(store, s).binding =
                IF store.slot[s] # None /\ BindingValid(store.slot[s]) THEN store.slot[s] ELSE None
           /\ SlotLoaded(store, s).enabled =>
                /\ store.slot[s] # None
                /\ BindingDoc[store.slot[s]].profile # Absent =>
                      store.profile[BindingDoc[store.slot[s]].profile] # None
           /\ store.slot[s] # None /\ BindingValid(store.slot[s]) /\ Enabled(store.slot[s])
              /\ BindingDoc[store.slot[s]].behavior \in Behaviors
              /\ BindingDoc[store.slot[s]].profile # Absent
              /\ store.profile[BindingDoc[store.slot[s]].profile] # None =>
                /\ SlotLoaded(store, s).enabled
                /\ SlotLoaded(store, s).profile = store.profile[BindingDoc[store.slot[s]].profile]
  <1> DEFINE b == store.slot[s]
             id == BindingDoc[b].profile
             loaded == [binding |-> b, profile |-> IF id # Absent THEN store.profile[id] ELSE None, enabled |-> TRUE]
  <1>1. b \in DOMAIN BindingDoc \cup {None} /\ None \notin DOMAIN BindingDoc
    BY DocumentsAssumption DEF InFlash
  <1>2. ASSUME b # None, BindingValid(b)
        PROVE  id \in Ids \cup {Absent}
    BY <1>1, <1>2, DocumentsAssumption DEF BindingValid, Optional
  <1>3. ASSUME b # None, BindingValid(b)
        PROVE  loaded \in SlotType
    <2>1. id # Absent => store.profile[id] \in DOMAIN ProfileDoc \cup {None}
      BY <1>2, <1>3 DEF InFlash
    <2> HIDE DEF id
    <2> QED BY <1>1, <1>3, <2>1 DEF SlotType
  <1>4. EmptySlot \in SlotType /\ ~EmptySlot.enabled /\ EmptySlot.binding = None
    BY DEF EmptySlot, SlotType
  <1>5. ASSUME b # None
        PROVE  /\ [EmptySlot EXCEPT !.binding = b] \in SlotType
               /\ [EmptySlot EXCEPT !.binding = b].binding = b /\ ~[EmptySlot EXCEPT !.binding = b].enabled
    BY <1>1, <1>5 DEF EmptySlot, SlotType
  <1>6. \/ SlotLoaded(store, s) = EmptySlot /\ (b = None \/ ~BindingValid(b))
        \/ /\ SlotLoaded(store, s) = [EmptySlot EXCEPT !.binding = b] /\ b # None /\ BindingValid(b)
           /\ ~Enabled(b) \/ BindingDoc[b].behavior \notin Behaviors \/ (id # Absent /\ store.profile[id] = None)
        \/ /\ SlotLoaded(store, s) = loaded /\ b # None /\ BindingValid(b)
           /\ id # Absent => store.profile[id] # None
    BY DEF SlotLoaded
  <1>7. loaded.binding = b /\ loaded.enabled = TRUE /\ (id # Absent => loaded.profile = store.profile[id])
    OBVIOUS
  <1> HIDE DEF loaded
  <1>8. SlotLoaded(store, s) \in SlotType
    BY <1>3, <1>4, <1>5, <1>6
  <1>9. SlotLoaded(store, s).binding = IF b # None /\ BindingValid(b) THEN b ELSE None
    BY <1>4, <1>5, <1>6, <1>7
  <1>10. SlotLoaded(store, s).enabled => b # None /\ (id # Absent => store.profile[id] # None)
    BY <1>4, <1>5, <1>6
  <1>11. b # None /\ BindingValid(b) /\ Enabled(b) /\ BindingDoc[b].behavior \in Behaviors
         /\ id # Absent /\ store.profile[id] # None =>
            SlotLoaded(store, s).enabled /\ SlotLoaded(store, s).profile = store.profile[id]
    BY <1>6, <1>7
  <1> QED BY <1>8, <1>9, <1>10, <1>11

\* What a boot makes of flash is memory, for a normal and for a recovery boot.
LEMMA LoadedMemory ==
    ASSUME NEW store, InFlash(store), NEW rec \in BOOLEAN
    PROVE  MemoryOK(Loaded(store, rec)) /\ DOMAIN CacheOf(Loaded(store, rec)) = Cached
  <1>1. \A s \in ModeSlots : SlotLoaded(store, s) \in SlotType /\ EmptySlot \in SlotType
    BY SlotBinding DEF SlotType, EmptySlot
  <1>2. /\ PrefsLoaded(store) = [k \in Keys |-> PrefsLoaded(store)[k]]
        /\ \A k \in Keys : PrefsLoaded(store)[k] \in Known[k]
    BY PrefsAssumption DEF PrefsLoaded, InFlash
  <1>3. SafeLoaded(store) \in [Entries -> DOMAIN EntryDoc \cup {None}]
    BY DEF SafeLoaded, InFlash
  <1>4. ActiveLoaded(store) \in ModeSlots /\ 1 \in ModeSlots
    BY LimitsAssumption DEF ActiveLoaded, ModeSlots
  <1> QED BY <1>1, <1>2, <1>3, <1>4 DEF MemoryOK, Loaded, CacheOf

\* Erased flash is flash.
LEMMA ErasedInFlash == InFlash(Erased)
  BY LimitsAssumption DEF InFlash, Erased, ModeSlots

-----------------------------------------------------------------------------
(* Jobs.                                                                   *)

\* A task's job becomes another one; the fields that a step changes; a job through with its
\* first item; all jobs well formed.
Becomes(t, j) == job' = [u \in Workers |-> IF u = t THEN j ELSE job[u]]
With(j, todo, at, seen) ==
    [op |-> j.op, todo |-> todo, at |-> at, dump |-> j.dump, seen |-> seen, alone |-> j.alone]
Through(j) == With(j, Tail(j.todo), "next", None)
Jobs == job = [t \in Workers |-> job[t]] /\ \A t \in Workers : JobOK(job[t])

IsJob(j) ==
    j = [op |-> j.op, todo |-> j.todo, at |-> j.at, dump |-> j.dump, seen |-> j.seen, alone |-> j.alone]

\* A job with several fields changed at once.
Advance(j, todo, at, seen) == [j EXCEPT !.todo = todo, !.at = at, !.seen = seen]
See(j, at, seen) == [j EXCEPT !.at = at, !.seen = seen]
Collect(j, todo, dump) == [j EXCEPT !.todo = todo, !.dump = dump]

\* The fields one by one.
LEMMA JobsChange ==
    ASSUME NEW j, IsJob(j), NEW x, NEW y, NEW z
    PROVE  /\ Advance(j, x, y, z) = With(j, x, y, z)
           /\ See(j, y, z) = With(j, j.todo, y, z)
           /\ Collect(j, x, y) = [op |-> j.op, todo |-> x, at |-> j.at, dump |-> y, seen |-> j.seen,
                                  alone |-> j.alone]
  <1> DEFINE j1 == [j EXCEPT !.todo = x]
             j2 == [j1 EXCEPT !.at = y]
             j3 == [j2 EXCEPT !.seen = z]
             j4 == [j EXCEPT !.at = y]
             j5 == [j4 EXCEPT !.seen = z]
             j6 == [j1 EXCEPT !.dump = y]
  <1>1. Advance(j, x, y, z) = j3 /\ See(j, y, z) = j5 /\ Collect(j, x, y) = j6
    BY DEF Advance, See, Collect
  <1>2. PICK o, q, a, d, s, b : j = [op |-> o, todo |-> q, at |-> a, dump |-> d, seen |-> s, alone |-> b]
    BY DEF IsJob
  <1>3. j1 = [op |-> o, todo |-> x, at |-> a, dump |-> d, seen |-> s, alone |-> b]
    BY <1>2
  <1>4. j4 = [op |-> o, todo |-> q, at |-> y, dump |-> d, seen |-> s, alone |-> b]
    BY <1>2
  <1> HIDE DEF j1, j4
  <1>5. j2 = [op |-> o, todo |-> x, at |-> y, dump |-> d, seen |-> s, alone |-> b]
    BY <1>3
  <1>6. j5 = [op |-> o, todo |-> q, at |-> y, dump |-> d, seen |-> z, alone |-> b]
    BY <1>4
  <1>7. j6 = [op |-> o, todo |-> x, at |-> a, dump |-> y, seen |-> s, alone |-> b]
    BY <1>3
  <1> HIDE DEF j2
  <1>8. j3 = [op |-> o, todo |-> x, at |-> y, dump |-> d, seen |-> z, alone |-> b]
    BY <1>5
  <1>9. j.op = o /\ j.todo = q /\ j.at = a /\ j.dump = d /\ j.seen = s /\ j.alone = b
    BY <1>2
  <1> QED BY <1>1, <1>6, <1>7, <1>8, <1>9 DEF With

\* Done takes the first item off a job.
LEMMA DoneBecomes == ASSUME Jobs, NEW t \in Workers, Done(t) PROVE Becomes(t, Through(job[t]))
  <1>1. IsJob(job[t])
    BY DEF Jobs, JobOK, IsJob
  <1>2. job' = [job EXCEPT ![t] = Advance(job[t], Tail(job[t].todo), "next", None)]
    BY DEF Done, Advance, Jobs
  <1>3. Advance(job[t], Tail(job[t].todo), "next", None) = Through(job[t])
    BY <1>1, JobsChange DEF Through
  <1> QED BY <1>2, <1>3 DEF Becomes, Jobs

\* Go moves a job to another place of its first item.
LEMMA GoBecomes == ASSUME Jobs, NEW t \in Workers, NEW where, Go(t, where)
                   PROVE  Becomes(t, With(job[t], job[t].todo, where, job[t].seen))
  <1> DEFINE j == job[t]
  <1>1. j = [op |-> j.op, todo |-> j.todo, at |-> j.at, dump |-> j.dump, seen |-> j.seen, alone |-> j.alone]
    BY DEF Jobs, JobOK
  <1>2. job' = [job EXCEPT ![t] = [j EXCEPT !.at = where]]
    BY DEF Go, Jobs
  <1>3. [j EXCEPT !.at = where] = With(j, j.todo, where, j.seen)
    <2> HIDE DEF j
    <2> QED BY <1>1 DEF With
  <1> QED BY <1>2, <1>3 DEF Becomes, Jobs

\* A task that waits for the restart it asked for.
Blocked == [Idle EXCEPT !.op = "blocked"]

\* Idle and blocked jobs are well formed.
LEMMA JobIdle ==
    /\ JobOK(Idle) /\ JobOK(Blocked)
    /\ Idle.op = "none" /\ Idle.todo = <<>> /\ Idle.at = "next"
    /\ Blocked.op = "blocked" /\ Blocked.todo = <<>> /\ Blocked.at = "next"
  <1>1. <<>> \in Seq(Work) /\ DOMAIN <<>> = {} /\ Len(<<>>) = 0
    BY EmptySeq
  <1>2. ASSUME NEW r, NEW o \in {"none", "blocked"},
               r = [op |-> o, todo |-> <<>>, at |-> "next", dump |-> None, seen |-> None, alone |-> TRUE]
        PROVE  JobOK(r) /\ r.op = o /\ r.todo = <<>> /\ r.at = "next"
    <2>1. r.op = o /\ r.todo = <<>> /\ r.at = "next" /\ r.alone = TRUE
          /\ r = [op |-> r.op, todo |-> r.todo, at |-> r.at, dump |-> r.dump, seen |-> r.seen, alone |-> r.alone]
      BY <1>2
    <2>2. o \in Ops /\ o \notin {"command", "export", "import"}
      BY DEF Ops
    <2> QED BY <1>1, <2>1, <2>2 DEF JobOK
  <1>3. Blocked = [op |-> "blocked", todo |-> <<>>, at |-> "next", dump |-> None, seen |-> None, alone |-> TRUE]
    <2>1. PICK i, n, o, e, w, x :
            /\ i = Idle /\ n = "none" /\ o = "blocked" /\ e = <<>> /\ w = "next" /\ x = TRUE
            /\ i = [op |-> n, todo |-> e, at |-> w, dump |-> None, seen |-> None, alone |-> x]
      BY DEF Idle
    <2>2. [i EXCEPT !.op = o] = [op |-> o, todo |-> e, at |-> w, dump |-> None, seen |-> None, alone |-> x]
      <3>1. i = [op |-> n, todo |-> e, at |-> w, dump |-> None, seen |-> None, alone |-> x]
        BY <2>1
      <3> QED BY <3>1
    <2> QED BY <2>1, <2>2 DEF Blocked
  <1>4. JobOK(Blocked) /\ Blocked.op = "blocked" /\ Blocked.todo = <<>> /\ Blocked.at = "next"
    BY <1>2, <1>3
  <1>5. JobOK(Idle) /\ Idle.op = "none" /\ Idle.todo = <<>> /\ Idle.at = "next"
    BY <1>2 DEF Idle
  <1> QED BY <1>4, <1>5

\* A well formed job stays so without its first item.
LEMMA JobThrough ==
    ASSUME NEW j, JobOK(j), j.todo # <<>>
    PROVE  JobOK(Through(j))
  <1> DEFINE r == Through(j)
  <1>1. r.op = j.op /\ r.todo = Tail(j.todo) /\ r.at = "next" /\ r.dump = j.dump /\ r.seen = None
        /\ r.alone = j.alone
        /\ r = [op |-> r.op, todo |-> r.todo, at |-> r.at, dump |-> r.dump, seen |-> r.seen, alone |-> r.alone]
    BY DEF Through, With
  <1>2. /\ Tail(j.todo) \in Seq(Work) /\ Len(Tail(j.todo)) = Len(j.todo) - 1 /\ Len(j.todo) \in Nat
        /\ \A i \in DOMAIN Tail(j.todo) : i + 1 \in DOMAIN j.todo /\ Tail(j.todo)[i] = j.todo[i + 1]
    BY InTail DEF JobOK
  <1> HIDE DEF r
  <1>3. \A i \in DOMAIN r.todo : Fits(r.op, r.todo[i])
    BY <1>1, <1>2 DEF JobOK
  <1>4. r.op = "import" => \A i \in DOMAIN r.todo : r.todo[i] \in Wanted(r.dump) \cup SafeOf(r.dump)
    BY <1>1, <1>2 DEF JobOK
  <1>5. r.op = "command" => Len(r.todo) <= 1
    <2>1. r.op = "command" => Len(j.todo) <= 1
      BY <1>1 DEF JobOK
    <2> QED BY <2>1, <1>1, <1>2
  <1>6. r.op \notin {"none", "restart", "blocked"}
    BY <1>1 DEF JobOK
  <1> QED BY <1>1, <1>2, <1>3, <1>4, <1>5, <1>6 DEF JobOK, r

\* A well formed job stays so at another place of its first item.
LEMMA JobGoes ==
    ASSUME NEW j, JobOK(j), j.todo # <<>>, NEW where, Within(Head(j.todo), where), NEW seen,
           where \in {"read", "cache"} => Head(j.todo)[2] \in Cached,
           where = "cache" => DOMAIN seen = Cached
    PROVE  JobOK(With(j, j.todo, where, seen))
  <1> DEFINE r == With(j, j.todo, where, seen)
  <1>1. r.op = j.op /\ r.todo = j.todo /\ r.at = where /\ r.dump = j.dump /\ r.seen = seen
        /\ r.alone = j.alone
        /\ r = [op |-> r.op, todo |-> r.todo, at |-> r.at, dump |-> r.dump, seen |-> r.seen, alone |-> r.alone]
    BY DEF With
  <1> HIDE DEF r
  <1> QED BY <1>1 DEF JobOK, r

\* What is known of the item that a task is at.
LEMMA AtItem ==
    ASSUME Jobs, NEW t \in Workers, NEW kind, Item(t, kind)
    PROVE  /\ JobOK(job[t]) /\ job[t].todo # <<>> /\ job[t].todo \in Seq(Work)
           /\ Head(job[t].todo) = <<kind, Key(t), Value(t)>> /\ What(t) = <<kind, Key(t)>>
           /\ Head(job[t].todo) \in Work /\ Fits(job[t].op, Head(job[t].todo))
           /\ 1 \in DOMAIN job[t].todo /\ job[t].todo[1] = Head(job[t].todo)
           /\ kind = "profile" => Key(t) \in Ids /\ Value(t) \in DOMAIN ProfileDoc \cup {None}
           /\ kind = "slot" => Key(t) \in ModeSlots /\ Value(t) \in DOMAIN BindingDoc \cup {None}
           /\ kind = "pref" => Key(t) \in Keys /\ Value(t) \in Known[Key(t)]
           /\ kind = "safe" => Key(t) \in Entries /\ Value(t) \in DOMAIN EntryDoc \cup {None}
           /\ kind = "active" => Key(t) = 0 /\ Value(t) \in ModeSlots
           /\ kind = "read" => Key(t) \in Sections
           /\ kind = "wipe" => Key(t) \in Regions
           /\ kind = "wipe" <=> job[t].op = "reset"
           /\ kind = "read" <=> job[t].op = "export"
           /\ job[t].op \in {"command", "export", "import", "reset"}
  <1> DEFINE j == job[t]
             x == Head(j.todo)
  <1>1. JobOK(j) /\ j.todo # <<>> /\ x[1] = kind
    BY DEF Jobs, Item
  <1>2. j.todo \in Seq(Work) /\ x \in Work /\ 1 \in DOMAIN j.todo /\ j.todo[1] = x
    BY <1>1, InTail DEF JobOK
  <1>3. Fits(j.op, x)
    BY <1>1, <1>2 DEF JobOK
  <1>4. Key(t) = x[2] /\ Value(t) = x[3] /\ What(t) = <<x[1], x[2]>>
    BY DEF Key, Value, What
  <1>5. j.op \in {"command", "export", "import", "reset"}
    BY <1>1 DEF JobOK, Ops
  <1>6. /\ x = <<x[1], x[2], x[3]>>
        /\ x[1] = "profile" => x[2] \in Ids /\ x[3] \in DOMAIN ProfileDoc \cup {None}
        /\ x[1] = "slot" => x[2] \in ModeSlots /\ x[3] \in DOMAIN BindingDoc \cup {None}
        /\ x[1] = "pref" => x[2] \in Keys /\ x[3] \in Known[x[2]]
        /\ x[1] = "safe" => x[2] \in Entries /\ x[3] \in DOMAIN EntryDoc \cup {None}
        /\ x[1] = "active" => x[2] = 0 /\ x[3] \in ModeSlots
        /\ x[1] = "read" => x[2] \in Sections
        /\ x[1] = "wipe" => x[2] \in Regions
    BY <1>2, WorkShape
  <1>7. (x[1] = "wipe" <=> j.op = "reset") /\ (x[1] = "read" <=> j.op = "export")
    BY <1>3 DEF Fits
  <1> HIDE DEF j, x
  <1>8. x = <<kind, Key(t), Value(t)>> /\ What(t) = <<kind, Key(t)>>
    BY <1>1, <1>4, <1>6
  <1> QED BY <1>1, <1>2, <1>3, <1>4, <1>5, <1>6, <1>7, <1>8 DEF j, x

\* A job that changes into a well formed one leaves the jobs well formed.
LEMMA JobsStay ==
    ASSUME Jobs, NEW t \in Workers, NEW j, JobOK(j), Becomes(t, j)
    PROVE  job' = [u \in Workers |-> job'[u]] /\ \A u \in Workers : JobOK(job'[u])
  BY DEF Jobs, Becomes

-----------------------------------------------------------------------------
(* One place of flash or of memory written.                                *)

\* The writes, as operators.
PutProfile(f, i, p) == [f EXCEPT !.profile[i] = p]
PutSlot(f, s, b) == [f EXCEPT !.slot[s] = b]
PutPref(f, k, v) == [f EXCEPT !.pref[k] = v]
PutSafe(f, n, e) == [f EXCEPT !.safe[n] = e]
PutActive(f, s) == [f EXCEPT !.active = s]

\* A profile written to flash leaves flash well formed and its other parts alone.
LEMMA FlashPutProfile ==
    ASSUME NEW f, InFlash(f), NEW i \in Ids, NEW p \in DOMAIN ProfileDoc \cup {None}
    PROVE  /\ InFlash(PutProfile(f, i, p))
           /\ PutProfile(f, i, p).profile = [f.profile EXCEPT ![i] = p]
           /\ PutProfile(f, i, p).slot = f.slot /\ PutProfile(f, i, p).pref = f.pref
           /\ PutProfile(f, i, p).safe = f.safe /\ PutProfile(f, i, p).active = f.active
  <1> DEFINE g == [f EXCEPT !.profile = [f.profile EXCEPT ![i] = p]]
  <1>1. PutProfile(f, i, p) = g
    BY DEF PutProfile
  <1>2. g = [profile |-> [f.profile EXCEPT ![i] = p], slot |-> f.slot, pref |-> f.pref, safe |-> f.safe,
             active |-> f.active]
    BY DEF InFlash
  <1> HIDE DEF g
  <1>3. [f.profile EXCEPT ![i] = p] \in [Ids -> DOMAIN ProfileDoc \cup {None}]
    BY DEF InFlash
  <1>4. InFlash(g)
    BY <1>2, <1>3 DEF InFlash
  <1> QED BY <1>1, <1>2, <1>4

\* A binding written to flash does so.
LEMMA FlashPutSlot ==
    ASSUME NEW f, InFlash(f), NEW s \in ModeSlots, NEW b \in DOMAIN BindingDoc \cup {None}
    PROVE  /\ InFlash(PutSlot(f, s, b))
           /\ PutSlot(f, s, b).slot = [f.slot EXCEPT ![s] = b]
           /\ PutSlot(f, s, b).profile = f.profile /\ PutSlot(f, s, b).pref = f.pref
           /\ PutSlot(f, s, b).safe = f.safe /\ PutSlot(f, s, b).active = f.active
  <1> DEFINE g == [f EXCEPT !.slot = [f.slot EXCEPT ![s] = b]]
  <1>1. PutSlot(f, s, b) = g
    BY DEF PutSlot
  <1>2. g = [profile |-> f.profile, slot |-> [f.slot EXCEPT ![s] = b], pref |-> f.pref, safe |-> f.safe,
             active |-> f.active]
    BY DEF InFlash
  <1> HIDE DEF g
  <1>3. [f.slot EXCEPT ![s] = b] \in [ModeSlots -> DOMAIN BindingDoc \cup {None}]
    BY DEF InFlash
  <1>4. InFlash(g)
    BY <1>2, <1>3 DEF InFlash
  <1> QED BY <1>1, <1>2, <1>4

\* A preference written to flash does so.
LEMMA FlashPutPref ==
    ASSUME NEW f, InFlash(f), NEW k \in Keys, NEW v \in Known[k]
    PROVE  /\ InFlash(PutPref(f, k, v))
           /\ PutPref(f, k, v).pref = [f.pref EXCEPT ![k] = v]
           /\ PutPref(f, k, v).profile = f.profile /\ PutPref(f, k, v).slot = f.slot
           /\ PutPref(f, k, v).safe = f.safe /\ PutPref(f, k, v).active = f.active
  <1> DEFINE g == [f EXCEPT !.pref = [f.pref EXCEPT ![k] = v]]
             h == [f.pref EXCEPT ![k] = v]
  <1>1. PutPref(f, k, v) = g
    BY DEF PutPref
  <1>2. g = [profile |-> f.profile, slot |-> f.slot, pref |-> h, safe |-> f.safe, active |-> f.active]
    BY DEF InFlash
  <1> HIDE DEF g
  <1>3. h = [x \in Keys |-> h[x]] /\ \A x \in Keys : h[x] \in Known[x] \cup {None}
    BY DEF InFlash
  <1> HIDE DEF h
  <1>4. InFlash(g)
    BY <1>2, <1>3 DEF InFlash
  <1> QED BY <1>1, <1>2, <1>4 DEF h

\* A safe entry written to flash does so.
LEMMA FlashPutSafe ==
    ASSUME NEW f, InFlash(f), NEW n \in Entries, NEW e \in DOMAIN EntryDoc \cup {None}
    PROVE  /\ InFlash(PutSafe(f, n, e))
           /\ PutSafe(f, n, e).safe = [f.safe EXCEPT ![n] = e]
           /\ PutSafe(f, n, e).profile = f.profile /\ PutSafe(f, n, e).slot = f.slot
           /\ PutSafe(f, n, e).pref = f.pref /\ PutSafe(f, n, e).active = f.active
  <1> DEFINE g == [f EXCEPT !.safe = [f.safe EXCEPT ![n] = e]]
  <1>1. PutSafe(f, n, e) = g
    BY DEF PutSafe
  <1>2. g = [profile |-> f.profile, slot |-> f.slot, pref |-> f.pref, safe |-> [f.safe EXCEPT ![n] = e],
             active |-> f.active]
    BY DEF InFlash
  <1> HIDE DEF g
  <1>3. [f.safe EXCEPT ![n] = e] \in [Entries -> DOMAIN EntryDoc \cup {None}]
    BY DEF InFlash
  <1>4. InFlash(g)
    BY <1>2, <1>3 DEF InFlash
  <1> QED BY <1>1, <1>2, <1>4

\* The active slot written to flash does so.
LEMMA FlashPutActive ==
    ASSUME NEW f, InFlash(f), NEW s \in ModeSlots
    PROVE  /\ InFlash(PutActive(f, s))
           /\ PutActive(f, s).active = s
           /\ PutActive(f, s).profile = f.profile /\ PutActive(f, s).slot = f.slot
           /\ PutActive(f, s).pref = f.pref /\ PutActive(f, s).safe = f.safe
  <1> DEFINE g == [f EXCEPT !.active = s]
  <1>1. PutActive(f, s) = g
    BY DEF PutActive
  <1>2. g = [profile |-> f.profile, slot |-> f.slot, pref |-> f.pref, safe |-> f.safe, active |-> s]
    BY DEF InFlash
  <1> HIDE DEF g
  <1>3. s \in 0 .. SD_MODE_SLOTS
    BY LimitsAssumption DEF ModeSlots
  <1>4. InFlash(g)
    BY <1>2, <1>3 DEF InFlash
  <1> QED BY <1>1, <1>2, <1>4

\* A slot loaded into memory leaves memory well formed and its other parts alone.
LEMMA MemoryPutSlot ==
    ASSUME NEW m, MemoryOK(m), NEW s \in ModeSlots, NEW b \in SlotType
    PROVE  /\ MemoryOK(PutSlot(m, s, b))
           /\ PutSlot(m, s, b).slot = [m.slot EXCEPT ![s] = b]
           /\ PutSlot(m, s, b).pref = m.pref /\ PutSlot(m, s, b).safe = m.safe
           /\ PutSlot(m, s, b).active = m.active
  <1> DEFINE g == [m EXCEPT !.slot = [m.slot EXCEPT ![s] = b]]
  <1>1. PutSlot(m, s, b) = g
    BY DEF PutSlot
  <1>2. g = [slot |-> [m.slot EXCEPT ![s] = b], pref |-> m.pref, safe |-> m.safe, active |-> m.active]
    BY DEF MemoryOK
  <1> HIDE DEF g
  <1>3. [m.slot EXCEPT ![s] = b] \in [ModeSlots -> SlotType]
    BY DEF MemoryOK
  <1>4. MemoryOK(g)
    BY <1>2, <1>3 DEF MemoryOK
  <1> QED BY <1>1, <1>2, <1>4

\* A preference put into memory does so.
LEMMA MemoryPutPref ==
    ASSUME NEW m, MemoryOK(m), NEW k \in Keys, NEW v \in Known[k]
    PROVE  /\ MemoryOK(PutPref(m, k, v))
           /\ PutPref(m, k, v).pref = [m.pref EXCEPT ![k] = v]
           /\ PutPref(m, k, v).slot = m.slot /\ PutPref(m, k, v).safe = m.safe
           /\ PutPref(m, k, v).active = m.active
  <1> DEFINE g == [m EXCEPT !.pref = [m.pref EXCEPT ![k] = v]]
             h == [m.pref EXCEPT ![k] = v]
  <1>1. PutPref(m, k, v) = g
    BY DEF PutPref
  <1>2. g = [slot |-> m.slot, pref |-> h, safe |-> m.safe, active |-> m.active]
    BY DEF MemoryOK
  <1> HIDE DEF g
  <1>3. h = [x \in Keys |-> h[x]] /\ \A x \in Keys : h[x] \in Known[x]
    BY DEF MemoryOK
  <1> HIDE DEF h
  <1>4. MemoryOK(g)
    BY <1>2, <1>3 DEF MemoryOK
  <1> QED BY <1>1, <1>2, <1>4 DEF h

\* A safe entry put into memory does so.
LEMMA MemoryPutSafe ==
    ASSUME NEW m, MemoryOK(m), NEW n \in Entries, NEW e \in DOMAIN EntryDoc \cup {None}
    PROVE  /\ MemoryOK(PutSafe(m, n, e))
           /\ PutSafe(m, n, e).safe = [m.safe EXCEPT ![n] = e]
           /\ PutSafe(m, n, e).slot = m.slot /\ PutSafe(m, n, e).pref = m.pref
           /\ PutSafe(m, n, e).active = m.active
  <1> DEFINE g == [m EXCEPT !.safe = [m.safe EXCEPT ![n] = e]]
  <1>1. PutSafe(m, n, e) = g
    BY DEF PutSafe
  <1>2. g = [slot |-> m.slot, pref |-> m.pref, safe |-> [m.safe EXCEPT ![n] = e], active |-> m.active]
    BY DEF MemoryOK
  <1> HIDE DEF g
  <1>3. [m.safe EXCEPT ![n] = e] \in [Entries -> DOMAIN EntryDoc \cup {None}]
    BY DEF MemoryOK
  <1>4. MemoryOK(g)
    BY <1>2, <1>3 DEF MemoryOK
  <1> QED BY <1>1, <1>2, <1>4

\* The active slot put into memory does so.
LEMMA MemoryPutActive ==
    ASSUME NEW m, MemoryOK(m), NEW s \in ModeSlots
    PROVE  /\ MemoryOK(PutActive(m, s))
           /\ PutActive(m, s).active = s
           /\ PutActive(m, s).slot = m.slot /\ PutActive(m, s).pref = m.pref
           /\ PutActive(m, s).safe = m.safe
  <1> DEFINE g == [m EXCEPT !.active = s]
  <1>1. PutActive(m, s) = g
    BY DEF PutActive
  <1>2. g = [slot |-> m.slot, pref |-> m.pref, safe |-> m.safe, active |-> s]
    BY DEF MemoryOK
  <1> HIDE DEF g
  <1>3. MemoryOK(g)
    BY <1>2 DEF MemoryOK
  <1> QED BY <1>1, <1>2, <1>3

\* A region of flash erased.
LEMMA FlashErased ==
    ASSUME InFlash(nvs), NEW h \in Regions
    PROVE  /\ InFlash(ErasedBy(h)) /\ Part(ErasedBy(h), h)
           /\ \A r \in Regions : Part(nvs, r) => Part(ErasedBy(h), r)
  <1>1. InFlash(Erased)
    BY ErasedInFlash
  <1>2. CASE h = "prefs"
    <2>1. ErasedBy(h) = [nvs EXCEPT !.pref = Erased.pref]
      BY <1>2 DEF ErasedBy
    <2>2. ErasedBy(h) = [profile |-> nvs.profile, slot |-> nvs.slot, pref |-> Erased.pref,
                         safe |-> nvs.safe, active |-> nvs.active]
      BY <2>1 DEF InFlash
    <2>3. InFlash(ErasedBy(h))
      BY <1>1, <2>2 DEF InFlash
    <2> QED BY <1>2, <2>2, <2>3 DEF Part, Regions
  <1>3. CASE h = "profiles"
    <2>1. ErasedBy(h) = [nvs EXCEPT !.profile = Erased.profile]
      BY <1>3 DEF ErasedBy
    <2>2. ErasedBy(h) = [profile |-> Erased.profile, slot |-> nvs.slot, pref |-> nvs.pref,
                         safe |-> nvs.safe, active |-> nvs.active]
      BY <2>1 DEF InFlash
    <2>3. InFlash(ErasedBy(h))
      BY <1>1, <2>2 DEF InFlash
    <2> QED BY <1>3, <2>2, <2>3 DEF Part, Regions
  <1>4. CASE h = "engine"
    <2> DEFINE f == [nvs EXCEPT !.slot = Erased.slot]
    <2>1. ErasedBy(h) = [f EXCEPT !.active = Erased.active]
      BY <1>4 DEF ErasedBy
    <2>2. f = [profile |-> nvs.profile, slot |-> Erased.slot, pref |-> nvs.pref,
               safe |-> nvs.safe, active |-> nvs.active]
      BY DEF InFlash
    <2> HIDE DEF f
    <2>3. ErasedBy(h) = [profile |-> nvs.profile, slot |-> Erased.slot, pref |-> nvs.pref,
                         safe |-> nvs.safe, active |-> Erased.active]
      BY <2>1, <2>2
    <2>4. InFlash(ErasedBy(h))
      BY <1>1, <2>3 DEF InFlash
    <2> QED BY <1>4, <2>3, <2>4 DEF Part, Regions
  <1>5. CASE h = "safe"
    <2>1. ErasedBy(h) = [nvs EXCEPT !.safe = Erased.safe]
      BY <1>5 DEF ErasedBy
    <2>2. ErasedBy(h) = [profile |-> nvs.profile, slot |-> nvs.slot, pref |-> nvs.pref,
                         safe |-> Erased.safe, active |-> nvs.active]
      BY <2>1 DEF InFlash
    <2>3. InFlash(ErasedBy(h))
      BY <1>1, <2>2 DEF InFlash
    <2> QED BY <1>5, <2>2, <2>3 DEF Part, Regions
  <1> QED BY <1>2, <1>3, <1>4, <1>5 DEF Regions

\* Flash whose regions are all erased is erased.
LEMMA AllErased ==
    ASSUME InFlash(nvs), \A h \in Regions : Part(nvs, h)
    PROVE  nvs = Erased
  <1>1. /\ nvs.pref = Erased.pref /\ nvs.profile = Erased.profile /\ nvs.slot = Erased.slot
        /\ nvs.active = Erased.active /\ nvs.safe = Erased.safe
    BY DEF Part, Regions
  <1>2. Erased = [profile |-> Erased.profile, slot |-> Erased.slot, pref |-> Erased.pref,
                  safe |-> Erased.safe, active |-> Erased.active]
    BY DEF Erased
  <1> QED BY <1>1, <1>2 DEF InFlash

-----------------------------------------------------------------------------
(* What each step of an item does.                                         *)

\* Flash, memory and the buzzer's copy are well formed.
Types == /\ InFlash(nvs) /\ MemoryOK(ram) /\ DOMAIN buzzer = Cached
         /\ recovery \in BOOLEAN /\ restarting \in BOOLEAN
         /\ events \in 0 .. MaxEvents

\* What every step within an item leaves as it is, and what it keeps well formed.
Steady == /\ recovery' = recovery /\ tokens' = tokens /\ backup' = backup
          /\ restarting' = restarting /\ last' = last
          /\ doubtful \subseteq doubtful'
          /\ InFlash(nvs') /\ MemoryOK(ram') /\ DOMAIN buzzer' = Cached /\ events' \in 0 .. MaxEvents

\* A step that leaves flash, or memory, as it is.
SameFlash == nvs' = nvs
SameMemory == ram' = ram /\ buzzer' = buzzer

\* Failures stay within their bound.
LEMMA EventsCount ==
    ASSUME Types, NEW t,
           events' = events \/ Fails(t)
    PROVE  events' \in 0 .. MaxEvents
  <1>1. MaxEvents \in Nat
    BY ConfigurationAssumption
  <1> QED BY <1>1 DEF Types, Fails, Happens

\* A profile is written, or refused for its length, or its write fails; the item is done.
LEMMA StoreProfileDoes ==
    ASSUME Types, Jobs, NEW t \in Workers, StoreProfile(t)
    PROVE  /\ Steady /\ SameMemory /\ Item(t, "profile") /\ job[t].at = "next"
           /\ Becomes(t, Through(job[t])) /\ JobOK(Through(job[t]))
           /\ nvs'.slot = nvs.slot /\ nvs'.pref = nvs.pref /\ nvs'.safe = nvs.safe /\ nvs'.active = nvs.active
           /\ \/ nvs'.profile = [nvs.profile EXCEPT ![Key(t)] = Value(t)]
              \/ nvs' = nvs /\ What(t) \in doubtful'
              \/ nvs' = nvs /\ Value(t) # None /\ ProfileDoc[Value(t)].size > SD_PROFILE_JSON_MAX
  <1>1. Item(t, "profile") /\ job[t].at = "next" /\ Done(t)
    BY DEF StoreProfile, At
  <1>2. Key(t) \in Ids /\ Value(t) \in DOMAIN ProfileDoc \cup {None} /\ JobOK(job[t]) /\ job[t].todo # <<>>
    BY <1>1, AtItem
  <1>3. Becomes(t, Through(job[t])) /\ JobOK(Through(job[t]))
    BY <1>1, <1>2, DoneBecomes, JobThrough
  <1>4. ram' = ram /\ buzzer' = buzzer /\ recovery' = recovery /\ tokens' = tokens /\ backup' = backup
        /\ restarting' = restarting /\ last' = last /\ doubtful \subseteq doubtful'
    BY DEF StoreProfile, Others, Writes, Fails
  <1>5. events' = events \/ Fails(t)
    BY DEF StoreProfile, Writes
  <1>6. \/ nvs' = PutProfile(nvs, Key(t), Value(t))
        \/ nvs' = nvs /\ What(t) \in doubtful'
        \/ nvs' = nvs /\ Value(t) # None /\ ProfileDoc[Value(t)].size > SD_PROFILE_JSON_MAX
    BY DEF StoreProfile, Writes, Fails, PutProfile
  <1>7. events' \in 0 .. MaxEvents
    BY <1>5, EventsCount
  <1>8. /\ InFlash(PutProfile(nvs, Key(t), Value(t)))
        /\ PutProfile(nvs, Key(t), Value(t)).profile = [nvs.profile EXCEPT ![Key(t)] = Value(t)]
        /\ PutProfile(nvs, Key(t), Value(t)).slot = nvs.slot /\ PutProfile(nvs, Key(t), Value(t)).pref = nvs.pref
        /\ PutProfile(nvs, Key(t), Value(t)).safe = nvs.safe /\ PutProfile(nvs, Key(t), Value(t)).active = nvs.active
    BY <1>2, FlashPutProfile DEF Types
  <1>9. /\ nvs'.slot = nvs.slot /\ nvs'.pref = nvs.pref /\ nvs'.safe = nvs.safe /\ nvs'.active = nvs.active
        /\ InFlash(nvs')
    BY <1>6, <1>8 DEF Types
  <1>10. \/ nvs'.profile = [nvs.profile EXCEPT ![Key(t)] = Value(t)]
         \/ nvs' = nvs /\ What(t) \in doubtful'
         \/ nvs' = nvs /\ Value(t) # None /\ ProfileDoc[Value(t)].size > SD_PROFILE_JSON_MAX
    BY <1>6, <1>8
  <1> QED BY <1>1, <1>3, <1>4, <1>7, <1>9, <1>10 DEF Steady, SameMemory, Types

\* A binding is written or its write fails; a failed write and a recovery boot end the item,
\* otherwise the slot is to be loaded.
LEMMA StoreSlotDoes ==
    ASSUME Types, Jobs, NEW t \in Workers, StoreSlot(t)
    PROVE  /\ Steady /\ SameMemory /\ Item(t, "slot") /\ job[t].at = "next" /\ Disturbed(t) \subseteq doubtful'
           /\ nvs'.profile = nvs.profile /\ nvs'.pref = nvs.pref /\ nvs'.safe = nvs.safe /\ nvs'.active = nvs.active
           /\ \/ nvs'.slot = [nvs.slot EXCEPT ![Key(t)] = Value(t)]
              \/ nvs' = nvs /\ What(t) \in doubtful'
           /\ \/ Becomes(t, Through(job[t])) /\ JobOK(Through(job[t])) /\ (recovery \/ What(t) \in doubtful')
              \/ /\ Becomes(t, With(job[t], job[t].todo, "load", job[t].seen))
                 /\ JobOK(With(job[t], job[t].todo, "load", job[t].seen))
  <1>1. Item(t, "slot") /\ job[t].at = "next" /\ ((Done(t) /\ (recovery \/ What(t) \in doubtful')) \/ Go(t, "load"))
    BY DEF StoreSlot, At, Fails
  <1>2. /\ Key(t) \in ModeSlots /\ Value(t) \in DOMAIN BindingDoc \cup {None} /\ JobOK(job[t]) /\ job[t].todo # <<>>
        /\ Head(job[t].todo) = <<"slot", Key(t), Value(t)>>
    BY <1>1, AtItem
  <1>3. \/ Becomes(t, Through(job[t])) /\ JobOK(Through(job[t])) /\ (recovery \/ What(t) \in doubtful')
        \/ /\ Becomes(t, With(job[t], job[t].todo, "load", job[t].seen))
           /\ JobOK(With(job[t], job[t].todo, "load", job[t].seen))
    <2>1. Within(Head(job[t].todo), "load")
      BY <1>2 DEF Within
    <2>2. CASE Done(t) /\ (recovery \/ What(t) \in doubtful')
      BY <2>2, <1>2, DoneBecomes, JobThrough
    <2>3. CASE Go(t, "load")
      BY <2>1, <2>3, <1>2, GoBecomes, JobGoes
    <2> QED BY <1>1, <2>2, <2>3
  <1>4. ram' = ram /\ buzzer' = buzzer /\ recovery' = recovery /\ tokens' = tokens /\ backup' = backup
        /\ restarting' = restarting /\ last' = last /\ doubtful \subseteq doubtful'
        /\ Disturbed(t) \subseteq doubtful'
    BY DEF StoreSlot, Others, Writes, Fails
  <1>5. events' = events \/ Fails(t)
    BY DEF StoreSlot, Writes
  <1>6. nvs' = PutSlot(nvs, Key(t), Value(t)) \/ (nvs' = nvs /\ What(t) \in doubtful')
    BY DEF StoreSlot, Writes, Fails, PutSlot
  <1>7. events' \in 0 .. MaxEvents
    BY <1>5, EventsCount
  <1>8. /\ InFlash(PutSlot(nvs, Key(t), Value(t)))
        /\ PutSlot(nvs, Key(t), Value(t)).slot = [nvs.slot EXCEPT ![Key(t)] = Value(t)]
        /\ PutSlot(nvs, Key(t), Value(t)).profile = nvs.profile /\ PutSlot(nvs, Key(t), Value(t)).pref = nvs.pref
        /\ PutSlot(nvs, Key(t), Value(t)).safe = nvs.safe /\ PutSlot(nvs, Key(t), Value(t)).active = nvs.active
    BY <1>2, FlashPutSlot DEF Types
  <1>9. /\ nvs'.profile = nvs.profile /\ nvs'.pref = nvs.pref /\ nvs'.safe = nvs.safe /\ nvs'.active = nvs.active
        /\ InFlash(nvs')
        /\ nvs'.slot = [nvs.slot EXCEPT ![Key(t)] = Value(t)] \/ (nvs' = nvs /\ What(t) \in doubtful')
    BY <1>6, <1>8 DEF Types
  <1> QED BY <1>1, <1>3, <1>4, <1>7, <1>9 DEF Steady, SameMemory, Types

\* The slot is loaded from flash; a removal that was already checked is doubtful from then on.
LEMMA LoadSlotDoes ==
    ASSUME Types, Jobs, NEW t \in Workers, LoadSlot(t)
    PROVE  /\ Steady /\ SameFlash /\ Item(t, "slot") /\ job[t].at = "load" /\ buzzer' = buzzer
           /\ Becomes(t, Through(job[t])) /\ JobOK(Through(job[t]))
           /\ ram'.pref = ram.pref /\ ram'.safe = ram.safe /\ ram'.active = ram.active
           /\ ram'.slot = [ram.slot EXCEPT ![Key(t)] = IF Value(t) = None THEN EmptySlot ELSE SlotLoaded(nvs, Key(t))]
           /\ \A u \in Workers : At(u, "profile", "next") /\ Value(u) = None => What(u) \in doubtful'
  <1>1. Item(t, "slot") /\ job[t].at = "load" /\ Done(t)
    BY DEF LoadSlot, At
  <1>2. Key(t) \in ModeSlots /\ JobOK(job[t]) /\ job[t].todo # <<>>
    BY <1>1, AtItem
  <1>3. Becomes(t, Through(job[t])) /\ JobOK(Through(job[t]))
    BY <1>1, <1>2, DoneBecomes, JobThrough
  <1> DEFINE v == IF Value(t) = None THEN EmptySlot ELSE SlotLoaded(nvs, Key(t))
  <1>4. nvs' = nvs /\ events' = events /\ buzzer' = buzzer /\ recovery' = recovery /\ tokens' = tokens
        /\ backup' = backup /\ restarting' = restarting /\ last' = last /\ doubtful \subseteq doubtful'
        /\ ram' = PutSlot(ram, Key(t), v)
    BY DEF LoadSlot, Others, NoWrite, PutSlot
  <1>5. v \in SlotType
    <2>1. EmptySlot \in SlotType
      BY DEF EmptySlot, SlotType
    <2> QED BY <1>2, <2>1, SlotBinding DEF Types
  <1>6. \A u \in Workers : At(u, "profile", "next") /\ Value(u) = None => What(u) \in doubtful'
    BY DEF LoadSlot
  <1> HIDE DEF v
  <1>7. /\ MemoryOK(PutSlot(ram, Key(t), v))
        /\ PutSlot(ram, Key(t), v).slot = [ram.slot EXCEPT ![Key(t)] = v]
        /\ PutSlot(ram, Key(t), v).pref = ram.pref /\ PutSlot(ram, Key(t), v).safe = ram.safe
        /\ PutSlot(ram, Key(t), v).active = ram.active
    BY <1>2, <1>5, MemoryPutSlot DEF Types
  <1>8. /\ ram'.pref = ram.pref /\ ram'.safe = ram.safe /\ ram'.active = ram.active
        /\ ram'.slot = [ram.slot EXCEPT ![Key(t)] = v] /\ MemoryOK(ram')
    BY <1>4, <1>7
  <1> QED BY <1>1, <1>3, <1>4, <1>6, <1>8 DEF Steady, SameFlash, Types, v

\* A preference is in memory, and to be saved.
LEMMA HoldPrefDoes ==
    ASSUME Types, Jobs, NEW t \in Workers, HoldPref(t)
    PROVE  /\ Steady /\ SameFlash /\ Item(t, "pref") /\ job[t].at = "next" /\ buzzer' = buzzer
           /\ Disturbed(t) \subseteq doubtful'
           /\ Becomes(t, With(job[t], job[t].todo, "save", job[t].seen))
           /\ JobOK(With(job[t], job[t].todo, "save", job[t].seen))
           /\ ram'.slot = ram.slot /\ ram'.safe = ram.safe /\ ram'.active = ram.active
           /\ ram'.pref = [ram.pref EXCEPT ![Key(t)] = Value(t)]
  <1>1. Item(t, "pref") /\ job[t].at = "next" /\ Go(t, "save")
    BY DEF HoldPref, At
  <1>2. /\ Key(t) \in Keys /\ Value(t) \in Known[Key(t)] /\ JobOK(job[t]) /\ job[t].todo # <<>>
        /\ Head(job[t].todo) = <<"pref", Key(t), Value(t)>>
    BY <1>1, AtItem
  <1>3. Becomes(t, With(job[t], job[t].todo, "save", job[t].seen))
        /\ JobOK(With(job[t], job[t].todo, "save", job[t].seen))
    <2>1. Within(Head(job[t].todo), "save")
      BY <1>2 DEF Within
    <2> QED BY <2>1, <1>1, <1>2, GoBecomes, JobGoes
  <1>4. nvs' = nvs /\ events' = events /\ buzzer' = buzzer /\ recovery' = recovery /\ tokens' = tokens
        /\ backup' = backup /\ restarting' = restarting /\ last' = last /\ doubtful \subseteq doubtful'
        /\ Disturbed(t) \subseteq doubtful' /\ ram' = PutPref(ram, Key(t), Value(t))
    BY DEF HoldPref, Others, NoWrite, PutPref
  <1>5. /\ MemoryOK(PutPref(ram, Key(t), Value(t)))
        /\ PutPref(ram, Key(t), Value(t)).pref = [ram.pref EXCEPT ![Key(t)] = Value(t)]
        /\ PutPref(ram, Key(t), Value(t)).slot = ram.slot /\ PutPref(ram, Key(t), Value(t)).safe = ram.safe
        /\ PutPref(ram, Key(t), Value(t)).active = ram.active
    BY <1>2, MemoryPutPref DEF Types
  <1>6. /\ ram'.slot = ram.slot /\ ram'.safe = ram.safe /\ ram'.active = ram.active
        /\ ram'.pref = [ram.pref EXCEPT ![Key(t)] = Value(t)] /\ MemoryOK(ram')
    BY <1>4, <1>5
  <1> QED BY <1>1, <1>3, <1>4, <1>6 DEF Steady, SameFlash, Types

\* A preference is written or its write fails; one that the buzzer copies is to be read.
LEMMA SavePrefDoes ==
    ASSUME Types, Jobs, NEW t \in Workers, SavePref(t)
    PROVE  /\ Steady /\ SameMemory /\ Item(t, "pref") /\ job[t].at = "save"
           /\ nvs'.profile = nvs.profile /\ nvs'.slot = nvs.slot /\ nvs'.safe = nvs.safe /\ nvs'.active = nvs.active
           /\ \/ nvs'.pref = [nvs.pref EXCEPT ![Key(t)] = Value(t)]
              \/ nvs' = nvs /\ What(t) \in doubtful'
           /\ \/ Becomes(t, Through(job[t])) /\ JobOK(Through(job[t])) /\ Key(t) \notin Cached
              \/ /\ Becomes(t, With(job[t], job[t].todo, "read", job[t].seen)) /\ Key(t) \in Cached
                 /\ JobOK(With(job[t], job[t].todo, "read", job[t].seen))
  <1>1. /\ Item(t, "pref") /\ job[t].at = "save"
        /\ (Done(t) /\ Key(t) \notin Cached) \/ (Go(t, "read") /\ Key(t) \in Cached)
    BY DEF SavePref, At
  <1>2. /\ Key(t) \in Keys /\ Value(t) \in Known[Key(t)] /\ JobOK(job[t]) /\ job[t].todo # <<>>
        /\ Head(job[t].todo) = <<"pref", Key(t), Value(t)>>
    BY <1>1, AtItem
  <1>3. \/ Becomes(t, Through(job[t])) /\ JobOK(Through(job[t])) /\ Key(t) \notin Cached
        \/ /\ Becomes(t, With(job[t], job[t].todo, "read", job[t].seen)) /\ Key(t) \in Cached
           /\ JobOK(With(job[t], job[t].todo, "read", job[t].seen))
    <2>1. Within(Head(job[t].todo), "read") /\ Head(job[t].todo)[2] = Key(t)
      BY <1>2 DEF Within
    <2>2. CASE Done(t) /\ Key(t) \notin Cached
      BY <2>2, <1>2, DoneBecomes, JobThrough
    <2>3. CASE Go(t, "read") /\ Key(t) \in Cached
      BY <2>1, <2>3, <1>2, GoBecomes, JobGoes
    <2> QED BY <1>1, <2>2, <2>3
  <1>4. ram' = ram /\ buzzer' = buzzer /\ recovery' = recovery /\ tokens' = tokens /\ backup' = backup
        /\ restarting' = restarting /\ last' = last /\ doubtful \subseteq doubtful'
    BY DEF SavePref, Others, Writes, Fails
  <1>5. events' = events \/ Fails(t)
    BY DEF SavePref, Writes
  <1>6. nvs' = PutPref(nvs, Key(t), Value(t)) \/ (nvs' = nvs /\ What(t) \in doubtful')
    BY DEF SavePref, Writes, Fails, PutPref
  <1>7. events' \in 0 .. MaxEvents
    BY <1>5, EventsCount
  <1>8. /\ InFlash(PutPref(nvs, Key(t), Value(t)))
        /\ PutPref(nvs, Key(t), Value(t)).pref = [nvs.pref EXCEPT ![Key(t)] = Value(t)]
        /\ PutPref(nvs, Key(t), Value(t)).profile = nvs.profile /\ PutPref(nvs, Key(t), Value(t)).slot = nvs.slot
        /\ PutPref(nvs, Key(t), Value(t)).safe = nvs.safe /\ PutPref(nvs, Key(t), Value(t)).active = nvs.active
    BY <1>2, FlashPutPref DEF Types
  <1>9. /\ nvs'.profile = nvs.profile /\ nvs'.slot = nvs.slot /\ nvs'.safe = nvs.safe /\ nvs'.active = nvs.active
        /\ InFlash(nvs')
        /\ nvs'.pref = [nvs.pref EXCEPT ![Key(t)] = Value(t)] \/ (nvs' = nvs /\ What(t) \in doubtful')
    BY <1>6, <1>8 DEF Types
  <1> QED BY <1>1, <1>3, <1>4, <1>7, <1>9 DEF Steady, SameMemory, Types

\* A task takes the buzzer's preferences as they are.
LEMMA ReadPrefsDoes ==
    ASSUME Types, Jobs, NEW t \in Workers, ReadPrefs(t)
    PROVE  /\ Steady /\ SameFlash /\ SameMemory /\ Item(t, "pref") /\ job[t].at = "read" /\ Key(t) \in Cached
           /\ Becomes(t, With(job[t], job[t].todo, "cache", CacheOf(ram)))
           /\ JobOK(With(job[t], job[t].todo, "cache", CacheOf(ram)))
  <1>1. Item(t, "pref") /\ job[t].at = "read"
    BY DEF ReadPrefs, At
  <1>2. JobOK(job[t]) /\ job[t].todo # <<>> /\ Head(job[t].todo) = <<"pref", Key(t), Value(t)>>
    BY <1>1, AtItem
  <1>3. Within(Head(job[t].todo), "cache") /\ Key(t) \in Cached /\ Head(job[t].todo)[2] = Key(t)
    BY <1>1, <1>2 DEF Within, JobOK
  <1>4. DOMAIN CacheOf(ram) = Cached
    BY DEF CacheOf
  <1>5. JobOK(With(job[t], job[t].todo, "cache", CacheOf(ram)))
    BY <1>2, <1>3, <1>4, JobGoes
  <1>6. Becomes(t, With(job[t], job[t].todo, "cache", CacheOf(ram)))
    <2>1. IsJob(job[t])
      BY <1>2 DEF JobOK, IsJob
    <2>2. job' = [job EXCEPT ![t] = See(job[t], "cache", CacheOf(ram))]
      BY DEF ReadPrefs, See, Jobs
    <2>3. See(job[t], "cache", CacheOf(ram)) = With(job[t], job[t].todo, "cache", CacheOf(ram))
      BY <2>1, JobsChange
    <2> QED BY <2>2, <2>3 DEF Becomes, Jobs
  <1>7. nvs' = nvs /\ ram' = ram /\ events' = events /\ buzzer' = buzzer /\ recovery' = recovery /\ tokens' = tokens
        /\ backup' = backup /\ restarting' = restarting /\ last' = last /\ doubtful' = doubtful
    BY DEF ReadPrefs, Others, NoWrite
  <1> QED BY <1>1, <1>3, <1>5, <1>6, <1>7 DEF Steady, SameFlash, SameMemory, Types

\* It leaves with the buzzer what it took.
LEMMA CachePrefsDoes ==
    ASSUME Types, Jobs, NEW t \in Workers, CachePrefs(t)
    PROVE  /\ Steady /\ SameFlash /\ ram' = ram /\ buzzer' = job[t].seen /\ Item(t, "pref") /\ job[t].at = "cache"
           /\ Becomes(t, Through(job[t])) /\ JobOK(Through(job[t]))
  <1>1. Item(t, "pref") /\ job[t].at = "cache" /\ Done(t)
    BY DEF CachePrefs, At
  <1>2. JobOK(job[t]) /\ job[t].todo # <<>>
    BY <1>1, AtItem
  <1>3. Becomes(t, Through(job[t])) /\ JobOK(Through(job[t])) /\ DOMAIN job[t].seen = Cached
    <2>1. DOMAIN job[t].seen = Cached
      BY <1>1, <1>2 DEF JobOK
    <2> QED BY <1>1, <1>2, <2>1, DoneBecomes, JobThrough
  <1>4. nvs' = nvs /\ ram' = ram /\ events' = events /\ buzzer' = job[t].seen /\ recovery' = recovery /\ tokens' = tokens
        /\ backup' = backup /\ restarting' = restarting /\ last' = last /\ doubtful' = doubtful
    BY DEF CachePrefs, Others, NoWrite
  <1> QED BY <1>1, <1>3, <1>4 DEF Steady, SameFlash, Types

\* A safe entry is written, and to be held, or its write fails and the item is done.
LEMMA StoreSafeDoes ==
    ASSUME Types, Jobs, NEW t \in Workers, StoreSafe(t)
    PROVE  /\ Steady /\ SameMemory /\ Item(t, "safe") /\ job[t].at = "next" /\ Disturbed(t) \subseteq doubtful'
           /\ nvs'.profile = nvs.profile /\ nvs'.slot = nvs.slot /\ nvs'.pref = nvs.pref /\ nvs'.active = nvs.active
           /\ \/ nvs'.safe = [nvs.safe EXCEPT ![Key(t)] = Value(t)]
              \/ nvs' = nvs /\ What(t) \in doubtful'
           /\ \/ Becomes(t, Through(job[t])) /\ JobOK(Through(job[t])) /\ What(t) \in doubtful'
              \/ /\ Becomes(t, With(job[t], job[t].todo, "hold", job[t].seen))
                 /\ JobOK(With(job[t], job[t].todo, "hold", job[t].seen))
  <1>1. Item(t, "safe") /\ job[t].at = "next" /\ ((Done(t) /\ What(t) \in doubtful') \/ Go(t, "hold"))
    BY DEF StoreSafe, At, Fails
  <1>2. /\ Key(t) \in Entries /\ Value(t) \in DOMAIN EntryDoc \cup {None} /\ JobOK(job[t]) /\ job[t].todo # <<>>
        /\ Head(job[t].todo) = <<"safe", Key(t), Value(t)>>
    BY <1>1, AtItem
  <1>3. \/ Becomes(t, Through(job[t])) /\ JobOK(Through(job[t])) /\ What(t) \in doubtful'
        \/ /\ Becomes(t, With(job[t], job[t].todo, "hold", job[t].seen))
           /\ JobOK(With(job[t], job[t].todo, "hold", job[t].seen))
    <2>1. Within(Head(job[t].todo), "hold")
      BY <1>2 DEF Within
    <2>2. CASE Done(t) /\ What(t) \in doubtful'
      BY <2>2, <1>2, DoneBecomes, JobThrough
    <2>3. CASE Go(t, "hold")
      BY <2>1, <2>3, <1>2, GoBecomes, JobGoes
    <2> QED BY <1>1, <2>2, <2>3
  <1>4. ram' = ram /\ buzzer' = buzzer /\ recovery' = recovery /\ tokens' = tokens /\ backup' = backup
        /\ restarting' = restarting /\ last' = last /\ doubtful \subseteq doubtful'
        /\ Disturbed(t) \subseteq doubtful'
    BY DEF StoreSafe, Others, Writes, Fails
  <1>5. events' = events \/ Fails(t)
    BY DEF StoreSafe, Writes
  <1>6. nvs' = PutSafe(nvs, Key(t), Value(t)) \/ (nvs' = nvs /\ What(t) \in doubtful')
    BY DEF StoreSafe, Writes, Fails, PutSafe
  <1>7. events' \in 0 .. MaxEvents
    BY <1>5, EventsCount
  <1>8. /\ InFlash(PutSafe(nvs, Key(t), Value(t)))
        /\ PutSafe(nvs, Key(t), Value(t)).safe = [nvs.safe EXCEPT ![Key(t)] = Value(t)]
        /\ PutSafe(nvs, Key(t), Value(t)).profile = nvs.profile /\ PutSafe(nvs, Key(t), Value(t)).slot = nvs.slot
        /\ PutSafe(nvs, Key(t), Value(t)).pref = nvs.pref /\ PutSafe(nvs, Key(t), Value(t)).active = nvs.active
    BY <1>2, FlashPutSafe DEF Types
  <1>9. /\ nvs'.profile = nvs.profile /\ nvs'.slot = nvs.slot /\ nvs'.pref = nvs.pref /\ nvs'.active = nvs.active
        /\ InFlash(nvs')
        /\ nvs'.safe = [nvs.safe EXCEPT ![Key(t)] = Value(t)] \/ (nvs' = nvs /\ What(t) \in doubtful')
    BY <1>6, <1>8 DEF Types
  <1> QED BY <1>1, <1>3, <1>4, <1>7, <1>9 DEF Steady, SameMemory, Types

\* The entry is held in memory.
LEMMA HoldSafeDoes ==
    ASSUME Types, Jobs, NEW t \in Workers, HoldSafe(t)
    PROVE  /\ Steady /\ SameFlash /\ Item(t, "safe") /\ job[t].at = "hold" /\ buzzer' = buzzer
           /\ Becomes(t, Through(job[t])) /\ JobOK(Through(job[t]))
           /\ ram'.slot = ram.slot /\ ram'.pref = ram.pref /\ ram'.active = ram.active
           /\ ram'.safe = [ram.safe EXCEPT ![Key(t)] = Value(t)]
  <1>1. Item(t, "safe") /\ job[t].at = "hold" /\ Done(t)
    BY DEF HoldSafe, At
  <1>2. Key(t) \in Entries /\ Value(t) \in DOMAIN EntryDoc \cup {None} /\ JobOK(job[t]) /\ job[t].todo # <<>>
    BY <1>1, AtItem
  <1>3. Becomes(t, Through(job[t])) /\ JobOK(Through(job[t]))
    BY <1>1, <1>2, DoneBecomes, JobThrough
  <1>4. nvs' = nvs /\ events' = events /\ buzzer' = buzzer /\ recovery' = recovery /\ tokens' = tokens
        /\ backup' = backup /\ restarting' = restarting /\ last' = last /\ doubtful' = doubtful
        /\ ram' = PutSafe(ram, Key(t), Value(t))
    BY DEF HoldSafe, Others, NoWrite, PutSafe
  <1>5. /\ MemoryOK(PutSafe(ram, Key(t), Value(t)))
        /\ PutSafe(ram, Key(t), Value(t)).safe = [ram.safe EXCEPT ![Key(t)] = Value(t)]
        /\ PutSafe(ram, Key(t), Value(t)).slot = ram.slot /\ PutSafe(ram, Key(t), Value(t)).pref = ram.pref
        /\ PutSafe(ram, Key(t), Value(t)).active = ram.active
    BY <1>2, MemoryPutSafe DEF Types
  <1>6. /\ ram'.slot = ram.slot /\ ram'.pref = ram.pref /\ ram'.active = ram.active
        /\ ram'.safe = [ram.safe EXCEPT ![Key(t)] = Value(t)] /\ MemoryOK(ram')
    BY <1>4, <1>5
  <1> QED BY <1>1, <1>3, <1>4, <1>6 DEF Steady, SameFlash, Types

\* The active slot is set in memory, and written unless it was active already.
LEMMA SetActiveDoes ==
    ASSUME Types, Jobs, NEW t \in Workers, SetActive(t)
    PROVE  /\ Steady /\ Item(t, "active") /\ job[t].at = "next" /\ buzzer' = buzzer
           /\ Becomes(t, Through(job[t])) /\ JobOK(Through(job[t]))
           /\ ram'.slot = ram.slot /\ ram'.pref = ram.pref /\ ram'.safe = ram.safe /\ ram'.active = Value(t)
           /\ nvs'.profile = nvs.profile /\ nvs'.slot = nvs.slot /\ nvs'.pref = nvs.pref /\ nvs'.safe = nvs.safe
           /\ \/ nvs'.active = Value(t)
              \/ nvs' = nvs /\ ram.active = Value(t)
              \/ nvs' = nvs /\ What(t) \in doubtful'
  <1>1. Item(t, "active") /\ job[t].at = "next" /\ Done(t)
    BY DEF SetActive, At
  <1>2. Value(t) \in ModeSlots /\ JobOK(job[t]) /\ job[t].todo # <<>>
    BY <1>1, AtItem
  <1>3. Becomes(t, Through(job[t])) /\ JobOK(Through(job[t]))
    BY <1>1, <1>2, DoneBecomes, JobThrough
  <1>4. buzzer' = buzzer /\ recovery' = recovery /\ tokens' = tokens
        /\ backup' = backup /\ restarting' = restarting /\ last' = last /\ doubtful \subseteq doubtful'
        /\ ram' = PutActive(ram, Value(t))
    BY DEF SetActive, Others, PutActive, Writes, Fails
  <1>5. events' = events \/ Fails(t)
    BY DEF SetActive, Writes
  <1>6. events' \in 0 .. MaxEvents
    BY <1>5, EventsCount
  <1>7. \/ nvs' = PutActive(nvs, Value(t))
        \/ nvs' = nvs /\ ram.active = Value(t)
        \/ nvs' = nvs /\ What(t) \in doubtful'
    BY DEF SetActive, Writes, Fails, PutActive
  <1>8. /\ InFlash(PutActive(nvs, Value(t))) /\ PutActive(nvs, Value(t)).active = Value(t)
        /\ PutActive(nvs, Value(t)).profile = nvs.profile /\ PutActive(nvs, Value(t)).slot = nvs.slot
        /\ PutActive(nvs, Value(t)).pref = nvs.pref /\ PutActive(nvs, Value(t)).safe = nvs.safe
    BY <1>2, FlashPutActive DEF Types
  <1>9. /\ MemoryOK(PutActive(ram, Value(t))) /\ PutActive(ram, Value(t)).active = Value(t)
        /\ PutActive(ram, Value(t)).slot = ram.slot /\ PutActive(ram, Value(t)).pref = ram.pref
        /\ PutActive(ram, Value(t)).safe = ram.safe
    BY <1>2, MemoryPutActive DEF Types
  <1>10. /\ ram'.slot = ram.slot /\ ram'.pref = ram.pref /\ ram'.safe = ram.safe /\ ram'.active = Value(t)
         /\ MemoryOK(ram')
    BY <1>4, <1>9
  <1>11. /\ nvs'.profile = nvs.profile /\ nvs'.slot = nvs.slot /\ nvs'.pref = nvs.pref /\ nvs'.safe = nvs.safe
         /\ InFlash(nvs')
         /\ \/ nvs'.active = Value(t)
            \/ nvs' = nvs /\ ram.active = Value(t)
            \/ nvs' = nvs /\ What(t) \in doubtful'
    BY <1>7, <1>8 DEF Types
  <1> QED BY <1>1, <1>3, <1>4, <1>6, <1>10, <1>11 DEF Steady, Types

\* A region of flash is erased or the erase fails.
LEMMA WipeFlashDoes ==
    ASSUME Types, Jobs, NEW t \in Workers, WipeFlash(t)
    PROVE  /\ Steady /\ SameMemory /\ Item(t, "wipe") /\ job[t].at = "next" /\ Key(t) \in Regions
           /\ nvs' = ErasedBy(Key(t)) \/ (nvs' = nvs /\ What(t) \in doubtful')
           /\ \/ Becomes(t, Through(job[t])) /\ JobOK(Through(job[t]))
              \/ /\ Becomes(t, With(job[t], job[t].todo, "forget", job[t].seen))
                 /\ JobOK(With(job[t], job[t].todo, "forget", job[t].seen))
  <1>1. Item(t, "wipe") /\ job[t].at = "next" /\ (Done(t) \/ Go(t, "forget"))
    BY DEF WipeFlash, At
  <1>2. /\ Key(t) \in Regions /\ JobOK(job[t]) /\ job[t].todo # <<>>
        /\ Head(job[t].todo) = <<"wipe", Key(t), Value(t)>>
    BY <1>1, AtItem
  <1>3. \/ Becomes(t, Through(job[t])) /\ JobOK(Through(job[t]))
        \/ /\ Becomes(t, With(job[t], job[t].todo, "forget", job[t].seen))
           /\ JobOK(With(job[t], job[t].todo, "forget", job[t].seen))
    <2>1. Within(Head(job[t].todo), "forget")
      BY <1>2 DEF Within
    <2>2. CASE Done(t)
      BY <2>2, <1>2, DoneBecomes, JobThrough
    <2>3. CASE Go(t, "forget")
      BY <2>1, <2>3, <1>2, GoBecomes, JobGoes
    <2> QED BY <1>1, <2>2, <2>3
  <1>4. ram' = ram /\ buzzer' = buzzer /\ recovery' = recovery /\ tokens' = tokens /\ backup' = backup
        /\ restarting' = restarting /\ last' = last /\ doubtful \subseteq doubtful'
    BY DEF WipeFlash, Others, Writes, Fails
  <1>5. events' = events \/ Fails(t)
    BY DEF WipeFlash, Writes
  <1>6. nvs' = ErasedBy(Key(t)) \/ (nvs' = nvs /\ What(t) \in doubtful')
    BY DEF WipeFlash, Writes, Fails
  <1>7. events' \in 0 .. MaxEvents
    BY <1>5, EventsCount
  <1>8. InFlash(nvs')
    <2>1. InFlash(ErasedBy(Key(t)))
      BY <1>2, FlashErased DEF Types
    <2> QED BY <1>6, <2>1 DEF Types
  <1> QED BY <1>1, <1>2, <1>3, <1>4, <1>6, <1>7, <1>8 DEF Steady, SameMemory, Types

\* The memory that goes with an erased region is emptied.
LEMMA WipeMemoryDoes ==
    ASSUME Types, Jobs, NEW t \in Workers, WipeMemory(t)
    PROVE  /\ Steady /\ SameFlash /\ Item(t, "wipe") /\ job[t].at = "forget" /\ buzzer' = buzzer
           /\ ram'.slot = ram.slot /\ ram'.active = ram.active
           /\ Becomes(t, Through(job[t])) /\ JobOK(Through(job[t]))
  <1>1. Item(t, "wipe") /\ job[t].at = "forget" /\ Done(t)
    BY DEF WipeMemory, At
  <1>2. JobOK(job[t]) /\ job[t].todo # <<>>
    BY <1>1, AtItem
  <1>3. Becomes(t, Through(job[t])) /\ JobOK(Through(job[t]))
    BY <1>1, <1>2, DoneBecomes, JobThrough
  <1>4. nvs' = nvs /\ events' = events /\ buzzer' = buzzer /\ recovery' = recovery /\ tokens' = tokens
        /\ backup' = backup /\ restarting' = restarting /\ last' = last /\ doubtful' = doubtful
        /\ ram' \in {[ram EXCEPT !.pref = Default], [ram EXCEPT !.safe = [n \in Entries |-> None]]}
    BY DEF WipeMemory, Others, NoWrite
  <1>5. \A k \in Keys : Default[k] \in Known[k]
    BY PrefsAssumption
  <1>6. CASE ram' = [ram EXCEPT !.pref = Default]
    <2> DEFINE d == Default
    <2>1. d = [k \in Keys |-> d[k]]
      <3> DEFINE g(k) == CASE k = "gestures" -> TRUE
                           [] k = "buzzer" -> TRUE
                           [] k = "quiet" -> "off"
                           [] k = "tz" -> 0
      <3>1. d = [k \in Keys |-> g(k)]
        BY DEF Default
      <3> HIDE DEF g, d
      <3> QED BY <3>1
    <2> HIDE DEF d
    <2>4. (\A k \in Keys : d[k] \in Known[k]) /\ ram' = [ram EXCEPT !.pref = d]
      BY <1>5, <1>6 DEF d
    <2>2. ram' = [slot |-> ram.slot, pref |-> d, safe |-> ram.safe, active |-> ram.active]
      BY <2>4 DEF MemoryOK, Types
    <2>3. MemoryOK(ram')
      BY <2>1, <2>2, <2>4 DEF MemoryOK, Types
    <2> QED BY <1>1, <1>3, <1>4, <2>2, <2>3 DEF Steady, SameFlash, Types
  <1>7. CASE ram' = [ram EXCEPT !.safe = [n \in Entries |-> None]]
    <2>1. ram' = [slot |-> ram.slot, pref |-> ram.pref, safe |-> [n \in Entries |-> None], active |-> ram.active]
      BY <1>7 DEF MemoryOK, Types
    <2>2. MemoryOK(ram')
      BY <2>1 DEF MemoryOK, Types
    <2> QED BY <1>1, <1>3, <1>4, <2>1, <2>2 DEF Steady, SameFlash, Types
  <1> QED BY <1>4, <1>6, <1>7

\* What an export reads makes a dump with one more section.
LEMMA ExtendedShape ==
    ASSUME Types, NEW d, DumpShape(d), NEW section \in Sections
    PROVE  DumpShape(Extended(d, section))
  <1> DEFINE e == Extended(d, section)
  <1>1. CASE section = "prefs"
    <2> DEFINE d1 == [d EXCEPT !.active = ram.active]
    <2>1. e = [d1 EXCEPT !.prefs = ram.pref]
      BY <1>1 DEF Extended
    <2>2. d1 = [v |-> d.v, active |-> ram.active, prefs |-> d.prefs, slots |-> d.slots,
                profiles |-> d.profiles, safe |-> d.safe]
      BY DEF DumpShape
    <2> HIDE DEF d1, e
    <2>3. e = [v |-> d.v, active |-> ram.active, prefs |-> ram.pref, slots |-> d.slots,
               profiles |-> d.profiles, safe |-> d.safe]
      BY <2>1, <2>2
    <2>4. DOMAIN ram.pref = Keys /\ IsFiniteSet(Keys)
      BY DocumentsAssumption DEF Types, MemoryOK
    <2>5. DumpShape(e)
      BY <2>3, <2>4 DEF DumpShape
    <2> QED BY <2>5 DEF e
  <1>2. CASE section = "slots"
    <2> DEFINE f == Stored(Bindings)
    <2>1. e = [d EXCEPT !.slots = f]
      BY <1>2 DEF Extended
    <2>2. DOMAIN f \subseteq ModeSlots /\ \A s \in DOMAIN f : f[s] \in DOMAIN BindingDoc
      <3>1. \A s \in ModeSlots : Bindings[s] \in DOMAIN BindingDoc \cup {None}
        BY DEF Bindings, Types, MemoryOK, SlotType
      <3>2. DOMAIN Bindings = ModeSlots
        BY DEF Bindings
      <3> QED BY <3>1, <3>2 DEF Stored
    <2>3. IsFiniteSet(ModeSlots)
      BY LimitsAssumption, FS_Interval DEF ModeSlots
    <2>4. IsFiniteSet(DOMAIN f)
      BY <2>2, <2>3, FS_Subset
    <2> HIDE DEF f, e
    <2>5. e = [v |-> d.v, active |-> d.active, prefs |-> d.prefs, slots |-> f,
               profiles |-> d.profiles, safe |-> d.safe]
      BY <2>1 DEF DumpShape
    <2>6. DumpShape(e)
      BY <2>2, <2>4, <2>5 DEF DumpShape
    <2> QED BY <2>6 DEF e
  <1>3. CASE section = "profiles"
    <2> DEFINE f == Stored(nvs.profile)
    <2>1. e = [d EXCEPT !.profiles = f]
      BY <1>3 DEF Extended
    <2>2. DOMAIN f \subseteq Ids /\ \A i \in DOMAIN f : f[i] \in DOMAIN ProfileDoc
      BY DEF Stored, Types, InFlash
    <2>3. IsFiniteSet(Ids)
      BY DocumentsAssumption
    <2>4. IsFiniteSet(DOMAIN f)
      BY <2>2, <2>3, FS_Subset
    <2> HIDE DEF f, e
    <2>5. e = [v |-> d.v, active |-> d.active, prefs |-> d.prefs, slots |-> d.slots,
               profiles |-> f, safe |-> d.safe]
      BY <2>1 DEF DumpShape
    <2>6. DumpShape(e)
      BY <2>2, <2>4, <2>5 DEF DumpShape
    <2> QED BY <2>6 DEF e
  <1> QED BY <1>1, <1>2, <1>3 DEF Sections

\* An export's job with one more section in its dump.
More(j, d) == [op |-> j.op, todo |-> Tail(j.todo), at |-> j.at, dump |-> d, seen |-> j.seen, alone |-> j.alone]

\* An export reads a section and changes nothing else.
LEMMA ReadSectionDoes ==
    ASSUME Types, Jobs, NEW t \in Workers, ReadSection(t)
    PROVE  /\ Steady /\ SameFlash /\ SameMemory /\ Item(t, "read") /\ job[t].at = "next" /\ doubtful' = doubtful
           /\ Becomes(t, More(job[t], Extended(job[t].dump, Key(t))))
           /\ JobOK(More(job[t], Extended(job[t].dump, Key(t))))
  <1> DEFINE j == job[t]
             d == Extended(job[t].dump, Key(t))
             r == More(j, d)
  <1>1. Item(t, "read") /\ j.at = "next"
    BY DEF ReadSection, At
  <1>2. /\ JobOK(j) /\ j.todo # <<>> /\ j.op = "export" /\ Key(t) \in Sections /\ j.todo \in Seq(Work)
    BY <1>1, AtItem
  <1>3. DumpShape(d)
    BY <1>2, ExtendedShape DEF JobOK
  <1>4. Becomes(t, r)
    <2>1. IsJob(j)
      BY <1>2 DEF JobOK, IsJob
    <2>2. job' = [job EXCEPT ![t] = Collect(j, Tail(j.todo), d)]
      BY DEF ReadSection, Collect, Jobs
    <2>3. Collect(j, Tail(j.todo), d) = r
      BY <2>1, JobsChange DEF More
    <2> QED BY <2>2, <2>3 DEF Becomes, Jobs
  <1>5. r.op = j.op /\ r.todo = Tail(j.todo) /\ r.at = j.at /\ r.dump = d /\ r.seen = j.seen /\ r.alone = j.alone
        /\ r = [op |-> r.op, todo |-> r.todo, at |-> r.at, dump |-> r.dump, seen |-> r.seen, alone |-> r.alone]
    BY DEF More
  <1>6. /\ Tail(j.todo) \in Seq(Work)
        /\ \A i \in DOMAIN Tail(j.todo) : i + 1 \in DOMAIN j.todo /\ Tail(j.todo)[i] = j.todo[i + 1]
    BY <1>2, InTail
  <1>7. nvs' = nvs /\ ram' = ram /\ events' = events /\ buzzer' = buzzer /\ recovery' = recovery /\ tokens' = tokens
        /\ backup' = backup /\ restarting' = restarting /\ last' = last /\ doubtful' = doubtful
    BY DEF ReadSection, Others, NoWrite
  <1> HIDE DEF r, d
  <1>8. \A i \in DOMAIN r.todo : Fits(r.op, r.todo[i])
    BY <1>2, <1>5, <1>6 DEF JobOK
  <1>9. JobOK(r)
    <2>1. j.op \in Ops /\ j.alone \in BOOLEAN
      BY <1>2 DEF JobOK
    <2> QED BY <1>1, <1>2, <1>3, <1>5, <1>6, <1>8, <2>1 DEF JobOK
  <1> QED BY <1>1, <1>4, <1>7, <1>9 DEF Steady, SameFlash, SameMemory, Types, r, d

\* A job that has no item left ends: a restart follows an import, a reset and a restart, and
\* last records an import or a reset that nothing disturbed.
LEMMA FinishDoes ==
    ASSUME Jobs, NEW t \in Workers, Finish(t)
    PROVE  /\ job[t].todo = <<>> /\ job[t].op \in {"command", "export", "import", "reset", "restart"}
           /\ job[t].at = "next" /\ JobOK(job[t])
           /\ Becomes(t, IF job[t].op \in {"reset", "restart"} THEN Blocked ELSE Idle)
           /\ backup' = IF job[t].op = "export" THEN job[t].dump ELSE backup
           /\ restarting' = (restarting \/ job[t].op \in {"import", "reset", "restart"})
           /\ \/ last' = last
              \/ /\ job[t].op \in {"import", "reset"} /\ job[t].alone /\ doubtful = {} /\ ~recovery
                 /\ last' = [op |-> job[t].op, dump |-> job[t].dump]
           /\ nvs' = nvs /\ ram' = ram /\ buzzer' = buzzer /\ recovery' = recovery
           /\ tokens' = tokens /\ events' = events /\ doubtful' = doubtful
  <1>1. JobOK(job[t])
    BY DEF Jobs
  <1>2. job[t].todo = <<>> /\ job[t].op \notin {"none", "blocked"}
    BY DEF Finish
  <1>3. job[t].op \in {"command", "export", "import", "reset", "restart"} /\ job[t].at = "next"
    BY <1>1, <1>2 DEF JobOK, Ops
  <1>4. job' = [job EXCEPT ![t] = IF job[t].op \in {"reset", "restart"} THEN Blocked ELSE Idle]
    BY DEF Finish, Blocked
  <1>5. Becomes(t, IF job[t].op \in {"reset", "restart"} THEN Blocked ELSE Idle)
    BY <1>4 DEF Becomes, Jobs
  <1>6. /\ backup' = IF job[t].op = "export" THEN job[t].dump ELSE backup
        /\ restarting' = (restarting \/ job[t].op \in {"import", "reset", "restart"})
        /\ \/ last' = last
           \/ /\ job[t].op \in {"import", "reset"} /\ job[t].alone /\ doubtful = {} /\ ~recovery
              /\ last' = [op |-> job[t].op, dump |-> job[t].dump]
        /\ nvs' = nvs /\ ram' = ram /\ buzzer' = buzzer /\ recovery' = recovery
        /\ tokens' = tokens /\ events' = events /\ doubtful' = doubtful
    BY DEF Finish
  <1> QED BY <1>1, <1>2, <1>3, <1>5, <1>6

-----------------------------------------------------------------------------
(* Tokens, and what lines start.                                           *)

\* sk_confirm.c: tokens of transports, no more than there are places.
TokensOK == tokens \in Seq(Transports) /\ Len(tokens) <= CONFIRM_SLOTS

\* A token used is gone.
LEMMA TokenUsed == ASSUME TokensOK, NEW t, Consume(t) PROVE TokensOK'
  <1>1. PICK i \in DOMAIN tokens : tokens' = RemoveAt(tokens, i)
    BY DEF Consume
  <1>2. tokens' \in Seq(Transports) /\ Len(tokens') = Len(tokens) - 1
    BY <1>1, RemoveAtShortens DEF TokensOK
  <1>3. Len(tokens) \in Nat /\ CONFIRM_SLOTS \in Nat
    BY ConfigurationAssumption, LenProperties DEF TokensOK
  <1> QED BY <1>2, <1>3 DEF TokensOK

\* A token that expires is gone.
LEMMA TokenExpires == ASSUME TokensOK, tokens # <<>>, tokens' = Tail(tokens) PROVE TokensOK'
  <1>1. tokens' \in Seq(Transports) /\ Len(tokens') = Len(tokens) - 1 /\ Len(tokens) \in Nat
    BY InTail DEF TokensOK
  <1>2. CONFIRM_SLOTS \in Nat
    BY ConfigurationAssumption
  <1> QED BY <1>1, <1>2 DEF TokensOK

\* A token issued takes a place that is free or the oldest one's.
LEMMA TokenIssued == ASSUME TokensOK, NEW t \in Transports, AskConfirm(t) PROVE TokensOK'
  <1> DEFINE q == IF Len(tokens) < CONFIRM_SLOTS THEN tokens ELSE Tail(tokens)
  <1>1. tokens' = Append(q, t)
    BY DEF AskConfirm
  <1>2. Len(tokens) \in Nat /\ CONFIRM_SLOTS \in Nat \ {0}
    BY ConfigurationAssumption, LenProperties DEF TokensOK
  <1>3. q \in Seq(Transports) /\ Len(q) < CONFIRM_SLOTS /\ Len(q) \in Nat
    <2>1. CASE Len(tokens) < CONFIRM_SLOTS
      BY <2>1, <1>2 DEF TokensOK
    <2>2. CASE ~ (Len(tokens) < CONFIRM_SLOTS)
      <3>1. tokens # <<>>
        BY <2>2, <1>2, EmptySeq
      <3>2. Tail(tokens) \in Seq(Transports) /\ Len(Tail(tokens)) = Len(tokens) - 1
        BY <3>1, InTail DEF TokensOK
      <3> QED BY <2>2, <3>2, <1>2 DEF TokensOK
    <2> QED BY <2>1, <2>2
  <1> HIDE DEF q
  <1>4. Append(q, t) \in Seq(Transports) /\ Len(Append(q, t)) = Len(q) + 1
    BY <1>3, AppendProperties
  <1> QED BY <1>1, <1>2, <1>3, <1>4 DEF TokensOK

\* A command let in finds its task free, and may have used a token.
LEMMA AdmittedDoes ==
    ASSUME TokensOK, NEW t, NEW name, Admitted(t, name)
    PROVE  Free(t) /\ TokensOK'
  <1>1. Free(t)
    BY DEF Admitted
  <1>2. tokens' = tokens \/ Consume(t)
    <2> DEFINE g == Asked(t, name, FALSE)
    <2>1. (CASE g = "runs" -> UNCHANGED tokens [] g = "confirm" -> Consume(t) [] OTHER -> FALSE)
      BY DEF Admitted
    <2> HIDE DEF g
    <2> QED BY <2>1
  <1> QED BY <1>1, <1>2, TokenUsed DEF TokensOK

\* A job that begins; a job that is alone or no longer; no loaded slot uses a profile.
New(op, todo, dump, alone) ==
    [op |-> op, todo |-> todo, at |-> "next", dump |-> dump, seen |-> None, alone |-> alone]
Lone(j, b) ==
    [op |-> j.op, todo |-> j.todo, at |-> j.at, dump |-> j.dump, seen |-> j.seen, alone |-> b]
Unloaded(id) == \A s \in ModeSlots : ~ (ram.slot[s].enabled /\ Uses(ram.slot[s].binding, id))

\* A job that begins is well formed, and what its items rest on was checked.
Sound(op, todo, dump) ==
    /\ op \in {"command", "export", "import", "reset", "restart"}
    /\ \A b \in BOOLEAN : JobOK(New(op, todo, dump, b))
    /\ op = "reset" => todo = Wipe
    /\ op = "import" => \A x \in Wanted(dump) : In(x, todo)
    /\ \A i \in DOMAIN todo : todo[i][1] = "profile" /\ todo[i][3] = None => Unloaded(todo[i][2])

\* A task takes up a job, and every other one is alone or not as before.
Starting(t, op, todo, dump) ==
    /\ job[t] = Idle
    /\ Sound(op, todo, dump)
    /\ job' = [u \in Workers |-> IF u = t THEN New(op, todo, dump, \A v \in Workers \ {t} : ~Working(v))
                                 ELSE Lone(job[u], ~Working(u))]
    /\ last' = None /\ events' \in 0 .. MaxEvents
    /\ UNCHANGED <<nvs, ram, buzzer, recovery, backup, restarting, doubtful>>

\* Nothing but tokens changed.
Quiet == UNCHANGED <<nvs, ram, buzzer, recovery, job, backup, restarting, events, doubtful, last>>

\* Begin starts a sound job.
LEMMA BeginDoes ==
    ASSUME Types, Jobs, NEW t \in Workers, Free(t), NEW op, NEW todo, NEW dump,
           Begin(t, op, todo, dump), Sound(op, todo, dump)
    PROVE  Starting(t, op, todo, dump)
  <1>1. job' = [u \in Workers |-> IF u = t THEN New(op, todo, dump, \A v \in Workers \ {t} : ~Working(v))
                                  ELSE [job[u] EXCEPT !.alone = ~Working(u)]]
    BY DEF Begin, New
  <1>2. ASSUME NEW u \in Workers
        PROVE  [job[u] EXCEPT !.alone = ~Working(u)] = Lone(job[u], ~Working(u))
    <2>1. PICK j, b : j = job[u] /\ b = (~Working(u))
      OBVIOUS
    <2>2. IsJob(j)
      BY <2>1 DEF Jobs, JobOK, IsJob
    <2>3. [j EXCEPT !.alone = b] = Lone(j, b)
      BY <2>2 DEF IsJob, Lone
    <2> QED BY <2>1, <2>3
  <1>3. events' \in 0 .. MaxEvents
    <2>1. MaxEvents \in Nat
      BY ConfigurationAssumption
    <2> QED BY <2>1 DEF Begin, Happens, Types
  <1>4. job[t] = Idle
    BY DEF Free
  <1>5. last' = None /\ UNCHANGED <<nvs, ram, buzzer, recovery, backup, restarting, doubtful>>
    BY DEF Begin
  <1> QED BY <1>1, <1>2, <1>3, <1>4, <1>5 DEF Starting

\* A command of one item is sound once its checks passed.
LEMMA CommandSound ==
    ASSUME NEW x \in Work, Fits("command", x), x[1] = "profile" /\ x[3] = None => Unloaded(x[2])
    PROVE  Sound("command", <<x>>, None)
  <1>1. /\ <<x>> \in Seq(Work) /\ Len(<<x>>) = 1 /\ DOMAIN <<x>> = {1} /\ <<x>>[1] = x
    BY SingletonSeq
  <1> DEFINE q == <<x>>
  <1> HIDE DEF q
  <1>2. q \in Seq(Work) /\ Len(q) <= 1 /\ DOMAIN q = {1} /\ q[1] = x
    BY <1>1 DEF q
  <1>3. ASSUME NEW b \in BOOLEAN
        PROVE  JobOK(New("command", q, None, b))
    <2> DEFINE r == New("command", q, None, b)
    <2>1. r.op = "command" /\ r.todo = q /\ r.at = "next" /\ r.dump = None /\ r.seen = None /\ r.alone = b
          /\ r = [op |-> r.op, todo |-> r.todo, at |-> r.at, dump |-> r.dump, seen |-> r.seen, alone |-> r.alone]
      BY DEF New
    <2> HIDE DEF r
    <2>2. "command" \in Ops
      BY DEF Ops
    <2> QED BY <1>2, <2>1, <2>2 DEF JobOK, r
  <1> QED BY <1>2, <1>3 DEF Sound, q

\* A factory reset erases every region (sk_control.c), when its hooks run.
LEMMA WipeSound ==
    /\ Sound("reset", Wipe, None)
    /\ ~recovery => \A h \in Regions : In(<<"wipe", h, None>>, Wipe)
  <1> DEFINE a == <<"prefs", "profiles", "engine">>
             c == IF recovery THEN <<>> ELSE <<"safe">>
             hs == a \o c
  <1>1. a \in Seq(Regions) /\ Len(a) = 3 /\ a[1] = "prefs" /\ a[2] = "profiles" /\ a[3] = "engine"
    BY DEF Regions
  <1>2. c \in Seq(Regions) /\ (~recovery => Len(c) = 1 /\ c[1] = "safe")
    <2>1. <<"safe">> \in Seq(Regions) /\ <<>> \in Seq(Regions) /\ Len(<<"safe">>) = 1 /\ <<"safe">>[1] = "safe"
      BY EmptySeq DEF Regions
    <2> QED BY <2>1
  <1> HIDE DEF a, c
  <1>3. /\ hs \in Seq(Regions) /\ Len(hs) = Len(a) + Len(c)
        /\ \A i \in 1 .. Len(a) + Len(c) : hs[i] = IF i <= Len(a) THEN a[i] ELSE c[i - Len(a)]
    BY <1>1, <1>2, ConcatProperties
  <1> HIDE DEF hs
  <1>4. Len(hs) \in Nat /\ DOMAIN hs = 1 .. Len(hs) /\ \A i \in 1 .. Len(hs) : hs[i] \in Regions
    BY <1>3, LenProperties
  <1>5. Wipe = [i \in 1 .. Len(hs) |-> <<"wipe", hs[i], None>>]
    BY <1>4 DEF Wipe, Handlers, hs, a, c
  <1>6. \A i \in 1 .. Len(hs) : <<"wipe", hs[i], None>> \in Work /\ Fits("reset", <<"wipe", hs[i], None>>)
    BY <1>4, IsWork DEF Fits, Checked
  <1> DEFINE w == [i \in 1 .. Len(hs) |-> <<"wipe", hs[i], None>>]
  <1>7. w \in Seq(Work) /\ DOMAIN w = 1 .. Len(hs) /\ \A i \in 1 .. Len(hs) : w[i] = <<"wipe", hs[i], None>>
    BY <1>4, <1>6
  <1> HIDE DEF w
  <1>8. ASSUME NEW b \in BOOLEAN
        PROVE  JobOK(New("reset", w, None, b))
    <2> DEFINE r == New("reset", w, None, b)
    <2>1. r.op = "reset" /\ r.todo = w /\ r.at = "next" /\ r.dump = None /\ r.seen = None /\ r.alone = b
          /\ r = [op |-> r.op, todo |-> r.todo, at |-> r.at, dump |-> r.dump, seen |-> r.seen, alone |-> r.alone]
      BY DEF New
    <2> HIDE DEF r
    <2>2. "reset" \in Ops
      BY DEF Ops
    <2> QED BY <1>6, <1>7, <2>1, <2>2 DEF JobOK, r
  <1>9. \A i \in DOMAIN w : w[i][1] # "profile"
    BY <1>7
  <1>10. Sound("reset", w, None)
    BY <1>5, <1>8, <1>9 DEF Sound, w
  <1>11. ASSUME ~recovery, NEW h \in Regions
         PROVE  In(<<"wipe", h, None>>, w)
    <2>1. Len(hs) = 4 /\ hs[1] = "prefs" /\ hs[2] = "profiles" /\ hs[3] = "engine" /\ hs[4] = "safe"
      <3>0. Len(a) = 3 /\ Len(c) = 1 /\ c[1] = "safe"
        BY <1>1, <1>2, <1>11, Zenon
      <3>1. Len(a) + Len(c) = 4
        BY <3>0
      <3>2. \A i \in 1 .. 4 : hs[i] = IF i <= 3 THEN a[i] ELSE c[i - 3]
        BY <1>3, <3>0, <3>1
      <3>3. hs[1] = a[1] /\ hs[2] = a[2] /\ hs[3] = a[3] /\ hs[4] = c[1]
        BY <3>2
      <3> QED BY <1>1, <1>3, <3>0, <3>1, <3>3
    <2>2. h = "prefs" \/ h = "profiles" \/ h = "engine" \/ h = "safe"
      BY DEF Regions
    <2>3. PICK i \in 1 .. Len(hs) : hs[i] = h
      BY <2>1, <2>2
    <2> QED BY <1>7, <2>3 DEF In
  <1> QED BY <1>5, <1>10, <1>11 DEF w

\* A restart has no item.
LEMMA RestartSound == Sound("restart", <<>>, None)
  <1> DEFINE q == <<>>
  <1>1. q \in Seq(Work) /\ DOMAIN q = {} /\ "restart" \in Ops
    BY EmptySeq DEF Ops
  <1>2. ASSUME NEW b \in BOOLEAN
        PROVE  JobOK(New("restart", q, None, b))
    <2> DEFINE r == New("restart", q, None, b)
    <2>1. r.op = "restart" /\ r.todo = q /\ r.at = "next" /\ r.dump = None /\ r.seen = None /\ r.alone = b
          /\ r = [op |-> r.op, todo |-> r.todo, at |-> r.at, dump |-> r.dump, seen |-> r.seen, alone |-> r.alone]
      BY DEF New
    <2> HIDE DEF r
    <2> QED BY <1>1, <2>1 DEF JobOK, r
  <1> QED BY <1>1, <1>2 DEF Sound

\* The sections that an export reads, in order.
Reading == <<<<"read", "prefs", None>>, <<"read", "slots", None>>, <<"read", "profiles", None>>>>

\* An export is sound.
LEMMA ExportSound == Sound("export", Reading, EmptyDump)
  <1> DEFINE q == Reading
  <1>1. /\ q[1] = <<"read", "prefs", None>> /\ q[2] = <<"read", "slots", None>>
        /\ q[3] = <<"read", "profiles", None>> /\ DOMAIN q = 1 .. 3
    BY DEF Reading
  <1>2. \A i \in 1 .. 3 : q[i] \in Work /\ q[i][1] = "read"
    <2>1. <<"read", "prefs", None>> \in Work /\ <<"read", "slots", None>> \in Work /\ <<"read", "profiles", None>> \in Work
      BY IsWork DEF Sections
    <2>2. q[1] \in Work /\ q[2] \in Work /\ q[3] \in Work
      BY <1>1, <2>1
    <2>3. q[1][1] = "read" /\ q[2][1] = "read" /\ q[3][1] = "read"
      BY <1>1
    <2> HIDE DEF q
    <2>4. \A i \in 1 .. 3 : i = 1 \/ i = 2 \/ i = 3
      OBVIOUS
    <2> QED BY <2>2, <2>3, <2>4
  <1>3. q \in Seq(Work)
    <2>1. <<"read", "prefs", None>> \in Work /\ <<"read", "slots", None>> \in Work /\ <<"read", "profiles", None>> \in Work
      BY IsWork DEF Sections
    <2> QED BY <2>1 DEF Reading
  <1> HIDE DEF q
  <1>4. \A i \in DOMAIN q : Fits("export", q[i])
    BY <1>1, <1>2 DEF Fits, Checked
  <1>5. ASSUME NEW b \in BOOLEAN
        PROVE  JobOK(New("export", q, EmptyDump, b))
    <2> DEFINE r == New("export", q, EmptyDump, b)
    <2>1. r.op = "export" /\ r.todo = q /\ r.at = "next" /\ r.dump = EmptyDump /\ r.seen = None /\ r.alone = b
          /\ r = [op |-> r.op, todo |-> r.todo, at |-> r.at, dump |-> r.dump, seen |-> r.seen, alone |-> r.alone]
      BY DEF New
    <2> HIDE DEF r
    <2>2. "export" \in Ops /\ DumpShape(EmptyDump)
      BY EmptyDumpShape DEF Ops
    <2> QED BY <1>3, <1>4, <2>1, <2>2 DEF JobOK, r
  <1> QED BY <1>1, <1>2, <1>5 DEF Sound, q

\* An import of a dump that was accepted is sound.
LEMMA ImportSound ==
    ASSUME NEW t, NEW d, DumpShape(d), Accepted(d)
    PROVE  Sound("import", ImportItems(t, d), d)
  <1> DEFINE q == ImportItems(t, d)
  <1>1. DumpValid(d)
    BY DEF Accepted
  <1>2. /\ q \in Seq(Work) /\ \A i \in DOMAIN q : q[i] \in Wanted(d) \cup SafeOf(d) /\ Fits("import", q[i])
        /\ \A x \in Wanted(d) : In(x, q)
    BY <1>1, ImportWork
  <1> HIDE DEF q
  <1>3. ASSUME NEW b \in BOOLEAN
        PROVE  JobOK(New("import", q, d, b))
    <2> DEFINE r == New("import", q, d, b)
    <2>1. r.op = "import" /\ r.todo = q /\ r.at = "next" /\ r.dump = d /\ r.seen = None /\ r.alone = b
          /\ r = [op |-> r.op, todo |-> r.todo, at |-> r.at, dump |-> r.dump, seen |-> r.seen, alone |-> r.alone]
      BY DEF New
    <2> HIDE DEF r
    <2>2. "import" \in Ops
      BY DEF Ops
    <2> QED BY <1>2, <2>1, <2>2 DEF JobOK, r
  <1>4. \A i \in DOMAIN q : ~ (q[i][1] = "profile" /\ q[i][3] = None)
    BY <1>2 DEF Fits
  <1> QED BY <1>2, <1>3, <1>4 DEF Sound, q

\* A line leaves everything but the tokens as it is, or begins a job that is sound.
LEMMA LineDoes ==
    ASSUME Types, Jobs, TokensOK, backup = None \/ DumpShape(backup), NEW t \in Transports, Line(t)
    PROVE  TokensOK' /\ (Quiet \/ \E op, todo, dump : Starting(t, op, todo, dump))
  <1>0. t \in Workers
    BY DEF Workers
  <1>A. ASSUME NEW name, Admitted(t, name), NEW op, NEW todo, NEW dump, Begin(t, op, todo, dump),
               Sound(op, todo, dump)
        PROVE  TokensOK' /\ \E o, q, d : Starting(t, o, q, d)
    BY <1>0, <1>A, AdmittedDoes, BeginDoes
  <1>C. ASSUME NEW name, Admitted(t, name), NEW x \in Work, Fits("command", x), Command(t, <<x>>),
               x[1] = "profile" /\ x[3] = None => Unloaded(x[2])
        PROVE  TokensOK' /\ \E o, q, d : Starting(t, o, q, d)
    <2>1. Sound("command", <<x>>, None)
      BY <1>C, CommandSound
    <2> QED BY <1>A, <1>C, <2>1 DEF Command
  <1>1. CASE AskConfirm(t)
    BY <1>1, TokenIssued DEF AskConfirm, Quiet
  <1>2. CASE Elsewhere(t)
    BY <1>2, TokenUsed DEF Elsewhere, Quiet
  <1>3. CASE Export(t)
    <2>1. Admitted(t, "config.export") /\ Begin(t, "export", Reading, EmptyDump)
      BY <1>3 DEF Export, Reading
    <2> QED BY <1>A, <2>1, ExportSound
  <1>4. CASE DeviceReset(t)
    <2>1. Admitted(t, "device.factory-reset") /\ Begin(t, "reset", Wipe, None)
      BY <1>4 DEF DeviceReset
    <2> QED BY <1>A, <2>1, WipeSound
  <1>5. CASE DeviceRestart(t)
    <2>1. Admitted(t, "device.restart") /\ Begin(t, "restart", <<>>, None)
      BY <1>5 DEF DeviceRestart
    <2> QED BY <1>A, <2>1, RestartSound
  <1>6. ASSUME NEW p \in DOMAIN ProfileDoc, ProfileAdd(t, p)
        PROVE  TokensOK' /\ \E o, q, d : Starting(t, o, q, d)
    <2> DEFINE x == <<"profile", ProfileDoc[p].id, p>>
    <2>1. Admitted(t, "profile.add") /\ Command(t, <<x>>) /\ ProfileValid(p)
      BY <1>6 DEF ProfileAdd
    <2>2. ProfileDoc[p].id \in Ids
      BY <2>1, DocumentsAssumption DEF ProfileValid, Required
    <2>3. x \in Work /\ x[1] = "profile" /\ x[3] = p /\ p # None
      BY <2>2, IsWork, NotNone
    <2> HIDE DEF x
    <2>4. Fits("command", x)
      BY <2>3 DEF Fits, Checked
    <2> QED BY <1>C, <2>1, <2>3, <2>4
  <1>7. ASSUME NEW id \in Ids, ProfileRemove(t, id)
        PROVE  TokensOK' /\ \E o, q, d : Starting(t, o, q, d)
    <2> DEFINE x == <<"profile", id, None>>
               users == {s \in ModeSlots : ram.slot[s].enabled /\ Uses(ram.slot[s].binding, id)}
    <2>1. Admitted(t, "profile.remove") /\ Command(t, <<x>>) /\ Cardinality(users) = 0
      BY <1>7 DEF ProfileRemove, References
    <2>2. Unloaded(id)
      <3>1. IsFiniteSet(ModeSlots)
        BY LimitsAssumption, FS_Interval DEF ModeSlots
      <3>2. users = {}
        BY <2>1, <3>1, FS_Subset, FS_EmptySet
      <3> QED BY <3>2 DEF Unloaded
    <2>3. x \in Work /\ x[1] = "profile" /\ x[2] = id
      BY IsWork
    <2> HIDE DEF x
    <2>4. Fits("command", x)
      BY <2>3 DEF Fits, Checked
    <2> QED BY <1>C, <2>1, <2>2, <2>3, <2>4
  <1>8. ASSUME NEW s \in ModeSlots, ModeClear(t, s)
        PROVE  TokensOK' /\ \E o, q, d : Starting(t, o, q, d)
    <2> DEFINE x == <<"slot", s, None>>
    <2>1. Admitted(t, "mode.clear") /\ Command(t, <<x>>)
      BY <1>8 DEF ModeClear
    <2>2. x \in Work /\ x[1] = "slot" /\ x[3] = None
      BY IsWork
    <2> HIDE DEF x
    <2>3. Fits("command", x)
      BY <2>2 DEF Fits, Checked
    <2> QED BY <1>C, <2>1, <2>2, <2>3
  <1>9. ASSUME NEW s \in ModeSlots, ModeSelect(t, s)
        PROVE  TokensOK' /\ \E o, q, d : Starting(t, o, q, d)
    <2> DEFINE x == <<"active", 0, s>>
    <2>1. Admitted(t, "mode.select") /\ Command(t, <<x>>)
      BY <1>9 DEF ModeSelect
    <2>2. x \in Work /\ x[1] = "active"
      BY IsWork
    <2> HIDE DEF x
    <2>3. Fits("command", x)
      BY <2>2 DEF Fits, Checked
    <2> QED BY <1>C, <2>1, <2>2, <2>3
  <1>10. ASSUME NEW s \in ModeSlots, NEW b \in DOMAIN BindingDoc, ModeSet(t, s, b)
         PROVE  TokensOK' /\ \E o, q, d : Starting(t, o, q, d)
    <2> DEFINE x == <<"slot", s, b>>
    <2>1. Admitted(t, "mode.set") /\ Command(t, <<x>>) /\ BindingValid(b)
      BY <1>10 DEF ModeSet
    <2>2. x \in Work /\ x[1] = "slot" /\ x[3] = b /\ b # None
      BY IsWork, NotNone
    <2> HIDE DEF x
    <2>3. Fits("command", x)
      BY <2>1, <2>2 DEF Fits, Checked
    <2> QED BY <1>C, <2>1, <2>2, <2>3
  <1>11. ASSUME NEW k \in Keys, NEW v \in Known[k], PrefsSet(t, k, v)
         PROVE  TokensOK' /\ \E o, q, d : Starting(t, o, q, d)
    <2> DEFINE x == <<"pref", k, v>>
    <2>1. Admitted(t, "prefs.set") /\ Command(t, <<x>>)
      BY <1>11 DEF PrefsSet
    <2>2. x \in Work /\ x[1] = "pref"
      BY IsWork
    <2> HIDE DEF x
    <2>3. Fits("command", x)
      BY <2>2 DEF Fits, Checked
    <2> QED BY <1>C, <2>1, <2>2, <2>3
  <1>12. ASSUME NEW n \in Entries, SafeClear(t, n)
         PROVE  TokensOK' /\ \E o, q, d : Starting(t, o, q, d)
    <2> DEFINE x == <<"safe", n, None>>
    <2>1. Admitted(t, "safe.clear") /\ Command(t, <<x>>)
      BY <1>12 DEF SafeClear
    <2>2. x \in Work /\ x[1] = "safe" /\ x[3] = None
      BY IsWork
    <2> HIDE DEF x
    <2>3. Fits("command", x)
      BY <2>2 DEF Fits, Checked
    <2> QED BY <1>C, <2>1, <2>2, <2>3
  <1>13. ASSUME NEW n \in Entries, NEW e \in DOMAIN EntryDoc, SafeSet(t, n, e)
         PROVE  TokensOK' /\ \E o, q, d : Starting(t, o, q, d)
    <2> DEFINE x == <<"safe", n, e>>
    <2>1. Admitted(t, "safe.set") /\ Command(t, <<x>>) /\ EntryValid(e) /\ EntryDoc[e].size <= ENTRY_JSON_MAX - 1
      BY <1>13 DEF SafeSet
    <2>2. x \in Work /\ x[1] = "safe" /\ x[3] = e
      BY IsWork
    <2>3. EntryDoc[e].size < ENTRY_JSON_MAX
      <3>1. EntryDoc[e].size \in Nat /\ ENTRY_JSON_MAX \in Nat
        BY DocumentsAssumption, LimitsAssumption
      <3> QED BY <2>1, <3>1
    <2> HIDE DEF x
    <2>4. Fits("command", x)
      BY <2>1, <2>2, <2>3 DEF Fits, Checked
    <2> QED BY <1>C, <2>1, <2>2, <2>4
  <1>14. ASSUME NEW d \in Dumps \cup ({backup} \ {None}), Import(t, d)
         PROVE  TokensOK' /\ (Quiet \/ \E o, q, r : Starting(t, o, q, r))
    <2>1. DumpShape(d)
      BY ConfigurationAssumption
    <2>2. Admitted(t, "config.import")
      BY <1>14 DEF Import
    <2>3. CASE Accepted(d) /\ Begin(t, "import", ImportItems(t, d), d)
      BY <2>1, <2>2, <2>3, <1>A, ImportSound
    <2>4. CASE ~Accepted(d)
      <3>1. Quiet
        BY <1>14, <2>4 DEF Import, Quiet
      <3> QED BY <2>2, <3>1, AdmittedDoes
    <2> QED BY <1>14, <2>3, <2>4 DEF Import
  <1> QED BY <1>1, <1>2, <1>3, <1>4, <1>5, <1>6, <1>7, <1>8, <1>9, <1>10, <1>11, <1>12, <1>13, <1>14 DEF Line

-----------------------------------------------------------------------------
(* Types.                                                                  *)

\* The inductive type invariant: with the shapes of jobs, tokens and the dump that was
\* exported.
TypeInv ==
    /\ Types /\ Jobs /\ TokensOK
    /\ backup = None \/ DumpShape(backup)

\* A job no longer alone is well formed.
LEMMA LoneJob == ASSUME NEW j, JobOK(j), NEW b \in BOOLEAN PROVE JobOK(Lone(j, b))
  <1> DEFINE r == Lone(j, b)
  <1>1. r.op = j.op /\ r.todo = j.todo /\ r.at = j.at /\ r.dump = j.dump /\ r.seen = j.seen /\ r.alone = b
        /\ r = [op |-> r.op, todo |-> r.todo, at |-> r.at, dump |-> r.dump, seen |-> r.seen, alone |-> r.alone]
    BY DEF Lone
  <1> HIDE DEF r
  <1> QED BY <1>1 DEF JobOK, r

\* A job that starts keeps the types.
LEMMA StartingTypes ==
    ASSUME TypeInv, NEW t \in Workers, NEW op, NEW todo, NEW dump, Starting(t, op, todo, dump)
    PROVE  Types' /\ Jobs' /\ (backup = None \/ DumpShape(backup))'
  <1>1. Types' /\ (backup = None \/ DumpShape(backup))'
    BY DEF Starting, TypeInv, Types
  <1>2. \A u \in Workers : JobOK(Lone(job[u], ~Working(u)))
    BY LoneJob DEF TypeInv, Jobs
  <1>3. JobOK(New(op, todo, dump, \A v \in Workers \ {t} : ~Working(v)))
    BY DEF Starting, Sound
  <1>4. Jobs'
    BY <1>2, <1>3 DEF Starting, Jobs
  <1> QED BY <1>1, <1>4

\* The boots: memory is what flash gives, and nobody is at anything.
LEMMA BootTypes ==
    ASSUME TypeInv, NEW rec \in BOOLEAN, BootWith(rec), events' \in 0 .. MaxEvents
    PROVE  TypeInv' /\ (\A t \in Workers : job'[t] = Idle) /\ nvs' = nvs /\ recovery' = rec /\ restarting' = FALSE
           /\ ram' = Loaded(nvs, rec) /\ buzzer' = CacheOf(ram') /\ doubtful' = {}
  <1>1. /\ recovery' = rec /\ ram' = Loaded(nvs, rec) /\ buzzer' = CacheOf(ram') /\ tokens' = <<>>
        /\ job' = [t \in Workers |-> Idle] /\ restarting' = FALSE /\ doubtful' = {}
        /\ nvs' = nvs /\ backup' = backup
    BY DEF BootWith
  <1>2. MemoryOK(ram') /\ DOMAIN buzzer' = Cached
    <2>1. MemoryOK(Loaded(nvs, rec)) /\ DOMAIN CacheOf(Loaded(nvs, rec)) = Cached
      BY LoadedMemory DEF TypeInv, Types
    <2> QED BY <1>1, <2>1
  <1>3. Jobs'
    BY <1>1, JobIdle DEF Jobs
  <1>4. TokensOK'
    <2>1. <<>> \in Seq(Transports) /\ Len(<<>>) = 0 /\ CONFIRM_SLOTS \in Nat
      BY EmptySeq, ConfigurationAssumption
    <2> QED BY <1>1, <2>1 DEF TokensOK
  <1>5. Types'
    BY <1>1, <1>2 DEF TypeInv, Types
  <1> QED BY <1>1, <1>3, <1>4, <1>5 DEF TypeInv

\* A step within an item keeps the types.
LEMMA SteadyTypes ==
    ASSUME TypeInv, Steady, NEW t \in Workers, NEW j, JobOK(j), Becomes(t, j)
    PROVE  TypeInv'
  <1>1. Jobs'
    BY JobsStay DEF TypeInv, Jobs
  <1> QED BY <1>1 DEF TypeInv, Types, TokensOK, Steady

\* Each step of a task keeps the types.
LEMMA StepTypes == ASSUME TypeInv, NEW t \in Workers, Step(t) PROVE TypeInv'
  <1> USE DEF TypeInv
  <1>1. CASE StoreProfile(t)
    BY <1>1, StoreProfileDoes, SteadyTypes
  <1>2. CASE StoreSlot(t)
    BY <1>2, StoreSlotDoes, SteadyTypes
  <1>3. CASE LoadSlot(t)
    BY <1>3, LoadSlotDoes, SteadyTypes
  <1>4. CASE HoldPref(t)
    BY <1>4, HoldPrefDoes, SteadyTypes
  <1>5. CASE SavePref(t)
    BY <1>5, SavePrefDoes, SteadyTypes
  <1>6. CASE ReadPrefs(t)
    BY <1>6, ReadPrefsDoes, SteadyTypes
  <1>7. CASE CachePrefs(t)
    BY <1>7, CachePrefsDoes, SteadyTypes
  <1>8. CASE StoreSafe(t)
    BY <1>8, StoreSafeDoes, SteadyTypes
  <1>9. CASE HoldSafe(t)
    BY <1>9, HoldSafeDoes, SteadyTypes
  <1>10. CASE SetActive(t)
    BY <1>10, SetActiveDoes, SteadyTypes
  <1>11. CASE WipeFlash(t)
    BY <1>11, WipeFlashDoes, SteadyTypes
  <1>12. CASE WipeMemory(t)
    BY <1>12, WipeMemoryDoes, SteadyTypes
  <1>13. CASE ReadSection(t)
    BY <1>13, ReadSectionDoes, SteadyTypes
  <1>14. CASE Finish(t)
    <2> DEFINE j == IF job[t].op \in {"reset", "restart"} THEN Blocked ELSE Idle
    <2>1. /\ Becomes(t, j) /\ JobOK(job[t])
          /\ backup' = IF job[t].op = "export" THEN job[t].dump ELSE backup
          /\ restarting' = (restarting \/ job[t].op \in {"import", "reset", "restart"})
          /\ nvs' = nvs /\ ram' = ram /\ buzzer' = buzzer /\ recovery' = recovery
          /\ tokens' = tokens /\ events' = events
      BY <1>14, FinishDoes
    <2>2. JobOK(j)
      BY JobIdle
    <2>3. Jobs'
      BY <2>1, <2>2, JobsStay DEF Jobs
    <2>4. (backup = None \/ DumpShape(backup))'
      BY <2>1 DEF JobOK
    <2>5. restarting' \in BOOLEAN
      BY <2>1
    <2> QED BY <2>1, <2>3, <2>4, <2>5 DEF Types, TokensOK
  <1> QED BY <1>1, <1>2, <1>3, <1>4, <1>5, <1>6, <1>7, <1>8, <1>9, <1>10, <1>11, <1>12, <1>13, <1>14 DEF Step

\* The button begins what a line would.
LEMMA ButtonDoes ==
    ASSUME TypeInv, ButtonReset \/ ButtonRestart
    PROVE  tokens' = tokens /\ Button \in Workers /\ \E op, todo, dump : Starting(Button, op, todo, dump)
  <1>1. Button \in Workers
    BY DEF Workers
  <1>2. CASE ButtonReset
    <2>1. Free(Button) /\ Begin(Button, "reset", Wipe, None) /\ tokens' = tokens
      BY <1>2 DEF ButtonReset
    <2> QED BY <1>1, <2>1, WipeSound, BeginDoes DEF TypeInv
  <1>3. CASE ButtonRestart
    <2>1. Free(Button) /\ Begin(Button, "restart", <<>>, None) /\ tokens' = tokens
      BY <1>3 DEF ButtonRestart
    <2> QED BY <1>1, <2>1, RestartSound, BeginDoes DEF TypeInv
  <1> QED BY <1>2, <1>3

\* Every step of the system: of an item, or the start of a job, or a boot, or nothing but tokens.
LEMMA NextDoes ==
    ASSUME TypeInv, [ConfigNext]_configVars
    PROVE  \/ \E t \in Workers : Step(t)
           \/ TokensOK' /\ Quiet
           \/ TokensOK' /\ \E t \in Workers : \E op, todo, dump : Starting(t, op, todo, dump)
           \/ Restarts
           \/ Crash
  <1>1. ASSUME NEW t \in Transports, Line(t)
        PROVE  TokensOK' /\ (Quiet \/ \E u \in Workers : \E op, todo, dump : Starting(u, op, todo, dump))
    <2>1. t \in Workers
      BY DEF Workers
    <2> QED BY <1>1, <2>1, LineDoes DEF TypeInv
  <1>2. CASE ButtonReset \/ ButtonRestart
    <2>1. tokens' = tokens /\ Button \in Workers /\ \E op, todo, dump : Starting(Button, op, todo, dump)
      BY <1>2, ButtonDoes
    <2>2. TokensOK'
      BY <2>1 DEF TypeInv, TokensOK
    <2> QED BY <2>1, <2>2
  <1>3. CASE Expire
    <2>1. tokens # <<>> /\ tokens' = Tail(tokens) /\ Quiet
      BY <1>3 DEF Expire, Quiet
    <2> QED BY <2>1, TokenExpires DEF TypeInv
  <1>4. CASE UNCHANGED configVars
    BY <1>4 DEF configVars, Quiet, TypeInv, TokensOK
  <1> QED BY <1>1, <1>2, <1>3, <1>4 DEF ConfigNext

\* The type invariant is inductive.
LEMMA NextTypes == TypeInv /\ [ConfigNext]_configVars => TypeInv'
  <1> SUFFICES ASSUME TypeInv, [ConfigNext]_configVars PROVE TypeInv'
    OBVIOUS
  <1>1. CASE TokensOK' /\ Quiet
    BY <1>1 DEF TypeInv, Types, Jobs, Quiet
  <1>2. ASSUME TokensOK', NEW t \in Workers, NEW op, NEW todo, NEW dump, Starting(t, op, todo, dump)
        PROVE  TypeInv'
    BY <1>2, StartingTypes DEF TypeInv
  <1>3. CASE Restarts
    <2>1. BootWith(FALSE) /\ events' = events
      BY <1>3 DEF Restarts
    <2>2. events' \in 0 .. MaxEvents
      BY <2>1 DEF TypeInv, Types
    <2> QED BY <2>1, <2>2, BootTypes
  <1>4. CASE Crash
    <2>1. PICK rec \in BOOLEAN : BootWith(rec)
      BY <1>4 DEF Crash
    <2>2. events' \in 0 .. MaxEvents
      <3>1. MaxEvents \in Nat
        BY ConfigurationAssumption
      <3> QED BY <1>4, <3>1 DEF Crash, Happens, TypeInv, Types
    <2> QED BY <2>1, <2>2, BootTypes
  <1> QED BY <1>1, <1>2, <1>3, <1>4, NextDoes, StepTypes

\* It holds at the first boot.
LEMMA InitTypes == ConfigInit => TypeInv
  <1> SUFFICES ASSUME ConfigInit PROVE TypeInv
    OBVIOUS
  <1>1. InFlash(nvs)
    BY ConfigurationAssumption DEF ConfigInit
  <1>2. MemoryOK(ram) /\ DOMAIN buzzer = Cached
    <2>1. MemoryOK(Loaded(nvs, FALSE)) /\ DOMAIN CacheOf(Loaded(nvs, FALSE)) = Cached
      BY <1>1, LoadedMemory
    <2> QED BY <2>1 DEF ConfigInit
  <1>3. Jobs
    BY JobIdle DEF ConfigInit, Jobs
  <1>4. TokensOK
    <2>1. <<>> \in Seq(Transports) /\ Len(<<>>) = 0 /\ CONFIRM_SLOTS \in Nat
      BY EmptySeq, ConfigurationAssumption
    <2> QED BY <2>1 DEF TokensOK, ConfigInit
  <1>5. events \in 0 .. MaxEvents
    BY ConfigurationAssumption DEF ConfigInit
  <1> QED BY <1>1, <1>2, <1>3, <1>4, <1>5 DEF TypeInv, Types, ConfigInit

\* It implies what the runs check.
LEMMA TypesGiven == TypeInv => ConfigTypeOK
  <1> SUFFICES ASSUME TypeInv PROVE ConfigTypeOK
    OBVIOUS
  <1>1. tokens \in BoundedSeq(Transports, CONFIRM_SLOTS)
    <2>1. tokens \in [1 .. Len(tokens) -> Transports] /\ Len(tokens) \in 0 .. CONFIRM_SLOTS
      BY LenProperties, ConfigurationAssumption DEF TypeInv, TokensOK
    <2> QED BY <2>1 DEF BoundedSeq, SeqOf
  <1>2. \A t \in Workers : job[t].op \in Ops
    BY DEF TypeInv, Jobs, JobOK
  <1> QED BY <1>1, <1>2 DEF TypeInv, Types, MemoryOK, ConfigTypeOK, Ops

\* Flash, memory, jobs and tokens keep their types, for any documents, dumps, transports
\* and contents of the flash at boot: each place holds a document of its own kind, memory a
\* known value of every preference (also after an import and an erased flash) and a slot of
\* the device as the active one, and no more tokens wait than sk_confirm.c has places.
THEOREM ConfigTypes == ConfigSpec => []ConfigTypeOK
  <1>1. ConfigSpec => []TypeInv
    BY InitTypes, NextTypes, PTL DEF ConfigSpec
  <1> QED BY <1>1, TypesGiven, PTL

-----------------------------------------------------------------------------
(* Memory follows flash.                                                   *)

\* The three regions: each is kept by the steps on its own kind of item, and by the others
\* because they do not touch it.
PrefRegion == PrefsHeld /\ PrefsSaving /\ BuzzerHeld /\ BuzzerCaching
SafeRegion == SafeHeld /\ SafeHolding
SlotRegion == SlotsHeld /\ SlotsLoading

\* A task within an item of a kind: it has done a part of it.
Mid(j, kind) == j.todo # <<>> /\ Head(j.todo)[1] = kind /\ j.at # "next"
\* No task's place within an item of a kind changes.
Same(kind) == \A u \in Workers :
    Mid(job[u], kind) \/ Mid(job'[u], kind) =>
        job'[u].todo = job[u].todo /\ job'[u].at = job[u].at /\ job'[u].seen = job[u].seen

\* A step within an item of one kind leaves those of the others where they were.
LEMMA OthersWait ==
    ASSUME Jobs, NEW t \in Workers, NEW kind, NEW other, Item(t, kind), kind # other,
           NEW place, NEW seen,
           Becomes(t, Through(job[t])) \/ Becomes(t, With(job[t], job[t].todo, place, seen))
    PROVE  Same(other)
  <1>1. \A u \in Workers : u # t => job'[u] = job[u]
    BY DEF Becomes
  <1>2. ~Mid(job[t], other)
    BY DEF Mid, Item
  <1>3. ~Mid(job'[t], other)
    <2>1. CASE Becomes(t, Through(job[t]))
      <3>1. job'[t].at = "next"
        BY <2>1 DEF Becomes, Through, With
      <3> QED BY <3>1 DEF Mid
    <2>2. CASE Becomes(t, With(job[t], job[t].todo, place, seen))
      <3>1. job'[t].todo = job[t].todo
        BY <2>2 DEF Becomes, With
      <3> QED BY <3>1 DEF Mid, Item
    <2> QED BY <2>1, <2>2
  <1> QED BY <1>1, <1>2, <1>3 DEF Same

\* A step on a whole item, of a task that was between no two halves, changes no place.
LEMMA WholeItem ==
    ASSUME Jobs, NEW t \in Workers, job[t].at = "next", NEW j, j.at = "next", Becomes(t, j), NEW kind
    PROVE  Same(kind)
  <1>1. \A u \in Workers : u # t => job'[u] = job[u]
    BY DEF Becomes
  <1>2. job'[t].at = "next"
    BY DEF Becomes
  <1> QED BY <1>1, <1>2 DEF Same, Mid

\* Nor does the start of a job.
LEMMA StartWaits ==
    ASSUME Jobs, NEW t \in Workers, NEW op, NEW todo, NEW dump, Starting(t, op, todo, dump), NEW kind
    PROVE  Same(kind)
  <1>1. job[t].at = "next"
    BY JobIdle DEF Starting
  <1>2. job'[t].at = "next"
    BY DEF Starting, New
  <1>3. ASSUME NEW u \in Workers, u # t
        PROVE  job'[u].todo = job[u].todo /\ job'[u].at = job[u].at /\ job'[u].seen = job[u].seen
    BY <1>3 DEF Starting, Lone
  <1> QED BY <1>1, <1>2, <1>3 DEF Same, Mid

\* What a step does not touch stays as it was.
LEMMA PrefsStay ==
    ASSUME Jobs, Same("pref"), nvs'.pref = nvs.pref, ram'.pref = ram.pref, buzzer' = buzzer,
           doubtful \subseteq doubtful', PrefRegion
    PROVE  PrefRegion'
  <1>1. /\ PrefsLoaded(nvs') = PrefsLoaded(nvs) /\ CacheOf(ram') = CacheOf(ram)
        /\ (UnsureCache => UnsureCache') /\ \A k : Unsure("pref", k) => Unsure("pref", k)'
    BY DEF PrefsLoaded, CacheOf, UnsureCache, Unsure
  <1>2. ASSUME NEW u \in Workers, Item(u, "pref"), job[u].at # "next"
        PROVE  job'[u].todo = job[u].todo /\ job'[u].at = job[u].at /\ job'[u].seen = job[u].seen
    BY <1>2 DEF Same, Mid, Item
  <1>3. ASSUME NEW u \in Workers, Item(u, "pref")', job'[u].at # "next"
        PROVE  job'[u].todo = job[u].todo /\ job'[u].at = job[u].at /\ job'[u].seen = job[u].seen
    BY <1>3 DEF Same, Mid, Item
  <1>4. PrefsHeld'
    BY <1>1, <1>2 DEF PrefRegion, PrefsHeld, At, Item, Key
  <1>5. PrefsSaving'
    BY <1>1, <1>3 DEF PrefRegion, PrefsSaving, At, Item, Key, Value
  <1>6. BuzzerHeld'
    BY <1>1, <1>2 DEF PrefRegion, BuzzerHeld, Item, Key
  <1>7. BuzzerCaching'
    BY <1>1, <1>3 DEF PrefRegion, BuzzerCaching, At, Item
  <1> QED BY <1>4, <1>5, <1>6, <1>7 DEF PrefRegion

\* The same of the safe.
LEMMA SafeStays ==
    ASSUME Jobs, Same("safe"), nvs'.safe = nvs.safe, ram'.safe = ram.safe,
           doubtful \subseteq doubtful', SafeRegion
    PROVE  SafeRegion'
  <1>1. SafeLoaded(nvs') = SafeLoaded(nvs) /\ \A n : Unsure("safe", n) => Unsure("safe", n)'
    BY DEF SafeLoaded, Unsure
  <1>2. ASSUME NEW u \in Workers, At(u, "safe", "hold")
        PROVE  job'[u].todo = job[u].todo /\ job'[u].at = job[u].at
    BY <1>2 DEF Same, Mid, Item, At
  <1>3. ASSUME NEW u \in Workers, At(u, "safe", "hold")'
        PROVE  job'[u].todo = job[u].todo /\ job'[u].at = job[u].at
    BY <1>3 DEF Same, Mid, Item, At
  <1>4. SafeHeld'
    BY <1>1, <1>2 DEF SafeRegion, SafeHeld, At, Item, Key
  <1>5. SafeHolding'
    BY <1>1, <1>3 DEF SafeRegion, SafeHolding, At, Item, Key, Value
  <1> QED BY <1>4, <1>5 DEF SafeRegion

\* The binding that a slot is loaded with depends on the slot of flash alone.
LEMMA SameBinding ==
    ASSUME InFlash(nvs), InFlash(nvs'), NEW s \in ModeSlots, nvs'.slot[s] = nvs.slot[s]
    PROVE  SlotLoaded(nvs', s).binding = SlotLoaded(nvs, s).binding
  BY SlotBinding

\* The same of the slots.
LEMMA SlotsStay ==
    ASSUME Types, Types', Jobs, Same("slot"), nvs'.slot = nvs.slot, ram'.slot = ram.slot,
           doubtful \subseteq doubtful', SlotRegion
    PROVE  SlotRegion'
  <1>1. /\ \A s \in ModeSlots : SlotLoaded(nvs', s).binding = SlotLoaded(nvs, s).binding
        /\ \A s : Unsure("slot", s) => Unsure("slot", s)'
    BY SameBinding DEF Types, Unsure
  <1>2. ASSUME NEW u \in Workers, At(u, "slot", "load")
        PROVE  job'[u].todo = job[u].todo /\ job'[u].at = job[u].at
    BY <1>2 DEF Same, Mid, Item, At
  <1>3. ASSUME NEW u \in Workers, At(u, "slot", "load")'
        PROVE  job'[u].todo = job[u].todo /\ job'[u].at = job[u].at
    BY <1>3 DEF Same, Mid, Item, At
  <1>4. SlotsHeld'
    BY <1>1, <1>2 DEF SlotRegion, SlotsHeld, At, Item, Key
  <1>5. SlotsLoading'
    BY <1>1, <1>3 DEF SlotRegion, SlotsLoading, At, Item, Key, Value
  <1> QED BY <1>4, <1>5 DEF SlotRegion

-----------------------------------------------------------------------------
(* Preferences, and the buzzer's cache of them.                            *)

\* The fields of a job that goes to another place, and the jobs of the others.
LEMMA BecomesWith ==
    ASSUME NEW t \in Workers, NEW place, NEW seen, Becomes(t, With(job[t], job[t].todo, place, seen))
    PROVE  /\ job'[t].todo = job[t].todo /\ job'[t].at = place /\ job'[t].seen = seen /\ job'[t].op = job[t].op
           /\ \A u \in Workers : u # t => job'[u] = job[u]
  BY DEF Becomes, With

\* The fields of a job through with its item, and the jobs of the others.
LEMMA BecomesThrough ==
    ASSUME NEW t \in Workers, Becomes(t, Through(job[t]))
    PROVE  /\ job'[t].todo = Tail(job[t].todo) /\ job'[t].at = "next" /\ job'[t].op = job[t].op
           /\ \A u \in Workers : u # t => job'[u] = job[u]
  BY DEF Becomes, With, Through

\* Another task that is between the two halves of the same item is disturbed: doubtful.
LEMMA DisturbedOnes ==
    ASSUME NEW t, NEW u \in Workers, u # t, job[u].todo # <<>>, job[u].at # "next",
           SameItem(What(u), What(t)), Disturbed(t) \subseteq doubtful'
    PROVE  What(u) \in doubtful'
  BY DEF Disturbed

\* The assignment in memory keeps the preferences' region: the write to flash is to come.
LEMMA HoldPrefKeeps ==
    ASSUME Types, Jobs, PrefRegion, NEW t \in Workers, HoldPref(t)
    PROVE  PrefRegion'
  <1>1. /\ Steady /\ SameFlash /\ Item(t, "pref") /\ job[t].at = "next" /\ buzzer' = buzzer
        /\ Disturbed(t) \subseteq doubtful'
        /\ Becomes(t, With(job[t], job[t].todo, "save", job[t].seen))
        /\ ram'.pref = [ram.pref EXCEPT ![Key(t)] = Value(t)]
    BY HoldPrefDoes
  <1>2. /\ job'[t].todo = job[t].todo /\ job'[t].at = "save"
        /\ \A u \in Workers : u # t => job'[u] = job[u]
    BY <1>1, BecomesWith
  <1>3. Key(t) \in Keys /\ What(t) = <<"pref", Key(t)>>
    BY <1>1, AtItem
  <1>4. /\ nvs' = nvs /\ doubtful \subseteq doubtful'
        /\ ram'.pref[Key(t)] = Value(t)
        /\ \A k \in Keys : k # Key(t) => ram'.pref[k] = ram.pref[k]
    BY <1>1, <1>3 DEF Steady, SameFlash, Types, MemoryOK
  <1>5. ASSUME NEW u \in Workers, u # t, Item(u, "pref"), job[u].at # "next",
               Key(u) = Key(t) \/ {Key(u), Key(t)} \subseteq Cached
        PROVE  <<"pref", Key(u)>> \in doubtful'
    <2>1. What(u) = <<"pref", Key(u)>> /\ job[u].todo # <<>>
      BY <1>5, AtItem
    <2>2. SameItem(What(u), What(t))
      BY <1>3, <1>5, <2>1 DEF SameItem
    <2> QED BY <1>1, <1>5, <2>1, <2>2, DisturbedOnes
  <1>6. PrefsHeld'
    <2> SUFFICES ASSUME NEW k \in Keys
                 PROVE  \/ Unsure("pref", k)' \/ ram'.pref[k] = PrefsLoaded(nvs')[k]
                        \/ \E u \in Workers : At(u, "pref", "save")' /\ Key(u)' = k
      BY DEF PrefsHeld
    <2>1. CASE k = Key(t)
      BY <1>1, <1>2, <2>1 DEF At, Item, Key
    <2>2. CASE k # Key(t)
      <3>1. \A u \in Workers : At(u, "pref", "save") => At(u, "pref", "save")' /\ Key(u)' = Key(u)
        BY <1>1, <1>2 DEF At, Item, Key
      <3> QED BY <1>4, <2>2, <3>1 DEF PrefRegion, PrefsHeld, Unsure
    <2> QED BY <2>1, <2>2
  <1>7. PrefsSaving'
    <2> SUFFICES ASSUME NEW u \in Workers, At(u, "pref", "save")'
                 PROVE  Unsure("pref", Key(u))' \/ ram'.pref[Key(u)'] = Value(u)'
      BY DEF PrefsSaving
    <2>1. CASE u = t
      BY <1>2, <1>4, <2>1 DEF Key, Value
    <2>2. CASE u # t
      <3>1. At(u, "pref", "save") /\ Key(u)' = Key(u) /\ Value(u)' = Value(u) /\ Item(u, "pref") /\ job[u].at # "next"
        BY <1>2, <2>2 DEF At, Item, Key, Value
      <3>2. Key(u) \in Keys
        BY <3>1, AtItem
      <3>3. CASE Key(u) = Key(t)
        BY <1>5, <2>2, <3>1, <3>3 DEF Unsure
      <3>4. CASE Key(u) # Key(t)
        BY <1>4, <3>1, <3>2, <3>4 DEF PrefRegion, PrefsSaving, Unsure
      <3> QED BY <3>3, <3>4
    <2> QED BY <2>1, <2>2
  <1>8. Key(t) \notin Cached => CacheOf(ram') = CacheOf(ram)
    <2>1. Cached \subseteq Keys
      BY DEF Cached
    <2> QED BY <1>4, <2>1 DEF CacheOf
  <1>9. UnsureCache => UnsureCache'
    BY <1>4 DEF UnsureCache, Unsure
  <1>10. BuzzerHeld'
    <2>1. CASE Key(t) \in Cached
      <3>1. Item(t, "pref")' /\ job'[t].at # "next" /\ Key(t)' \in Cached
        BY <1>1, <1>2, <2>1 DEF Item, Key
      <3> QED BY <3>1 DEF BuzzerHeld
    <2>2. CASE Key(t) \notin Cached
      <3>1. \A u \in Workers : Item(u, "pref") /\ job[u].at # "next" =>
              Item(u, "pref")' /\ job'[u].at # "next" /\ Key(u)' = Key(u)
        BY <1>1, <1>2 DEF Item, Key
      <3> QED BY <1>1, <1>8, <1>9, <2>2, <3>1 DEF PrefRegion, BuzzerHeld
    <2> QED BY <2>1, <2>2
  <1>11. BuzzerCaching'
    <2> SUFFICES ASSUME NEW u \in Workers, At(u, "pref", "cache")'
                 PROVE  UnsureCache' \/ job'[u].seen = CacheOf(ram')
      BY DEF BuzzerCaching
    <2>1. u # t /\ At(u, "pref", "cache") /\ Item(u, "pref") /\ job[u].at = "cache" /\ job'[u] = job[u]
      BY <1>2 DEF At, Item
    <2>2. Key(u) \in Cached
      BY <2>1 DEF Jobs, JobOK, Key
    <2>3. CASE Key(t) \in Cached
      <3>1. <<"pref", Key(u)>> \in doubtful'
        BY <1>5, <2>1, <2>2, <2>3
      <3> QED BY <2>2, <3>1 DEF UnsureCache, Unsure
    <2>4. CASE Key(t) \notin Cached
      BY <1>8, <1>9, <2>1, <2>4 DEF PrefRegion, BuzzerCaching
    <2> QED BY <2>3, <2>4
  <1> QED BY <1>6, <1>7, <1>10, <1>11 DEF PrefRegion

\* So does the write, and the buzzer is refreshed if it has a copy of it.
LEMMA SavePrefKeeps ==
    ASSUME Types, Jobs, PrefRegion, NEW t \in Workers, SavePref(t)
    PROVE  PrefRegion'
  <1>1. /\ Steady /\ SameMemory /\ Item(t, "pref") /\ job[t].at = "save"
        /\ \/ nvs'.pref = [nvs.pref EXCEPT ![Key(t)] = Value(t)]
           \/ nvs' = nvs /\ What(t) \in doubtful'
        /\ \/ Becomes(t, Through(job[t])) /\ Key(t) \notin Cached
           \/ Becomes(t, With(job[t], job[t].todo, "read", job[t].seen)) /\ Key(t) \in Cached
    BY SavePrefDoes
  <1>2. /\ job'[t].at \in {"next", "read"}
        /\ Key(t) \in Cached => job'[t].todo = job[t].todo /\ job'[t].at = "read"
        /\ \A u \in Workers : u # t => job'[u] = job[u]
    BY <1>1, BecomesWith, BecomesThrough
  <1>3. Key(t) \in Keys /\ What(t) = <<"pref", Key(t)>> /\ Value(t) \in Known[Key(t)]
    BY <1>1, AtItem
  <1>4. /\ ram' = ram /\ buzzer' = buzzer /\ doubtful \subseteq doubtful'
        /\ nvs'.pref[Key(t)] = Value(t) \/ <<"pref", Key(t)>> \in doubtful'
        /\ \A k \in Keys : k # Key(t) => nvs'.pref[k] = nvs.pref[k]
    BY <1>1, <1>3 DEF Steady, SameMemory, Types, InFlash, Unsure
  <1>5. UnsureCache => UnsureCache'
    BY <1>4 DEF UnsureCache, Unsure
  <1>6. ASSUME NEW u \in Workers, u # t
        PROVE  /\ At(u, "pref", "save")' <=> At(u, "pref", "save")
               /\ Item(u, "pref")' <=> Item(u, "pref")
               /\ Key(u)' = Key(u) /\ Value(u)' = Value(u) /\ job'[u] = job[u]
    BY <1>2, <1>6 DEF At, Item, Key, Value
  <1>7. PrefsHeld'
    <2> SUFFICES ASSUME NEW k \in Keys
                 PROVE  \/ Unsure("pref", k)' \/ ram'.pref[k] = PrefsLoaded(nvs')[k]
                        \/ \E u \in Workers : At(u, "pref", "save")' /\ Key(u)' = k
      BY DEF PrefsHeld
    <2>1. CASE k = Key(t)
      <3>1. Unsure("pref", k)' \/ ram.pref[k] = Value(t)
        BY <1>1, <1>4, <2>1 DEF PrefRegion, PrefsSaving, At, Unsure
      <3>3. nvs'.pref[k] = Value(t) \/ Unsure("pref", k)'
        BY <1>4, <2>1 DEF Unsure
      <3>2. Value(t) # None
        BY <1>3, NotNone
      <3> QED BY <1>4, <3>1, <3>2, <3>3 DEF PrefsLoaded
    <2>2. CASE k # Key(t)
      <3>1. PrefsLoaded(nvs')[k] = PrefsLoaded(nvs)[k]
        BY <1>4, <2>2 DEF PrefsLoaded
      <3>2. Unsure("pref", k) => Unsure("pref", k)'
        BY <1>4 DEF Unsure
      <3>3. \/ Unsure("pref", k) \/ ram.pref[k] = PrefsLoaded(nvs)[k]
            \/ \E u \in Workers : At(u, "pref", "save") /\ Key(u) = k
        BY DEF PrefRegion, PrefsHeld
      <3>4. \A u \in Workers : At(u, "pref", "save") /\ Key(u) = k => At(u, "pref", "save")' /\ Key(u)' = k
        BY <1>6, <2>2
      <3> QED BY <1>4, <3>1, <3>2, <3>3, <3>4
    <2> QED BY <2>1, <2>2
  <1>8. PrefsSaving'
    <2> SUFFICES ASSUME NEW u \in Workers, At(u, "pref", "save")'
                 PROVE  Unsure("pref", Key(u))' \/ ram'.pref[Key(u)'] = Value(u)'
      BY DEF PrefsSaving
    <2>1. u # t
      BY <1>2 DEF At
    <2>2. At(u, "pref", "save") /\ Key(u)' = Key(u) /\ Value(u)' = Value(u)
      BY <1>6, <2>1
    <2>3. Unsure("pref", Key(u)) \/ ram.pref[Key(u)] = Value(u)
      BY <2>2 DEF PrefRegion, PrefsSaving
    <2> QED BY <1>4, <2>2, <2>3 DEF Unsure
  <1>9. BuzzerHeld'
    <2>1. CASE Key(t) \in Cached
      <3>1. Item(t, "pref")' /\ job'[t].at # "next" /\ Key(t)' \in Cached
        BY <1>1, <1>2, <2>1 DEF Item, Key
      <3> QED BY <3>1 DEF BuzzerHeld
    <2>2. CASE Key(t) \notin Cached
      BY <1>4, <1>5, <1>6, <2>2 DEF PrefRegion, BuzzerHeld
    <2> QED BY <2>1, <2>2
  <1>10. BuzzerCaching'
    <2> SUFFICES ASSUME NEW u \in Workers, At(u, "pref", "cache")'
                 PROVE  UnsureCache' \/ job'[u].seen = CacheOf(ram')
      BY DEF BuzzerCaching
    <2>1. u # t
      BY <1>2 DEF At
    <2>2. At(u, "pref", "cache") /\ job'[u] = job[u]
      BY <1>6, <2>1 DEF At
    <2> QED BY <1>4, <1>5, <2>2 DEF PrefRegion, BuzzerCaching
  <1> QED BY <1>7, <1>8, <1>9, <1>10 DEF PrefRegion

\* So does reading what the buzzer will copy.
LEMMA ReadPrefsKeeps ==
    ASSUME Types, Jobs, PrefRegion, NEW t \in Workers, ReadPrefs(t)
    PROVE  PrefRegion'
  <1>1. /\ Steady /\ SameFlash /\ SameMemory /\ Item(t, "pref") /\ job[t].at = "read" /\ Key(t) \in Cached
        /\ Becomes(t, With(job[t], job[t].todo, "cache", CacheOf(ram)))
    BY ReadPrefsDoes
  <1>2. /\ job'[t].todo = job[t].todo /\ job'[t].at = "cache" /\ job'[t].seen = CacheOf(ram)
        /\ \A u \in Workers : u # t => job'[u] = job[u]
    BY <1>1, BecomesWith
  <1>3. nvs' = nvs /\ ram' = ram /\ buzzer' = buzzer /\ doubtful \subseteq doubtful'
    BY <1>1 DEF Steady, SameFlash, SameMemory
  <1>4. /\ UnsureCache => UnsureCache'
        /\ \A k : Unsure("pref", k) => Unsure("pref", k)'
    BY <1>3 DEF UnsureCache, Unsure
  <1>5. \A u \in Workers : /\ At(u, "pref", "save")' <=> At(u, "pref", "save")
                           /\ Key(u)' = Key(u) /\ Value(u)' = Value(u)
                           /\ Item(u, "pref")' <=> Item(u, "pref")
    BY <1>1, <1>2 DEF At, Item, Key, Value
  <1>6. PrefsHeld'
    BY <1>3, <1>4, <1>5 DEF PrefRegion, PrefsHeld
  <1>7. PrefsSaving'
    BY <1>3, <1>4, <1>5 DEF PrefRegion, PrefsSaving
  <1>8. BuzzerHeld'
    BY <1>1, <1>2, <1>5 DEF BuzzerHeld
  <1>9. BuzzerCaching'
    BY <1>2, <1>3, <1>4 DEF PrefRegion, BuzzerCaching, At, Item
  <1> QED BY <1>6, <1>7, <1>8, <1>9 DEF PrefRegion

\* So does the copy: a task that changed a preference since will refresh it again.
LEMMA CachePrefsKeeps ==
    ASSUME Types, Jobs, PrefRegion, NEW t \in Workers, CachePrefs(t)
    PROVE  PrefRegion'
  <1>1. /\ Steady /\ SameFlash /\ ram' = ram /\ buzzer' = job[t].seen /\ Item(t, "pref") /\ job[t].at = "cache"
        /\ Becomes(t, Through(job[t]))
    BY CachePrefsDoes
  <1>2. job'[t].at = "next" /\ \A u \in Workers : u # t => job'[u] = job[u]
    BY <1>1, BecomesThrough
  <1>3. nvs' = nvs /\ doubtful \subseteq doubtful'
    BY <1>1 DEF Steady, SameFlash
  <1>4. /\ UnsureCache => UnsureCache'
        /\ \A k : Unsure("pref", k) => Unsure("pref", k)'
    BY <1>3 DEF UnsureCache, Unsure
  <1>5. PrefsHeld'
    BY <1>1, <1>2, <1>3, <1>4 DEF PrefRegion, PrefsHeld, At, Item, Key
  <1>6. PrefsSaving'
    BY <1>1, <1>2, <1>3, <1>4 DEF PrefRegion, PrefsSaving, At, Item, Key, Value
  <1>7. BuzzerHeld'
    <2>1. UnsureCache \/ job[t].seen = CacheOf(ram)
      BY <1>1 DEF PrefRegion, BuzzerCaching, At
    <2> QED BY <1>1, <1>4, <2>1 DEF BuzzerHeld
  <1>8. BuzzerCaching'
    BY <1>1, <1>2, <1>4 DEF PrefRegion, BuzzerCaching, At, Item
  <1> QED BY <1>5, <1>6, <1>7, <1>8 DEF PrefRegion

-----------------------------------------------------------------------------
(* The safe and the slots.                                                 *)

\* The write of an entry keeps the safe's region: memory is to follow.
LEMMA StoreSafeKeeps ==
    ASSUME Types, Jobs, SafeRegion, NEW t \in Workers, StoreSafe(t)
    PROVE  SafeRegion'
  <1>1. /\ Steady /\ SameMemory /\ Item(t, "safe") /\ job[t].at = "next" /\ Disturbed(t) \subseteq doubtful'
        /\ \/ nvs'.safe = [nvs.safe EXCEPT ![Key(t)] = Value(t)]
           \/ nvs' = nvs /\ What(t) \in doubtful'
        /\ \/ Becomes(t, Through(job[t])) /\ What(t) \in doubtful'
           \/ Becomes(t, With(job[t], job[t].todo, "hold", job[t].seen))
    BY StoreSafeDoes
  <1>2. /\ \/ What(t) \in doubtful' /\ job'[t].at = "next"
           \/ job'[t].todo = job[t].todo /\ job'[t].at = "hold"
        /\ \A u \in Workers : u # t => job'[u] = job[u]
    <2>1. CASE Becomes(t, Through(job[t])) /\ What(t) \in doubtful'
      BY <2>1, BecomesThrough
    <2>2. CASE Becomes(t, With(job[t], job[t].todo, "hold", job[t].seen))
      BY <2>2, BecomesWith
    <2> QED BY <1>1, <2>1, <2>2
  <1>3. Key(t) \in Entries /\ What(t) = <<"safe", Key(t)>>
    BY <1>1, AtItem
  <1>4. /\ ram' = ram /\ doubtful \subseteq doubtful'
        /\ nvs'.safe[Key(t)] = Value(t) \/ What(t) \in doubtful'
        /\ \A n \in Entries : n # Key(t) => nvs'.safe[n] = nvs.safe[n]
    BY <1>1, <1>3 DEF Steady, SameMemory, Types, InFlash
  <1>5. SafeHeld'
    <2> SUFFICES ASSUME NEW n \in Entries
                 PROVE  \/ Unsure("safe", n)' \/ ram'.safe[n] = SafeLoaded(nvs')[n]
                        \/ \E u \in Workers : At(u, "safe", "hold")' /\ Key(u)' = n
      BY DEF SafeHeld
    <2>1. CASE n = Key(t)
      <3>1. CASE What(t) \in doubtful'
        BY <1>3, <2>1, <3>1 DEF Unsure
      <3>2. CASE job'[t].todo = job[t].todo /\ job'[t].at = "hold"
        BY <1>1, <2>1, <3>2 DEF At, Item, Key
      <3> QED BY <1>2, <3>1, <3>2
    <2>2. CASE n # Key(t)
      <3>1. SafeLoaded(nvs')[n] = SafeLoaded(nvs)[n]
        BY <1>4, <2>2 DEF SafeLoaded
      <3>2. \A u \in Workers : At(u, "safe", "hold") /\ Key(u) = n => At(u, "safe", "hold")' /\ Key(u)' = n
        BY <1>2, <2>2 DEF At, Item, Key
      <3>3. \/ Unsure("safe", n) \/ ram.safe[n] = SafeLoaded(nvs)[n]
            \/ \E u \in Workers : At(u, "safe", "hold") /\ Key(u) = n
        BY DEF SafeRegion, SafeHeld
      <3> QED BY <1>4, <3>1, <3>2, <3>3 DEF Unsure
    <2> QED BY <2>1, <2>2
  <1>6. SafeHolding'
    <2> SUFFICES ASSUME NEW u \in Workers, At(u, "safe", "hold")'
                 PROVE  <<"safe", Key(u)'>> \in doubtful' \/ nvs'.safe[Key(u)'] = Value(u)'
      BY DEF SafeHolding, Unsure
    <2>1. CASE u = t
      <3>1. Key(u)' = Key(t) /\ Value(u)' = Value(t)
        BY <1>2, <2>1 DEF At, Key, Value
      <3> QED BY <1>3, <1>4, <3>1
    <2>2. CASE u # t
      <3>1. At(u, "safe", "hold") /\ Key(u)' = Key(u) /\ Value(u)' = Value(u) /\ Item(u, "safe")
        BY <1>2, <2>2 DEF At, Item, Key, Value
      <3>2. Key(u) \in Entries /\ What(u) = <<"safe", Key(u)>> /\ job[u].todo # <<>>
        BY <3>1, AtItem
      <3>3. CASE Key(u) = Key(t)
        <4>1. What(u) \in doubtful'
          BY <1>1, <1>3, <2>2, <3>1, <3>2, <3>3, DisturbedOnes DEF SameItem, At
        <4> QED BY <3>1, <3>2, <4>1
      <3>4. CASE Key(u) # Key(t)
        <4>1. <<"safe", Key(u)>> \in doubtful \/ nvs.safe[Key(u)] = Value(u)
          BY <3>1 DEF SafeRegion, SafeHolding, Unsure
        <4> QED BY <1>4, <3>1, <3>2, <3>4, <4>1
      <3> QED BY <3>3, <3>4
    <2> QED BY <2>1, <2>2
  <1> QED BY <1>5, <1>6 DEF SafeRegion

\* So does memory following, on a device that serves.
LEMMA HoldSafeKeeps ==
    ASSUME Types, Jobs, SafeRegion, Serving, NEW t \in Workers, HoldSafe(t)
    PROVE  SafeRegion'
  <1>1. /\ Steady /\ SameFlash /\ Item(t, "safe") /\ job[t].at = "hold"
        /\ Becomes(t, Through(job[t]))
        /\ ram'.safe = [ram.safe EXCEPT ![Key(t)] = Value(t)]
    BY HoldSafeDoes
  <1>2. job'[t].at = "next" /\ \A u \in Workers : u # t => job'[u] = job[u]
    BY <1>1, BecomesThrough
  <1>3. /\ Key(t) \in Entries /\ Value(t) \in DOMAIN EntryDoc \cup {None}
        /\ Head(job[t].todo) = <<"safe", Key(t), Value(t)>> /\ Fits(job[t].op, Head(job[t].todo))
        /\ job[t].op \in {"command", "export", "import", "reset"} /\ job[t].op # "export"
    BY <1>1, AtItem
  <1>4. /\ nvs' = nvs /\ doubtful \subseteq doubtful'
        /\ ram'.safe[Key(t)] = Value(t)
        /\ \A n \in Entries : n # Key(t) => ram'.safe[n] = ram.safe[n]
    BY <1>1, <1>3 DEF Steady, SameFlash, Types, MemoryOK
  <1>5. job[t].op = "command"
    BY <1>3 DEF Serving
  <1>6. Value(t) # None => EntryValid(Value(t)) /\ EntryDoc[Value(t)].size < ENTRY_JSON_MAX
    BY <1>3, <1>5 DEF Fits, Checked
  <1>7. SafeHeld'
    <2> SUFFICES ASSUME NEW n \in Entries
                 PROVE  \/ Unsure("safe", n)' \/ ram'.safe[n] = SafeLoaded(nvs')[n]
                        \/ \E u \in Workers : At(u, "safe", "hold")' /\ Key(u)' = n
      BY DEF SafeHeld
    <2>1. CASE n = Key(t)
      <3>1. Unsure("safe", n) \/ nvs.safe[n] = Value(t)
        BY <1>1, <2>1 DEF SafeRegion, SafeHolding, At
      <3>2. nvs.safe[n] = Value(t) => SafeLoaded(nvs)[n] = Value(t)
        BY <1>6 DEF SafeLoaded
      <3> QED BY <1>4, <2>1, <3>1, <3>2 DEF Unsure
    <2>2. CASE n # Key(t)
      <3>1. \A u \in Workers : At(u, "safe", "hold") /\ Key(u) = n => At(u, "safe", "hold")' /\ Key(u)' = n
        BY <1>2, <2>2 DEF At, Item, Key
      <3>2. \/ Unsure("safe", n) \/ ram.safe[n] = SafeLoaded(nvs)[n]
            \/ \E u \in Workers : At(u, "safe", "hold") /\ Key(u) = n
        BY DEF SafeRegion, SafeHeld
      <3> QED BY <1>4, <2>2, <3>1, <3>2 DEF Unsure
    <2> QED BY <2>1, <2>2
  <1>8. SafeHolding'
    BY <1>2, <1>4 DEF SafeRegion, SafeHolding, At, Item, Key, Value, Unsure
  <1> QED BY <1>7, <1>8 DEF SafeRegion

\* The write of a binding keeps the slots' region: the slot is to be loaded.
LEMMA StoreSlotKeeps ==
    ASSUME Types, Jobs, SlotRegion, Serving, NEW t \in Workers, StoreSlot(t)
    PROVE  SlotRegion'
  <1>1. /\ Steady /\ SameMemory /\ Item(t, "slot") /\ job[t].at = "next" /\ Disturbed(t) \subseteq doubtful'
        /\ \/ nvs'.slot = [nvs.slot EXCEPT ![Key(t)] = Value(t)]
           \/ nvs' = nvs /\ What(t) \in doubtful'
        /\ \/ Becomes(t, Through(job[t])) /\ What(t) \in doubtful'
           \/ Becomes(t, With(job[t], job[t].todo, "load", job[t].seen))
    BY StoreSlotDoes DEF Serving
  <1>2. /\ \/ What(t) \in doubtful' /\ job'[t].at = "next"
           \/ job'[t].todo = job[t].todo /\ job'[t].at = "load"
        /\ \A u \in Workers : u # t => job'[u] = job[u]
    <2>1. CASE Becomes(t, Through(job[t])) /\ What(t) \in doubtful'
      BY <2>1, BecomesThrough
    <2>2. CASE Becomes(t, With(job[t], job[t].todo, "load", job[t].seen))
      BY <2>2, BecomesWith
    <2> QED BY <1>1, <2>1, <2>2
  <1>3. Key(t) \in ModeSlots /\ What(t) = <<"slot", Key(t)>>
    BY <1>1, AtItem
  <1>4. /\ ram' = ram /\ doubtful \subseteq doubtful' /\ InFlash(nvs') /\ InFlash(nvs)
        /\ nvs'.slot[Key(t)] = Value(t) \/ What(t) \in doubtful'
        /\ \A s \in ModeSlots : s # Key(t) => nvs'.slot[s] = nvs.slot[s]
    BY <1>1, <1>3 DEF Steady, SameMemory, Types, InFlash
  <1>5. SlotsHeld'
    <2> SUFFICES ASSUME NEW s \in ModeSlots
                 PROVE  \/ Unsure("slot", s)' \/ ram'.slot[s].binding = SlotLoaded(nvs', s).binding
                        \/ \E u \in Workers : At(u, "slot", "load")' /\ Key(u)' = s
      BY DEF SlotsHeld
    <2>1. CASE s = Key(t)
      <3>1. CASE What(t) \in doubtful'
        BY <1>3, <2>1, <3>1 DEF Unsure
      <3>2. CASE job'[t].todo = job[t].todo /\ job'[t].at = "load"
        BY <1>1, <2>1, <3>2 DEF At, Item, Key
      <3> QED BY <1>2, <3>1, <3>2
    <2>2. CASE s # Key(t)
      <3>1. SlotLoaded(nvs', s).binding = SlotLoaded(nvs, s).binding
        BY <1>4, <2>2, SameBinding
      <3>2. \A u \in Workers : At(u, "slot", "load") /\ Key(u) = s => At(u, "slot", "load")' /\ Key(u)' = s
        BY <1>2, <2>2 DEF At, Item, Key
      <3>3. \/ Unsure("slot", s) \/ ram.slot[s].binding = SlotLoaded(nvs, s).binding
            \/ \E u \in Workers : At(u, "slot", "load") /\ Key(u) = s
        BY DEF SlotRegion, SlotsHeld
      <3> QED BY <1>4, <3>1, <3>2, <3>3 DEF Unsure
    <2> QED BY <2>1, <2>2
  <1>6. SlotsLoading'
    <2> SUFFICES ASSUME NEW u \in Workers, At(u, "slot", "load")', Value(u)' = None
                 PROVE  <<"slot", Key(u)'>> \in doubtful' \/ nvs'.slot[Key(u)'] = None
      BY DEF SlotsLoading, Unsure
    <2>1. CASE u = t
      <3>1. Key(u)' = Key(t) /\ Value(u)' = Value(t)
        BY <1>2, <2>1 DEF At, Key, Value
      <3> QED BY <1>3, <1>4, <3>1
    <2>2. CASE u # t
      <3>1. At(u, "slot", "load") /\ Key(u)' = Key(u) /\ Value(u) = None /\ Item(u, "slot")
        BY <1>2, <2>2 DEF At, Item, Key, Value
      <3>2. Key(u) \in ModeSlots /\ What(u) = <<"slot", Key(u)>> /\ job[u].todo # <<>>
        BY <3>1, AtItem
      <3>3. CASE Key(u) = Key(t)
        <4>1. What(u) \in doubtful'
          BY <1>1, <1>3, <2>2, <3>1, <3>2, <3>3, DisturbedOnes DEF SameItem, At
        <4> QED BY <3>1, <3>2, <4>1
      <3>4. CASE Key(u) # Key(t)
        <4>1. <<"slot", Key(u)>> \in doubtful \/ nvs.slot[Key(u)] = None
          BY <3>1 DEF SlotRegion, SlotsLoading, Unsure
        <4> QED BY <1>4, <3>1, <3>2, <3>4, <4>1
      <3> QED BY <3>3, <3>4
    <2> QED BY <2>1, <2>2
  <1> QED BY <1>5, <1>6 DEF SlotRegion

\* So does loading it.
LEMMA LoadSlotKeeps ==
    ASSUME Types, Jobs, SlotRegion, NEW t \in Workers, LoadSlot(t)
    PROVE  SlotRegion'
  <1> DEFINE v == IF Value(t) = None THEN EmptySlot ELSE SlotLoaded(nvs, Key(t))
  <1>1. /\ Steady /\ SameFlash /\ Item(t, "slot") /\ job[t].at = "load"
        /\ Becomes(t, Through(job[t]))
        /\ ram'.slot = [ram.slot EXCEPT ![Key(t)] = v]
    BY LoadSlotDoes
  <1>2. job'[t].at = "next" /\ \A u \in Workers : u # t => job'[u] = job[u]
    BY <1>1, BecomesThrough
  <1>3. Key(t) \in ModeSlots
    BY <1>1, AtItem
  <1>4. v.binding = SlotLoaded(nvs, Key(t)).binding \/ <<"slot", Key(t)>> \in doubtful
    <2>1. CASE Value(t) # None
      BY <2>1
    <2>2. CASE Value(t) = None
      <3>1. <<"slot", Key(t)>> \in doubtful \/ nvs.slot[Key(t)] = None
        BY <1>1, <2>2 DEF SlotRegion, SlotsLoading, Unsure, At
      <3>2. nvs.slot[Key(t)] = None => SlotLoaded(nvs, Key(t)).binding = None
        BY <1>3, SlotBinding DEF Types
      <3>3. v.binding = None
        BY <2>2 DEF EmptySlot
      <3> QED BY <3>1, <3>2, <3>3
    <2> QED BY <2>1, <2>2
  <1> HIDE DEF v
  <1>5. /\ nvs' = nvs /\ doubtful \subseteq doubtful'
        /\ ram'.slot[Key(t)] = v
        /\ \A s \in ModeSlots : s # Key(t) => ram'.slot[s] = ram.slot[s]
    BY <1>1, <1>3 DEF Steady, SameFlash, Types, MemoryOK
  <1>6. SlotsHeld'
    <2> SUFFICES ASSUME NEW s \in ModeSlots
                 PROVE  \/ Unsure("slot", s)' \/ ram'.slot[s].binding = SlotLoaded(nvs', s).binding
                        \/ \E u \in Workers : At(u, "slot", "load")' /\ Key(u)' = s
      BY DEF SlotsHeld
    <2>1. CASE s = Key(t)
      BY <1>4, <1>5, <2>1 DEF Unsure
    <2>2. CASE s # Key(t)
      <3>1. \A u \in Workers : At(u, "slot", "load") /\ Key(u) = s => At(u, "slot", "load")' /\ Key(u)' = s
        BY <1>2, <2>2 DEF At, Item, Key
      <3>2. \/ Unsure("slot", s) \/ ram.slot[s].binding = SlotLoaded(nvs, s).binding
            \/ \E u \in Workers : At(u, "slot", "load") /\ Key(u) = s
        BY DEF SlotRegion, SlotsHeld
      <3> QED BY <1>5, <2>2, <3>1, <3>2 DEF Unsure
    <2> QED BY <2>1, <2>2
  <1>7. SlotsLoading'
    BY <1>2, <1>5 DEF SlotRegion, SlotsLoading, At, Item, Key, Value, Unsure
  <1> QED BY <1>6, <1>7 DEF SlotRegion

-----------------------------------------------------------------------------
(* A device that serves.                                                   *)

\* All three regions.
Regional == PrefRegion /\ SafeRegion /\ SlotRegion

\* A step goes on with its task's command or ends it.
LEMMA StepGoesOn ==
    ASSUME TypeInv, NEW t \in Workers, Step(t)
    PROVE  /\ recovery' = recovery /\ doubtful \subseteq doubtful'
           /\ \A u \in Workers : u # t => job'[u] = job[u]
           /\ \/ job'[t].op = job[t].op /\ restarting' = restarting
              \/ job'[t].op = "none" /\ job[t].op \in {"command", "export"} /\ restarting' = restarting
              \/ /\ restarting' = TRUE /\ job[t].op \in {"import", "reset", "restart"}
                 /\ job[t].op = "reset" => job'[t].op = "blocked"
  <1> USE DEF TypeInv
  <1>A. ASSUME Steady, Becomes(t, Through(job[t])) \/ \E place, seen : Becomes(t, With(job[t], job[t].todo, place, seen))
        PROVE  /\ recovery' = recovery /\ doubtful \subseteq doubtful' /\ restarting' = restarting
               /\ job'[t].op = job[t].op /\ \A u \in Workers : u # t => job'[u] = job[u]
    BY <1>A, BecomesThrough, BecomesWith DEF Steady
  <1>1. CASE StoreProfile(t)
    BY <1>1, <1>A, StoreProfileDoes
  <1>2. CASE StoreSlot(t)
    BY <1>2, <1>A, StoreSlotDoes
  <1>3. CASE LoadSlot(t)
    BY <1>3, <1>A, LoadSlotDoes
  <1>4. CASE HoldPref(t)
    BY <1>4, <1>A, HoldPrefDoes
  <1>5. CASE SavePref(t)
    BY <1>5, <1>A, SavePrefDoes
  <1>6. CASE ReadPrefs(t)
    BY <1>6, <1>A, ReadPrefsDoes
  <1>7. CASE CachePrefs(t)
    BY <1>7, <1>A, CachePrefsDoes
  <1>8. CASE StoreSafe(t)
    BY <1>8, <1>A, StoreSafeDoes
  <1>9. CASE HoldSafe(t)
    BY <1>9, <1>A, HoldSafeDoes
  <1>10. CASE SetActive(t)
    BY <1>10, <1>A, SetActiveDoes
  <1>11. CASE WipeFlash(t)
    BY <1>11, <1>A, WipeFlashDoes
  <1>12. CASE WipeMemory(t)
    BY <1>12, <1>A, WipeMemoryDoes
  <1>13. CASE ReadSection(t)
    <2>1. Steady /\ Becomes(t, More(job[t], Extended(job[t].dump, Key(t))))
      BY <1>13, ReadSectionDoes
    <2>2. job'[t].op = job[t].op /\ \A u \in Workers : u # t => job'[u] = job[u]
      BY <2>1 DEF Becomes, More
    <2> QED BY <2>1, <2>2 DEF Steady
  <1>14. CASE Finish(t)
    <2>1. /\ job[t].op \in {"command", "export", "import", "reset", "restart"}
          /\ Becomes(t, IF job[t].op \in {"reset", "restart"} THEN Blocked ELSE Idle)
          /\ restarting' = (restarting \/ job[t].op \in {"import", "reset", "restart"})
          /\ recovery' = recovery /\ doubtful' = doubtful
      BY <1>14, FinishDoes
    <2>2. \A u \in Workers : u # t => job'[u] = job[u]
      BY <2>1 DEF Becomes
    <2>3. job'[t] = IF job[t].op \in {"reset", "restart"} THEN Blocked ELSE Idle
      BY <2>1 DEF Becomes
    <2>4. CASE job[t].op \in {"command", "export"}
      <3>1. job'[t].op = "none" /\ restarting' = restarting
        BY <2>1, <2>3, <2>4, JobIdle DEF Types
      <3> QED BY <2>1, <2>2, <2>4, <3>1
    <2>5. CASE job[t].op \in {"import", "reset", "restart"}
      <3>1. restarting' = TRUE
        BY <2>1, <2>5
      <3>2. job[t].op = "reset" => job'[t].op = "blocked"
        BY <2>3, JobIdle
      <3> QED BY <2>1, <2>2, <2>5, <3>1, <3>2
    <2> QED BY <2>1, <2>4, <2>5
  <1> QED BY <1>1, <1>2, <1>3, <1>4, <1>5, <1>6, <1>7, <1>8, <1>9, <1>10, <1>11, <1>12, <1>13, <1>14 DEF Step

\* A step that touches no region keeps them.
LEMMA RegionsStay ==
    ASSUME TypeInv, TypeInv', Regional, \A kind : Same(kind), doubtful \subseteq doubtful',
           nvs'.slot = nvs.slot, nvs'.pref = nvs.pref, nvs'.safe = nvs.safe,
           ram'.slot = ram.slot, ram'.pref = ram.pref, ram'.safe = ram.safe, buzzer' = buzzer
    PROVE  Regional'
  <1>1. PrefRegion'
    BY PrefsStay DEF TypeInv, Regional
  <1>2. SafeRegion'
    BY SafeStays DEF TypeInv, Regional
  <1>3. SlotRegion'
    BY SlotsStay DEF TypeInv, Regional
  <1> QED BY <1>1, <1>2, <1>3 DEF Regional

\* A device that serves keeps its regions whatever step a task takes.
LEMMA ServingStep ==
    ASSUME TypeInv, Serving, Regional, NEW t \in Workers, Step(t)
    PROVE  Regional'
  <1>0. Types /\ Jobs /\ TypeInv' /\ Types' /\ PrefRegion /\ SafeRegion /\ SlotRegion
    BY StepTypes DEF TypeInv, Regional
  <1>A. ASSUME NEW kind, Item(t, kind), Steady,
               \/ Becomes(t, Through(job[t]))
               \/ \E place, seen : Becomes(t, With(job[t], job[t].todo, place, seen))
        PROVE  /\ kind # "pref" => Same("pref")
               /\ kind # "safe" => Same("safe")
               /\ kind # "slot" => Same("slot")
    BY <1>0, <1>A, OthersWait
  <1>P. ASSUME Same("pref"), Steady, nvs'.pref = nvs.pref, ram'.pref = ram.pref, buzzer' = buzzer
        PROVE  PrefRegion'
    BY <1>0, <1>P, PrefsStay DEF Steady
  <1>S. ASSUME Same("safe"), Steady, nvs'.safe = nvs.safe, ram'.safe = ram.safe
        PROVE  SafeRegion'
    BY <1>0, <1>S, SafeStays DEF Steady
  <1>L. ASSUME Same("slot"), Steady, nvs'.slot = nvs.slot, ram'.slot = ram.slot
        PROVE  SlotRegion'
    BY <1>0, <1>L, SlotsStay DEF Steady
  <1>W. ASSUME Item(t, "wipe") PROVE FALSE
    <2>1. job[t].op = "reset"
      BY <1>0, <1>W, AtItem
    <2> QED BY <2>1 DEF Serving
  <1>T. ASSUME Becomes(t, Through(job[t])), job[t].at = "next" PROVE \A kind : Same(kind)
    <2>1. Through(job[t]).at = "next"
      BY DEF Through, With
    <2> QED BY <1>0, <1>T, <2>1, WholeItem
  <1>1. CASE StoreProfile(t)
    BY <1>0, <1>1, <1>T, <1>P, <1>S, <1>L, StoreProfileDoes DEF SameMemory, Regional
  <1>2. CASE StoreSlot(t)
    <2>0. Item(t, "slot") /\ Steady /\ (Becomes(t, Through(job[t])) \/ Becomes(t, With(job[t], job[t].todo, "load", job[t].seen)))
      BY <1>0, <1>2, StoreSlotDoes
    <2>1. Same("pref") /\ Same("safe")
      BY <2>0, <1>A
    <2>2. SlotRegion'
      BY <1>0, <1>2, StoreSlotKeeps
    <2> QED BY <1>0, <1>2, <2>1, <2>2, <1>P, <1>S, StoreSlotDoes DEF SameMemory, Regional
  <1>3. CASE LoadSlot(t)
    <2>0. Item(t, "slot") /\ Steady /\ Becomes(t, Through(job[t]))
      BY <1>0, <1>3, LoadSlotDoes
    <2>1. Same("pref") /\ Same("safe")
      BY <2>0, <1>A
    <2>2. SlotRegion'
      BY <1>0, <1>3, LoadSlotKeeps
    <2> QED BY <1>0, <1>3, <2>1, <2>2, <1>P, <1>S, LoadSlotDoes DEF SameFlash, Regional
  <1>4. CASE HoldPref(t)
    <2>0. Item(t, "pref") /\ Steady /\ Becomes(t, With(job[t], job[t].todo, "save", job[t].seen))
      BY <1>0, <1>4, HoldPrefDoes
    <2>1. Same("slot") /\ Same("safe")
      BY <2>0, <1>A
    <2>2. PrefRegion'
      BY <1>0, <1>4, HoldPrefKeeps
    <2> QED BY <1>0, <1>4, <2>1, <2>2, <1>S, <1>L, HoldPrefDoes DEF SameFlash, Regional
  <1>5. CASE SavePref(t)
    <2>0. Item(t, "pref") /\ Steady /\ (Becomes(t, Through(job[t])) \/ Becomes(t, With(job[t], job[t].todo, "read", job[t].seen)))
      BY <1>0, <1>5, SavePrefDoes
    <2>1. Same("slot") /\ Same("safe")
      BY <2>0, <1>A
    <2>2. PrefRegion'
      BY <1>0, <1>5, SavePrefKeeps
    <2> QED BY <1>0, <1>5, <2>1, <2>2, <1>S, <1>L, SavePrefDoes DEF SameMemory, Regional
  <1>6. CASE ReadPrefs(t)
    <2>0. Item(t, "pref") /\ Steady /\ Becomes(t, With(job[t], job[t].todo, "cache", CacheOf(ram)))
      BY <1>0, <1>6, ReadPrefsDoes
    <2>1. Same("slot") /\ Same("safe")
      BY <2>0, <1>A
    <2>2. PrefRegion'
      BY <1>0, <1>6, ReadPrefsKeeps
    <2> QED BY <1>0, <1>6, <2>1, <2>2, <1>S, <1>L, ReadPrefsDoes DEF SameFlash, SameMemory, Regional
  <1>7. CASE CachePrefs(t)
    <2>0. Item(t, "pref") /\ Steady /\ Becomes(t, Through(job[t]))
      BY <1>0, <1>7, CachePrefsDoes
    <2>1. Same("slot") /\ Same("safe")
      BY <2>0, <1>A
    <2>2. PrefRegion'
      BY <1>0, <1>7, CachePrefsKeeps
    <2> QED BY <1>0, <1>7, <2>1, <2>2, <1>S, <1>L, CachePrefsDoes DEF SameFlash, Regional
  <1>8. CASE StoreSafe(t)
    <2>0. Item(t, "safe") /\ Steady /\ (Becomes(t, Through(job[t])) \/ Becomes(t, With(job[t], job[t].todo, "hold", job[t].seen)))
      BY <1>0, <1>8, StoreSafeDoes
    <2>1. Same("slot") /\ Same("pref")
      BY <2>0, <1>A
    <2>2. SafeRegion'
      BY <1>0, <1>8, StoreSafeKeeps
    <2> QED BY <1>0, <1>8, <2>1, <2>2, <1>P, <1>L, StoreSafeDoes DEF SameMemory, Regional
  <1>9. CASE HoldSafe(t)
    <2>0. Item(t, "safe") /\ Steady /\ Becomes(t, Through(job[t]))
      BY <1>0, <1>9, HoldSafeDoes
    <2>1. Same("slot") /\ Same("pref")
      BY <2>0, <1>A
    <2>2. SafeRegion'
      BY <1>0, <1>9, HoldSafeKeeps
    <2> QED BY <1>0, <1>9, <2>1, <2>2, <1>P, <1>L, HoldSafeDoes DEF SameFlash, Regional
  <1>10. CASE SetActive(t)
    BY <1>0, <1>10, <1>T, <1>P, <1>S, <1>L, SetActiveDoes DEF Regional
  <1>11. CASE WipeFlash(t)
    BY <1>0, <1>11, <1>W, WipeFlashDoes
  <1>12. CASE WipeMemory(t)
    BY <1>0, <1>12, <1>W, WipeMemoryDoes
  <1>13. CASE ReadSection(t)
    <2> DEFINE j == More(job[t], Extended(job[t].dump, Key(t)))
    <2>1. Steady /\ SameFlash /\ SameMemory /\ Becomes(t, j) /\ job[t].at = "next"
      BY <1>0, <1>13, ReadSectionDoes
    <2>2. j.at = "next"
      BY <2>1 DEF More
    <2> HIDE DEF j
    <2>3. \A kind : Same(kind)
      BY <1>0, <2>1, <2>2, WholeItem
    <2> QED BY <2>1, <2>3, <1>P, <1>S, <1>L DEF SameFlash, SameMemory, Regional
  <1>14. CASE Finish(t)
    <2> DEFINE j == IF job[t].op \in {"reset", "restart"} THEN Blocked ELSE Idle
    <2>1. /\ Becomes(t, j) /\ job[t].at = "next" /\ nvs' = nvs /\ ram' = ram /\ buzzer' = buzzer
          /\ doubtful' = doubtful
      BY <1>0, <1>14, FinishDoes
    <2>2. j.at = "next"
      BY JobIdle
    <2> HIDE DEF j
    <2>3. \A kind : Same(kind)
      BY <1>0, <2>1, <2>2, WholeItem
    <2> QED BY <1>0, <2>1, <2>3, RegionsStay
  <1> QED BY <1>1, <1>2, <1>3, <1>4, <1>5, <1>6, <1>7, <1>8, <1>9, <1>10, <1>11, <1>12, <1>13, <1>14 DEF Step

-----------------------------------------------------------------------------
(* The active slot, and the profiles that loaded slots use.                *)

\* A reset is under way or waits for its restart; a job about to remove a profile.
Resets == \E t \in Workers : job[t].op \in {"reset", "blocked"}
Removing(j) == j.todo # <<>> /\ Head(j.todo)[1] = "profile" /\ Head(j.todo)[3] = None /\ j.at = "next"
\* The inductive invariant of the stores: the regions while the device serves, the active
\* slot until a reset, the check of a removal, and the profiles of loaded slots.
StoreInv == /\ TypeInv
            /\ Serving => Regional
            /\ ActiveHeld /\ RemovalChecked /\ LoadedProfileKept

\* What is under way when a device has just booted: nothing, and memory is what flash gave.
Fresh == /\ TypeInv /\ ~restarting
         /\ \A t \in Workers : job[t] = Idle
         /\ ram = Loaded(nvs, recovery) /\ buzzer = CacheOf(ram)

\* It holds after a boot.
LEMMA FreshStore == Fresh => StoreInv
  <1> SUFFICES ASSUME Fresh PROVE StoreInv
    OBVIOUS
  <1>1. /\ TypeInv /\ InFlash(nvs) /\ recovery \in BOOLEAN /\ buzzer = CacheOf(ram)
        /\ ram.slot = [s \in ModeSlots |-> IF recovery THEN EmptySlot ELSE SlotLoaded(nvs, s)]
        /\ ram.pref = PrefsLoaded(nvs)
        /\ ram.safe = IF recovery THEN [n \in Entries |-> None] ELSE SafeLoaded(nvs)
        /\ ram.active = IF recovery THEN 1 ELSE ActiveLoaded(nvs)
    BY DEF Fresh, Loaded, TypeInv, Types
  <1>2. \A t \in Workers : job[t].todo = <<>> /\ job[t].at = "next" /\ job[t].op = "none"
    BY JobIdle DEF Fresh
  <1>3. \A t \in Workers : \A kind, where : ~Item(t, kind) /\ ~At(t, kind, where)
    BY <1>2 DEF Item, At
  <1>4. ASSUME Serving PROVE Regional
    <2>1. ~recovery
      BY <1>4 DEF Serving
    <2>2. PrefRegion
      BY <1>1, <1>3 DEF PrefRegion, PrefsHeld, PrefsSaving, BuzzerHeld, BuzzerCaching
    <2>3. SafeRegion
      BY <1>1, <1>3, <2>1 DEF SafeRegion, SafeHeld, SafeHolding
    <2>4. SlotRegion
      <3>1. \A s \in ModeSlots : ram.slot[s] = SlotLoaded(nvs, s)
        BY <1>1, <2>1
      <3> QED BY <1>3, <3>1 DEF SlotRegion, SlotsHeld, SlotsLoading
    <2> QED BY <2>2, <2>3, <2>4 DEF Regional
  <1>5. ActiveHeld
    BY <1>1 DEF ActiveHeld
  <1>6. RemovalChecked
    BY <1>3 DEF RemovalChecked
  <1>7. LoadedProfileKept
    <2> SUFFICES ASSUME NEW s \in ModeSlots, NEW id \in Ids, ram.slot[s].enabled, Uses(ram.slot[s].binding, id)
                 PROVE  nvs.profile[id] # None
      BY DEF LoadedProfileKept
    <2>1. ~EmptySlot.enabled
      BY DEF EmptySlot
    <2>2. ram.slot[s] = SlotLoaded(nvs, s)
      BY <1>1, <2>1
    <2>3. nvs.slot[s] # None /\ SlotLoaded(nvs, s).binding \in {nvs.slot[s], None}
      BY <1>1, <2>2, SlotBinding
    <2>4. SlotLoaded(nvs, s).enabled => SlotLoaded(nvs, s).binding = nvs.slot[s]
      BY DEF SlotLoaded, EmptySlot
    <2>5. BindingDoc[nvs.slot[s]].profile = id /\ id # Absent
      BY <2>2, <2>4, DocumentsAssumption DEF Uses
    <2> QED BY <1>1, <2>2, <2>5, SlotBinding
  <1> QED BY <1>1, <1>4, <1>5, <1>6, <1>7 DEF StoreInv

\* A boot, of either kind and also after a crash, loads memory from flash.
LEMMA BootFresh ==
    ASSUME TypeInv, Restarts \/ Crash
    PROVE  Fresh' /\ nvs' = nvs
  <1>1. CASE Restarts
    <2>1. BootWith(FALSE) /\ events' = events
      BY <1>1 DEF Restarts
    <2>2. events' \in 0 .. MaxEvents
      BY <2>1 DEF TypeInv, Types
    <2>3. TypeInv' /\ (\A t \in Workers : job'[t] = Idle) /\ nvs' = nvs /\ recovery' = FALSE /\ restarting' = FALSE
          /\ ram' = Loaded(nvs, FALSE) /\ buzzer' = CacheOf(ram')
      BY <2>1, <2>2, BootTypes
    <2>4. ram' = Loaded(nvs', recovery')
      BY <2>3
    <2> QED BY <2>3, <2>4 DEF Fresh
  <1>2. CASE Crash
    <2>1. PICK rec \in BOOLEAN : BootWith(rec)
      BY <1>2 DEF Crash
    <2>2. events' \in 0 .. MaxEvents
      <3>1. MaxEvents \in Nat
        BY ConfigurationAssumption
      <3> QED BY <1>2, <3>1 DEF Crash, Happens, TypeInv, Types
    <2>3. TypeInv' /\ (\A t \in Workers : job'[t] = Idle) /\ nvs' = nvs /\ recovery' = rec /\ restarting' = FALSE
          /\ ram' = Loaded(nvs, rec) /\ buzzer' = CacheOf(ram')
      BY <2>1, <2>2, BootTypes
    <2>4. ram' = Loaded(nvs', recovery')
      BY <2>3
    <2> QED BY <2>3, <2>4 DEF Fresh
  <1> QED BY <1>1, <1>2

\* A step does not make a device serve, nor end a reset before its restart.
LEMMA StepServing ==
    ASSUME TypeInv, NEW t \in Workers, Step(t)
    PROVE  /\ Serving' => Serving
           /\ Resets => Resets'
           /\ Wiping => Wiping'
  <1>1. /\ recovery' = recovery
        /\ \A u \in Workers : u # t => job'[u] = job[u]
        /\ \/ job'[t].op = job[t].op /\ restarting' = restarting
           \/ job'[t].op = "none" /\ job[t].op \in {"command", "export"} /\ restarting' = restarting
           \/ /\ restarting' = TRUE /\ job[t].op \in {"import", "reset", "restart"}
              /\ job[t].op = "reset" => job'[t].op = "blocked"
    BY StepGoesOn
  <1>2. Serving' => Serving
    BY <1>1 DEF Serving
  <1>3. ASSUME NEW u \in Workers, job[u].op \in {"reset", "blocked"}
        PROVE  job'[u].op \in {"reset", "blocked"}
    BY <1>1, <1>3
  <1>4. restarting => restarting'
    BY <1>1
  <1> QED BY <1>2, <1>3, <1>4 DEF Resets, Wiping

\* After its step a task is not about to remove a profile: it does that with the one item
\* of a command.
LEMMA StepRemovesNoMore ==
    ASSUME TypeInv, NEW t \in Workers, Step(t)
    PROVE  ~Removing(job'[t])
  <1>0. Types /\ Jobs
    BY DEF TypeInv
  <1>A. ASSUME Becomes(t, Through(job[t])), JobOK(job[t]), JobOK(Through(job[t])), job[t].todo # <<>>
        PROVE  ~Removing(job'[t])
    <2> DEFINE j == Through(job[t])
    <2>1. job'[t] = j /\ j.op = job[t].op /\ j.todo = Tail(job[t].todo)
      BY <1>A DEF Becomes, Through, With
    <2>2. SUFFICES ASSUME Removing(j) PROVE FALSE
      BY <2>1
    <2>3. j.todo \in Seq(Work) /\ j.todo # <<>>
      BY <1>A, <2>2 DEF Removing, JobOK
    <2>4. 1 \in DOMAIN j.todo /\ Head(j.todo) = j.todo[1]
      BY <2>3, InTail
    <2>5. j.op = "command"
      BY <1>A, <2>2, <2>4 DEF JobOK, Removing, Fits
    <2>6. Len(job[t].todo) <= 1 /\ Len(job[t].todo) \in Nat /\ Len(j.todo) = Len(job[t].todo) - 1
      BY <1>A, <2>1, <2>5, InTail DEF JobOK
    <2>7. Len(j.todo) \in Nat \ {0}
      BY <2>3, EmptySeq, LenProperties
    <2>8. PICK n, m : n = Len(job[t].todo) /\ m = Len(j.todo)
      OBVIOUS
    <2>9. n <= 1 /\ n \in Nat /\ m = n - 1 /\ m \in Nat /\ m # 0
      BY <2>6, <2>7, <2>8
    <2> QED BY <2>9
  <1>B. ASSUME NEW place, NEW seen, Becomes(t, With(job[t], job[t].todo, place, seen)), place # "next"
        PROVE  ~Removing(job'[t])
    BY <1>B, BecomesWith DEF Removing
  <1>C. \A kind : Item(t, kind) => JobOK(job[t]) /\ job[t].todo # <<>>
    BY <1>0, AtItem
  <1>1. CASE StoreProfile(t)
    BY <1>0, <1>1, <1>A, <1>C, StoreProfileDoes
  <1>2. CASE StoreSlot(t)
    BY <1>0, <1>2, <1>A, <1>B, <1>C, StoreSlotDoes
  <1>3. CASE LoadSlot(t)
    BY <1>0, <1>3, <1>A, <1>C, LoadSlotDoes
  <1>4. CASE HoldPref(t)
    BY <1>0, <1>4, <1>B, HoldPrefDoes
  <1>5. CASE SavePref(t)
    BY <1>0, <1>5, <1>A, <1>B, <1>C, SavePrefDoes
  <1>6. CASE ReadPrefs(t)
    BY <1>0, <1>6, <1>B, ReadPrefsDoes
  <1>7. CASE CachePrefs(t)
    BY <1>0, <1>7, <1>A, <1>C, CachePrefsDoes
  <1>8. CASE StoreSafe(t)
    BY <1>0, <1>8, <1>A, <1>B, <1>C, StoreSafeDoes
  <1>9. CASE HoldSafe(t)
    BY <1>0, <1>9, <1>A, <1>C, HoldSafeDoes
  <1>10. CASE SetActive(t)
    BY <1>0, <1>10, <1>A, <1>C, SetActiveDoes
  <1>11. CASE WipeFlash(t)
    BY <1>0, <1>11, <1>A, <1>B, <1>C, WipeFlashDoes
  <1>12. CASE WipeMemory(t)
    BY <1>0, <1>12, <1>A, <1>C, WipeMemoryDoes
  <1>13. CASE ReadSection(t)
    <2> DEFINE j == More(job[t], Extended(job[t].dump, Key(t)))
    <2>1. Item(t, "read") /\ Becomes(t, j) /\ JobOK(j)
      BY <1>0, <1>13, ReadSectionDoes
    <2>2. j.op = "export" /\ job'[t] = j
      BY <1>0, <2>1, AtItem DEF More, Becomes
    <2> HIDE DEF j
    <2>3. SUFFICES ASSUME Removing(j) PROVE FALSE
      BY <2>2
    <2>4. j.todo \in Seq(Work) /\ j.todo # <<>>
      BY <2>1, <2>3 DEF Removing, JobOK
    <2>5. 1 \in DOMAIN j.todo /\ Head(j.todo) = j.todo[1]
      BY <2>4, InTail
    <2> QED BY <2>1, <2>2, <2>3, <2>5 DEF JobOK, Removing, Fits
  <1>14. CASE Finish(t)
    <2>1. job'[t] = Idle \/ job'[t] = Blocked
      BY <1>0, <1>14, FinishDoes DEF Becomes
    <2> QED BY <2>1, JobIdle DEF Removing
  <1> QED BY <1>1, <1>2, <1>3, <1>4, <1>5, <1>6, <1>7, <1>8, <1>9, <1>10, <1>11, <1>12, <1>13, <1>14 DEF Step

\* What one step may change of the slots in memory and of the profiles and the active slot
\* in flash and memory.
LEMMA StepTouches ==
    ASSUME TypeInv, NEW t \in Workers, Step(t)
    PROVE  /\ \/ nvs'.profile = nvs.profile
              \/ At(t, "profile", "next") /\ nvs'.profile = [nvs.profile EXCEPT ![Key(t)] = Value(t)]
              \/ job[t].op = "reset"
           /\ \/ ram'.slot = ram.slot
              \/ LoadSlot(t)
           /\ \/ nvs'.active = nvs.active /\ ram'.active = ram.active
              \/ SetActive(t)
              \/ job[t].op = "reset"
  <1>0. Types /\ Jobs
    BY DEF TypeInv
  <1>1. CASE StoreProfile(t)
    <2>1. /\ SameMemory /\ nvs'.active = nvs.active /\ At(t, "profile", "next")
          /\ nvs'.profile = [nvs.profile EXCEPT ![Key(t)] = Value(t)] \/ nvs' = nvs
      BY <1>0, <1>1, StoreProfileDoes DEF At
    <2> QED BY <2>1 DEF SameMemory
  <1>2. CASE StoreSlot(t)
    BY <1>0, <1>2, StoreSlotDoes DEF SameMemory
  <1>3. CASE LoadSlot(t)
    BY <1>0, <1>3, LoadSlotDoes DEF SameFlash
  <1>4. CASE HoldPref(t)
    BY <1>0, <1>4, HoldPrefDoes DEF SameFlash
  <1>5. CASE SavePref(t)
    BY <1>0, <1>5, SavePrefDoes DEF SameMemory
  <1>6. CASE ReadPrefs(t)
    BY <1>0, <1>6, ReadPrefsDoes DEF SameFlash, SameMemory
  <1>7. CASE CachePrefs(t)
    BY <1>0, <1>7, CachePrefsDoes DEF SameFlash
  <1>8. CASE StoreSafe(t)
    BY <1>0, <1>8, StoreSafeDoes DEF SameMemory
  <1>9. CASE HoldSafe(t)
    BY <1>0, <1>9, HoldSafeDoes DEF SameFlash
  <1>10. CASE SetActive(t)
    BY <1>0, <1>10, SetActiveDoes
  <1>11. CASE WipeFlash(t)
    <2>1. SameMemory /\ Item(t, "wipe")
      BY <1>0, <1>11, WipeFlashDoes
    <2>2. job[t].op = "reset"
      BY <1>0, <2>1, AtItem
    <2> QED BY <2>1, <2>2 DEF SameMemory
  <1>12. CASE WipeMemory(t)
    BY <1>0, <1>12, WipeMemoryDoes DEF SameFlash
  <1>13. CASE ReadSection(t)
    BY <1>0, <1>13, ReadSectionDoes DEF SameFlash, SameMemory
  <1>14. CASE Finish(t)
    BY <1>0, <1>14, FinishDoes
  <1> QED BY <1>1, <1>2, <1>3, <1>4, <1>5, <1>6, <1>7, <1>8, <1>9, <1>10, <1>11, <1>12, <1>13, <1>14 DEF Step

\* A step keeps the active slot as flash has it.
LEMMA ActiveStep ==
    ASSUME TypeInv, ActiveHeld, NEW t \in Workers, Step(t)
    PROVE  ActiveHeld'
  <1>1. /\ recovery' = recovery /\ doubtful \subseteq doubtful'
        /\ Resets => Resets'
    BY StepGoesOn, StepServing
  <1>2. SUFFICES ASSUME ~recovery, ~Resets, ~Resets', <<"active", 0>> \notin doubtful'
                 PROVE  ram'.active = ActiveLoaded(nvs')
    BY <1>1 DEF ActiveHeld, Resets, Unsure
  <1>3. ram.active = ActiveLoaded(nvs) /\ job[t].op # "reset"
    BY <1>1, <1>2 DEF ActiveHeld, Resets, Unsure
  <1>4. CASE nvs'.active = nvs.active /\ ram'.active = ram.active
    BY <1>3, <1>4 DEF ActiveLoaded
  <1>5. CASE SetActive(t)
    <2>1. /\ Item(t, "active") /\ ram'.active = Value(t)
          /\ \/ nvs'.active = Value(t)
             \/ nvs' = nvs /\ ram.active = Value(t)
             \/ nvs' = nvs /\ What(t) \in doubtful'
      BY <1>5, SetActiveDoes DEF TypeInv
    <2>2. What(t) = <<"active", 0>> /\ Value(t) \in ModeSlots
      <3>1. What(t) = <<"active", Key(t)>> /\ Key(t) = 0 /\ Value(t) \in ModeSlots
        BY <2>1, AtItem DEF TypeInv
      <3> QED BY <3>1
    <2>3. CASE nvs'.active = Value(t)
      BY <2>1, <2>2, <2>3 DEF ActiveLoaded
    <2>4. CASE nvs' = nvs /\ ram.active = Value(t)
      BY <1>3, <2>1, <2>4
    <2> QED BY <1>2, <2>1, <2>2, <2>3, <2>4
  <1> QED BY <1>3, <1>4, <1>5, StepTouches

\* A step keeps a removal checked: a slot that is loaded makes it doubtful.
LEMMA RemovalStep ==
    ASSUME TypeInv, RemovalChecked, NEW t \in Workers, Step(t)
    PROVE  RemovalChecked'
  <1>1. /\ doubtful \subseteq doubtful' /\ \A u \in Workers : u # t => job'[u] = job[u]
        /\ (Wiping => Wiping') /\ ~Removing(job'[t])
    BY StepGoesOn, StepServing, StepRemovesNoMore
  <1>2. SUFFICES ASSUME ~Wiping', NEW u \in Workers, At(u, "profile", "next")', Value(u)' = None,
                        <<"profile", Key(u)'>> \notin doubtful',
                        NEW s \in ModeSlots
                 PROVE  ~ (ram'.slot[s].enabled /\ Uses(ram'.slot[s].binding, Key(u)'))
    BY DEF RemovalChecked, Unsure
  <1>3. u # t
    <2>1. Removing(job'[u])
      BY <1>2 DEF At, Item, Value, Removing
    <2> QED BY <1>1, <2>1
  <1>4. At(u, "profile", "next") /\ Value(u) = None /\ Key(u)' = Key(u) /\ Item(u, "profile")
    BY <1>1, <1>2, <1>3 DEF At, Item, Value, Key
  <1>5. ~ (ram.slot[s].enabled /\ Uses(ram.slot[s].binding, Key(u)))
    BY <1>1, <1>2, <1>4 DEF RemovalChecked, Unsure
  <1>6. ~LoadSlot(t)
    <2>1. What(u) = <<"profile", Key(u)>>
      BY <1>4, AtItem DEF TypeInv
    <2>2. LoadSlot(t) => What(u) \in doubtful'
      BY <1>4, LoadSlotDoes DEF TypeInv
    <2> QED BY <1>2, <1>4, <2>1, <2>2
  <1>7. ram'.slot = ram.slot
    BY <1>6, StepTouches
  <1> QED BY <1>4, <1>5, <1>7

\* A step keeps the profiles of loaded slots in flash.
LEMMA ProfileStep ==
    ASSUME TypeInv, RemovalChecked, LoadedProfileKept, NEW t \in Workers, Step(t)
    PROVE  LoadedProfileKept'
  <1>1. doubtful \subseteq doubtful' /\ (Wiping => Wiping')
    BY StepGoesOn, StepServing
  <1>2. SUFFICES ASSUME ~Wiping', NEW s \in ModeSlots, NEW id \in Ids,
                        ram'.slot[s].enabled, Uses(ram'.slot[s].binding, id),
                        <<"profile", id>> \notin doubtful'
                 PROVE  nvs'.profile[id] # None
    BY DEF LoadedProfileKept
  <1>3. ~Wiping /\ job[t].op # "reset"
    BY <1>1, <1>2 DEF Wiping
  <1>4. ram.slot[s].enabled /\ Uses(ram.slot[s].binding, id) => nvs.profile[id] # None
    BY <1>1, <1>2, <1>3 DEF LoadedProfileKept
  <1>5. CASE LoadSlot(t)
    <2> DEFINE v == IF Value(t) = None THEN EmptySlot ELSE SlotLoaded(nvs, Key(t))
    <2>1. /\ Item(t, "slot") /\ SameFlash
          /\ ram'.slot = [ram.slot EXCEPT ![Key(t)] = v]
      BY <1>5, LoadSlotDoes DEF TypeInv
    <2>2. CASE s # Key(t)
      <3>1. ram'.slot[s] = ram.slot[s]
        BY <2>1, <2>2 DEF TypeInv, Types, MemoryOK
      <3> QED BY <1>2, <1>4, <2>1, <3>1 DEF SameFlash
    <2>3. CASE s = Key(t)
      <3>1. ram'.slot[s] = v
        BY <2>1, <2>3 DEF TypeInv, Types, MemoryOK
      <3>2. ~EmptySlot.enabled
        BY DEF EmptySlot
      <3>3. v = SlotLoaded(nvs, s)
        BY <1>2, <2>3, <3>1, <3>2
      <3>4. SlotLoaded(nvs, s).enabled /\ Uses(SlotLoaded(nvs, s).binding, id)
        BY <1>2, <3>1, <3>3
      <3>5. SlotLoaded(nvs, s).binding = nvs.slot[s]
        BY <3>4 DEF SlotLoaded, EmptySlot
      <3>6. BindingDoc[nvs.slot[s]].profile = id /\ id # Absent
        BY <3>4, <3>5, DocumentsAssumption DEF Uses
      <3>7. nvs.profile[id] # None
        BY <3>4, <3>6, SlotBinding DEF TypeInv, Types
      <3> QED BY <2>1, <3>7 DEF SameFlash
    <2> QED BY <2>2, <2>3
  <1>6. CASE ram'.slot = ram.slot
    <2>1. nvs.profile[id] # None
      BY <1>2, <1>4, <1>6
    <2>2. CASE nvs'.profile = nvs.profile
      BY <2>1, <2>2
    <2>3. CASE At(t, "profile", "next") /\ nvs'.profile = [nvs.profile EXCEPT ![Key(t)] = Value(t)]
      <3>1. CASE id # Key(t)
        BY <2>1, <2>3, <3>1 DEF TypeInv, Types, InFlash
      <3>2. CASE id = Key(t)
        <4>1. nvs'.profile[id] = Value(t)
          BY <2>3, <3>2 DEF TypeInv, Types, InFlash
        <4>2. Value(t) = None => Unsure("profile", id)
          BY <1>2, <1>3, <1>6, <2>3, <3>2 DEF RemovalChecked
        <4> QED BY <1>1, <1>2, <4>1, <4>2 DEF Unsure
      <3> QED BY <3>1, <3>2
    <2> QED BY <1>3, <2>2, <2>3, StepTouches
  <1> QED BY <1>5, <1>6, StepTouches

\* The start of a job keeps the stores' invariant.
LEMMA StartingStore ==
    ASSUME StoreInv, TypeInv', NEW t \in Workers, NEW op, NEW todo, NEW dump, Starting(t, op, todo, dump)
    PROVE  StoreInv'
  <1>1. /\ job[t] = Idle /\ Sound(op, todo, dump)
        /\ nvs' = nvs /\ ram' = ram /\ buzzer' = buzzer /\ recovery' = recovery
        /\ restarting' = restarting /\ doubtful' = doubtful
    BY DEF Starting
  <1>2. ASSUME NEW u \in Workers, u # t
        PROVE  job'[u].op = job[u].op /\ job'[u].todo = job[u].todo /\ job'[u].at = job[u].at
    BY <1>2 DEF Starting, Lone
  <1>3. job'[t].op = op /\ job'[t].todo = todo /\ job'[t].at = "next"
    BY DEF Starting, New
  <1>4. job[t].op = "none" /\ job[t].todo = <<>>
    BY <1>1, JobIdle
  <1>5. Serving' => Serving
    BY <1>1, <1>2, <1>4 DEF Serving
  <1>6. Resets => Resets'
    <2>1. ASSUME NEW u \in Workers, job[u].op \in {"reset", "blocked"}
          PROVE  job'[u].op \in {"reset", "blocked"}
      BY <1>2, <1>4, <2>1
    <2> QED BY <2>1 DEF Resets
  <1>7. Serving' => Regional'
    <2>1. \A kind : Same(kind)
      BY StartWaits DEF StoreInv, TypeInv
    <2> QED BY <1>1, <1>5, <2>1, RegionsStay DEF StoreInv
  <1>8. ActiveHeld'
    BY <1>1, <1>6 DEF StoreInv, ActiveHeld, Resets, Unsure
  <1>9. Wiping => Wiping'
    BY <1>1, <1>6 DEF Wiping, Resets
  <1>10. RemovalChecked'
    <2> SUFFICES ASSUME ~Wiping', NEW u \in Workers, At(u, "profile", "next")', Value(u)' = None,
                        <<"profile", Key(u)'>> \notin doubtful',
                        NEW s \in ModeSlots
                 PROVE  ~ (ram'.slot[s].enabled /\ Uses(ram'.slot[s].binding, Key(u)'))
      BY DEF RemovalChecked, Unsure
    <2>1. CASE u = t
      <3>1. todo # <<>> /\ Head(todo)[1] = "profile" /\ Head(todo)[3] = None /\ Key(u)' = Head(todo)[2]
        BY <1>3, <2>1 DEF At, Item, Value, Key
      <3>2. todo \in Seq(Work)
        <4>1. JobOK(New(op, todo, dump, TRUE))
          BY <1>1 DEF Sound
        <4> QED BY <4>1 DEF JobOK, New
      <3>3. 1 \in DOMAIN todo /\ Head(todo) = todo[1]
        BY <3>1, <3>2, InTail
      <3>4. Unloaded(Key(u)')
        BY <1>1, <3>1, <3>3 DEF Sound
      <3> QED BY <1>1, <3>4 DEF Unloaded
    <2>2. CASE u # t
      <3>1. At(u, "profile", "next") /\ Value(u) = None /\ Key(u)' = Key(u)
        BY <1>2, <2>2 DEF At, Item, Value, Key
      <3> QED BY <1>1, <1>9, <3>1 DEF StoreInv, RemovalChecked, Unsure
    <2> QED BY <2>1, <2>2
  <1>11. LoadedProfileKept'
    BY <1>1, <1>9 DEF StoreInv, LoadedProfileKept
  <1> QED BY <1>7, <1>8, <1>10, <1>11 DEF StoreInv

\* The invariant is inductive.
LEMMA NextStore == StoreInv /\ [ConfigNext]_configVars => StoreInv'
  <1> SUFFICES ASSUME StoreInv, [ConfigNext]_configVars PROVE StoreInv'
    OBVIOUS
  <1>1. TypeInv /\ TypeInv'
    BY NextTypes DEF StoreInv
  <1>2. ASSUME NEW t \in Workers, Step(t)
        PROVE  StoreInv'
    <2>1. Serving' => Regional'
      BY <1>1, <1>2, StepServing, ServingStep DEF StoreInv
    <2>2. ActiveHeld' /\ RemovalChecked' /\ LoadedProfileKept'
      BY <1>1, <1>2, ActiveStep, RemovalStep, ProfileStep DEF StoreInv
    <2> QED BY <1>1, <2>1, <2>2 DEF StoreInv
  <1>3. CASE TokensOK' /\ Quiet
    <2>1. /\ nvs' = nvs /\ ram' = ram /\ buzzer' = buzzer /\ recovery' = recovery /\ job' = job
          /\ restarting' = restarting /\ doubtful' = doubtful
      BY <1>3 DEF Quiet
    <2>2. (Serving => Regional)'
      <3>1. Serving' => Serving
        BY <2>1 DEF Serving
      <3>2. \A kind : Same(kind)
        BY <2>1 DEF Same
      <3> QED BY <1>1, <2>1, <3>1, <3>2, RegionsStay DEF StoreInv
    <2>3. ActiveHeld'
      BY <2>1 DEF StoreInv, ActiveHeld, Unsure
    <2>4. RemovalChecked'
      BY <2>1 DEF StoreInv, RemovalChecked, Wiping, Unsure, At, Item, Key, Value
    <2>5. LoadedProfileKept'
      BY <2>1 DEF StoreInv, LoadedProfileKept, Wiping
    <2> QED BY <1>1, <2>2, <2>3, <2>4, <2>5 DEF StoreInv
  <1>4. ASSUME NEW t \in Workers, NEW op, NEW todo, NEW dump, Starting(t, op, todo, dump)
        PROVE  StoreInv'
    BY <1>1, <1>4, StartingStore
  <1>5. CASE Restarts \/ Crash
    <2>1. Fresh' => StoreInv'
      BY FreshStore, PTL
    <2> QED BY <1>1, <1>5, <2>1, BootFresh
  <1> QED BY <1>1, <1>2, <1>3, <1>4, <1>5, NextDoes

\* The first boot is a boot.
LEMMA InitFresh == ConfigInit => Fresh
  <1> SUFFICES ASSUME ConfigInit PROVE Fresh
    OBVIOUS
  <1>1. TypeInv
    BY InitTypes
  <1> QED BY <1>1 DEF ConfigInit, Fresh

\* The invariant implies what the runs check.
LEMMA StoreGiven == StoreInv => StoreConsistent
  <1> SUFFICES ASSUME StoreInv PROVE StoreConsistent
    OBVIOUS
  <1>1. HeldAsStored
    <2> SUFFICES ASSUME AtRest PROVE HeldAsStored
      BY DEF HeldAsStored
    <2>1. \A t \in Workers : job[t].todo = <<>> /\ job[t].op = "none"
      BY JobIdle DEF AtRest
    <2>2. \A t \in Workers : \A kind, where : ~Item(t, kind) /\ ~At(t, kind, where)
      BY <2>1 DEF Item, At
    <2>3. Serving
      BY <2>1 DEF Serving, AtRest
    <2>4. Regional
      BY <2>3 DEF StoreInv
    <2>5. \A k \in Keys : <<"pref", k>> \in doubtful \/ ram.pref[k] = PrefsLoaded(nvs)[k]
      BY <2>2, <2>4 DEF Regional, PrefRegion, PrefsHeld, Unsure
    <2>6. \A n \in Entries : <<"safe", n>> \in doubtful \/ ram.safe[n] = SafeLoaded(nvs)[n]
      BY <2>2, <2>4 DEF Regional, SafeRegion, SafeHeld, Unsure
    <2>7. \A s \in ModeSlots : <<"slot", s>> \in doubtful \/ ram.slot[s].binding = SlotLoaded(nvs, s).binding
      BY <2>2, <2>4 DEF Regional, SlotRegion, SlotsHeld, Unsure
    <2>8. (\E k \in Cached : <<"pref", k>> \in doubtful) \/ buzzer = CacheOf(ram)
      BY <2>2, <2>4 DEF Regional, PrefRegion, BuzzerHeld, UnsureCache, Unsure
    <2>9. <<"active", 0>> \in doubtful \/ ram.active = ActiveLoaded(nvs)
      BY <2>1 DEF StoreInv, ActiveHeld, Unsure, AtRest
    <2> QED BY <2>5, <2>6, <2>7, <2>8, <2>9 DEF HeldAsStored
  <1> QED BY <1>1 DEF StoreInv, StoreConsistent

\* Between commands, memory is what a boot would load from flash: preferences, safe entries,
\* bindings, the active slot and the buzzer's copy, except for items whose write failed or
\* met another one; and no loaded slot is left without its profile.  sd_prefs.c assigns
\* before it writes, sd_safe_store.c and sd_mode_engine.c write before they hold or load.
THEOREM StoreIsConsistent == ConfigSpec => []StoreConsistent
  <1>1. ConfigInit => StoreInv
    BY InitFresh, FreshStore
  <1>2. ConfigSpec => []StoreInv
    BY <1>1, NextStore, PTL DEF ConfigSpec
  <1> QED BY <1>2, StoreGiven, PTL

-----------------------------------------------------------------------------
(* An import or a reset that has the device to itself.                     *)

\* Only one task works if any job is alone.
Alone == \A t, u \in Workers :
    t # u /\ job[t].alone /\ job[t].op \notin {"none", "blocked"} => ~Working(u)
\* A job that had the device to itself, without a failed write, in a normal boot.
Undisturbed(t, op) == job[t].op = op /\ job[t].alone /\ doubtful = {} /\ ~recovery

\* A region is still to be erased; each is erased or still to be.
WipeLeft(j, h) == \E i \in DOMAIN j.todo : j.todo[i][2] = h /\ (i = 1 => j.at = "next")
WipeSoFar == \A t \in Workers : Undisturbed(t, "reset") =>
    \A h \in Regions : Part(nvs, h) \/ WipeLeft(job[t], h)

\* The flash has an item of a dump; the places at which a task has written the item it is at.
InStore(x) ==
    /\ x[1] = "profile" => nvs.profile[x[2]] = x[3]
    /\ x[1] = "slot" => nvs.slot[x[2]] = x[3]
    /\ x[1] = "pref" => nvs.pref[x[2]] = x[3]
    /\ x[1] = "active" => ActiveLoaded(nvs) = x[3]
\* The places of an item at which flash has it already.
AfterWrite == {"load", "read", "cache"}
\* An item is still to be written; each item of the dump is in flash or still to be.
Left(j, x) == \E i \in DOMAIN j.todo : j.todo[i] = x /\ (i = 1 => j.at \notin AfterWrite)
ImportSoFar == \A t \in Workers : Undisturbed(t, "import") =>
    \A x \in Wanted(job[t].dump) : InStore(x) \/ Left(job[t], x)

\* What the last job left behind when nothing disturbed it.
LastDone == last # None =>
    /\ last = [op |-> last.op, dump |-> last.dump] /\ last.op \in {"import", "reset"} /\ ~recovery
    /\ \A t \in Workers : job[t].op \in {"none", "blocked"}
    /\ last.op = "reset" => nvs = Erased
    /\ last.op = "import" =>
        /\ DumpShape(last.dump) /\ Accepted(last.dump)
        /\ \A x \in Wanted(last.dump) : InStore(x)
        /\ restarting \/ (ram = Loaded(nvs, FALSE) /\ buzzer = CacheOf(ram))

\* The inductive invariant of the jobs.
JobInv == StoreInv /\ Alone /\ WipeSoFar /\ ImportSoFar /\ LastDone

\* A step is one of a task that works, which stays alone or not as it was.
LEMMA StepWorks ==
    ASSUME TypeInv, NEW t \in Workers, Step(t)
    PROVE  /\ job[t].op \in {"command", "export", "import", "reset", "restart"}
           /\ \/ job'[t].op = job[t].op /\ job'[t].alone = job[t].alone /\ (job[t].op # "export" => job'[t].dump = job[t].dump)
              \/ job'[t].op \in {"none", "blocked"} /\ Finish(t)
  <1> USE DEF TypeInv
  <1>A. ASSUME NEW kind, Item(t, kind),
               Becomes(t, Through(job[t])) \/ \E place, seen : Becomes(t, With(job[t], job[t].todo, place, seen))
        PROVE  /\ job[t].op \in {"command", "export", "import", "reset", "restart"}
               /\ job'[t].op = job[t].op /\ job'[t].alone = job[t].alone /\ job'[t].dump = job[t].dump
    <2>1. job[t].op \in {"command", "export", "import", "reset", "restart"}
      BY <1>A, AtItem
    <2> QED BY <1>A, <2>1 DEF Becomes, Through, With
  <1>1. CASE StoreProfile(t)
    BY <1>1, <1>A, StoreProfileDoes
  <1>2. CASE StoreSlot(t)
    BY <1>2, <1>A, StoreSlotDoes
  <1>3. CASE LoadSlot(t)
    BY <1>3, <1>A, LoadSlotDoes
  <1>4. CASE HoldPref(t)
    BY <1>4, <1>A, HoldPrefDoes
  <1>5. CASE SavePref(t)
    BY <1>5, <1>A, SavePrefDoes
  <1>6. CASE ReadPrefs(t)
    BY <1>6, <1>A, ReadPrefsDoes
  <1>7. CASE CachePrefs(t)
    BY <1>7, <1>A, CachePrefsDoes
  <1>8. CASE StoreSafe(t)
    BY <1>8, <1>A, StoreSafeDoes
  <1>9. CASE HoldSafe(t)
    BY <1>9, <1>A, HoldSafeDoes
  <1>10. CASE SetActive(t)
    BY <1>10, <1>A, SetActiveDoes
  <1>11. CASE WipeFlash(t)
    BY <1>11, <1>A, WipeFlashDoes
  <1>12. CASE WipeMemory(t)
    BY <1>12, <1>A, WipeMemoryDoes
  <1>13. CASE ReadSection(t)
    <2>1. Item(t, "read") /\ Becomes(t, More(job[t], Extended(job[t].dump, Key(t))))
      BY <1>13, ReadSectionDoes
    <2>2. job[t].op = "export"
      BY <2>1, AtItem
    <2>3. job'[t].op = job[t].op /\ job'[t].alone = job[t].alone
      BY <2>1 DEF Becomes, More
    <2> QED BY <2>2, <2>3
  <1>14. CASE Finish(t)
    <2>1. /\ job[t].op \in {"command", "export", "import", "reset", "restart"}
          /\ Becomes(t, IF job[t].op \in {"reset", "restart"} THEN Blocked ELSE Idle)
      BY <1>14, FinishDoes
    <2>2. job'[t].op \in {"none", "blocked"}
      BY <2>1, JobIdle DEF Becomes
    <2> QED BY <1>14, <2>1, <2>2
  <1> QED BY <1>1, <1>2, <1>3, <1>4, <1>5, <1>6, <1>7, <1>8, <1>9, <1>10, <1>11, <1>12, <1>13, <1>14 DEF Step

\* A step leaves alone what was alone; the only one at work is the one that steps.
LEMMA StepAlone ==
    ASSUME TypeInv, Alone, NEW t \in Workers, Step(t)
    PROVE  /\ Alone'
           /\ \A u \in Workers, op \in {"import", "reset"} : Undisturbed(u, op)' =>
                u = t /\ Undisturbed(u, op) /\ doubtful' = {} /\ ~Finish(t)
           /\ \A u \in Workers : u # t /\ job[t].alone => job[u].op = "none"
  <1>1. /\ job[t].op \in {"command", "export", "import", "reset", "restart"}
        /\ \/ job'[t].op = job[t].op /\ job'[t].alone = job[t].alone
           \/ job'[t].op \in {"none", "blocked"}
    BY StepWorks
  <1>2. /\ recovery' = recovery /\ doubtful \subseteq doubtful'
        /\ \A u \in Workers : u # t => job'[u] = job[u]
    BY StepGoesOn
  <1>3. \A u \in Workers : u # t /\ job[u].alone => job[u].op \in {"none", "blocked"}
    BY <1>1 DEF Alone, Working
  <1>4. \A u \in Workers : u # t /\ job[t].alone => job[u].op = "none"
    BY <1>1 DEF Alone, Working
  <1>5. Alone'
    <2> SUFFICES ASSUME NEW v \in Workers, NEW u \in Workers, v # u, job'[v].alone,
                        job'[v].op \notin {"none", "blocked"}
                 PROVE  job'[u].op = "none"
      BY DEF Alone, Working
    <2>1. v = t
      BY <1>2, <1>3
    <2> QED BY <1>1, <1>2, <1>4, <2>1
  <1>6. ASSUME NEW u \in Workers, NEW op \in {"import", "reset"}, Undisturbed(u, op)'
        PROVE  u = t /\ Undisturbed(u, op) /\ doubtful' = {} /\ ~Finish(t)
    <2>1. job'[u].op = op /\ job'[u].alone /\ doubtful' = {} /\ ~recovery'
      BY <1>6 DEF Undisturbed
    <2>2. u = t
      BY <1>2, <1>3, <2>1
    <2>3. job'[t].op = job[t].op /\ job'[t].alone = job[t].alone /\ doubtful = {}
      BY <1>1, <1>2, <2>1, <2>2
    <2>4. ~Finish(t)
      <3>1. Finish(t) => job'[t] = Idle \/ job'[t] = Blocked
        BY FinishDoes DEF Becomes, TypeInv
      <3> QED BY <2>1, <2>2, <3>1, JobIdle
    <2> QED BY <1>2, <2>1, <2>2, <2>3, <2>4 DEF Undisturbed
  <1> QED BY <1>4, <1>5, <1>6

\* The job that starts is the only one at work if it is alone.
LEMMA StartingAlone ==
    ASSUME TypeInv, NEW t \in Workers, NEW op, NEW todo, NEW dump, Starting(t, op, todo, dump)
    PROVE  /\ Alone'
           /\ \A u \in Workers, o \in {"import", "reset"} : Undisturbed(u, o)' => u = t /\ ~recovery
  <1>1. ASSUME NEW u \in Workers, u # t
        PROVE  job'[u].op = job[u].op /\ job'[u].alone = (~Working(u))
    BY <1>1 DEF Starting, Lone
  <1>2. job'[t].op = op /\ job'[t].alone = (\A v \in Workers \ {t} : ~Working(v))
    BY DEF Starting, New
  <1>3. ASSUME NEW u \in Workers, u # t, job'[u].alone
        PROVE  job'[u].op = "none"
    BY <1>1, <1>3 DEF Working
  <1>4. ASSUME job'[t].alone, NEW u \in Workers, u # t
        PROVE  job'[u].op = "none"
    BY <1>1, <1>2, <1>4 DEF Working
  <1>5. Alone'
    BY <1>3, <1>4 DEF Alone, Working
  <1>6. recovery' = recovery
    BY DEF Starting
  <1> QED BY <1>3, <1>5, <1>6 DEF Undisturbed

\* What is left of a job after a step: the items other than the one it was at, and that
\* one as long as it is not done.
LEMMA WipeGoes ==
    ASSUME NEW t \in Workers, JobOK(job[t]), job[t].todo # <<>>, NEW h, WipeLeft(job[t], h),
           Head(job[t].todo)[2] # h \/ job[t].at # "next",
           \/ Becomes(t, Through(job[t]))
           \/ \E place, seen : Becomes(t, With(job[t], job[t].todo, place, seen))
    PROVE  WipeLeft(job'[t], h)
  <1>1. PICK i \in DOMAIN job[t].todo : job[t].todo[i][2] = h /\ (i = 1 => job[t].at = "next")
    BY DEF WipeLeft
  <1>2. job[t].todo \in Seq(Work)
    BY DEF JobOK
  <1>3. Head(job[t].todo) = job[t].todo[1] /\ i # 1
    <2>1. Head(job[t].todo) = job[t].todo[1]
      BY <1>2, InTail
    <2> QED BY <1>1, <2>1
  <1>4. CASE Becomes(t, Through(job[t]))
    <2>1. i - 1 \in DOMAIN Tail(job[t].todo) /\ Tail(job[t].todo)[i - 1] = job[t].todo[i]
      BY <1>2, <1>3, InTail
    <2>2. job'[t].todo = Tail(job[t].todo) /\ job'[t].at = "next"
      BY <1>4, BecomesThrough
    <2> QED BY <1>1, <2>1, <2>2 DEF WipeLeft
  <1>5. ASSUME NEW place, NEW seen, Becomes(t, With(job[t], job[t].todo, place, seen))
        PROVE  WipeLeft(job'[t], h)
    <2>1. job'[t].todo = job[t].todo
      BY <1>5, BecomesWith
    <2> QED BY <1>1, <1>3, <2>1 DEF WipeLeft
  <1> QED BY <1>4, <1>5

\* The same of an import.
LEMMA ImportGoes ==
    ASSUME NEW t \in Workers, JobOK(job[t]), job[t].todo # <<>>, NEW x, Left(job[t], x),
           Head(job[t].todo) # x \/ job[t].at \in AfterWrite,
           \/ Becomes(t, Through(job[t]))
           \/ \E place, seen : Becomes(t, With(job[t], job[t].todo, place, seen))
    PROVE  Left(job'[t], x)
  <1>1. PICK i \in DOMAIN job[t].todo : job[t].todo[i] = x /\ (i = 1 => job[t].at \notin AfterWrite)
    BY DEF Left
  <1>2. job[t].todo \in Seq(Work)
    BY DEF JobOK
  <1>3. Head(job[t].todo) = job[t].todo[1] /\ i # 1
    <2>1. Head(job[t].todo) = job[t].todo[1]
      BY <1>2, InTail
    <2> QED BY <1>1, <2>1
  <1>4. CASE Becomes(t, Through(job[t]))
    <2>1. i - 1 \in DOMAIN Tail(job[t].todo) /\ Tail(job[t].todo)[i - 1] = job[t].todo[i]
      BY <1>2, <1>3, InTail
    <2>2. job'[t].todo = Tail(job[t].todo) /\ job'[t].at = "next"
      BY <1>4, BecomesThrough
    <2> QED BY <1>1, <2>1, <2>2 DEF Left, AfterWrite
  <1>5. ASSUME NEW place, NEW seen, Becomes(t, With(job[t], job[t].todo, place, seen))
        PROVE  Left(job'[t], x)
    <2>1. job'[t].todo = job[t].todo
      BY <1>5, BecomesWith
    <2> QED BY <1>1, <1>3, <2>1 DEF Left
  <1> QED BY <1>4, <1>5

\* A preference held in memory is not yet in flash, and is not done.
LEMMA ImportHolds ==
    ASSUME NEW t \in Workers, NEW x, Left(job[t], x),
           Becomes(t, With(job[t], job[t].todo, "save", job[t].seen))
    PROVE  Left(job'[t], x)
  <1>1. job'[t].todo = job[t].todo /\ job'[t].at = "save"
    BY BecomesWith
  <1> QED BY <1>1 DEF Left, AfterWrite

\* A step of a reset leaves each region erased or still to be.
LEMMA WipeStep ==
    ASSUME TypeInv, NEW t \in Workers, Step(t), ~Finish(t), doubtful' = {}, job[t].op = "reset",
           NEW h \in Regions, Part(nvs, h) \/ WipeLeft(job[t], h)
    PROVE  Part(nvs', h) \/ WipeLeft(job'[t], h)
  <1>0. Types /\ Jobs
    BY DEF TypeInv
  <1>1. ASSUME NEW kind, Item(t, kind) PROVE kind = "wipe"
    BY <1>0, <1>1, AtItem
  <1>2. ASSUME WipeFlash(t) PROVE Part(nvs', h) \/ WipeLeft(job'[t], h)
    <2>1. /\ Item(t, "wipe") /\ Key(t) \in Regions
          /\ nvs' = ErasedBy(Key(t))
          /\ \/ Becomes(t, Through(job[t]))
             \/ Becomes(t, With(job[t], job[t].todo, "forget", job[t].seen))
      BY <1>0, <1>2, WipeFlashDoes
    <2>2. /\ JobOK(job[t]) /\ job[t].todo # <<>> /\ Head(job[t].todo)[2] = Key(t)
      BY <1>0, <2>1, AtItem
    <2>3. CASE Part(nvs, h) \/ h = Key(t)
      BY <1>0, <2>1, <2>3, FlashErased DEF Types
    <2>4. CASE WipeLeft(job[t], h) /\ h # Key(t)
      BY <2>1, <2>2, <2>4, WipeGoes
    <2> QED BY <2>3, <2>4
  <1>3. ASSUME WipeMemory(t) PROVE Part(nvs', h) \/ WipeLeft(job'[t], h)
    <2>1. SameFlash /\ Item(t, "wipe") /\ job[t].at = "forget" /\ Becomes(t, Through(job[t]))
      BY <1>0, <1>3, WipeMemoryDoes
    <2>2. JobOK(job[t]) /\ job[t].todo # <<>>
      BY <1>0, <2>1, AtItem
    <2>3. CASE Part(nvs, h)
      BY <2>1, <2>3 DEF SameFlash, Part
    <2>4. CASE WipeLeft(job[t], h)
      BY <2>1, <2>2, <2>4, WipeGoes
    <2> QED BY <2>3, <2>4
  <1>4. ~StoreProfile(t) /\ ~StoreSlot(t) /\ ~LoadSlot(t) /\ ~HoldPref(t)
    BY <1>1 DEF StoreProfile, StoreSlot, LoadSlot, HoldPref, At
  <1>5. ~SavePref(t) /\ ~ReadPrefs(t) /\ ~CachePrefs(t) /\ ~StoreSafe(t)
    BY <1>1 DEF SavePref, ReadPrefs, CachePrefs, StoreSafe, At
  <1>6. ~HoldSafe(t) /\ ~SetActive(t) /\ ~ReadSection(t)
    BY <1>1 DEF HoldSafe, SetActive, ReadSection, At
  <1> QED BY <1>2, <1>3, <1>4, <1>5, <1>6 DEF Step

\* The item at the head is written to flash, and the others are as they were.
LEMMA ImportWrites ==
    ASSUME TypeInv, NEW t \in Workers, NEW kind, Item(t, kind), job[t].op = "import",
           NEW x \in Wanted(job[t].dump), InStore(x) \/ Left(job[t], x),
           \/ Becomes(t, Through(job[t]))
           \/ \E place, seen : Becomes(t, With(job[t], job[t].todo, place, seen)),
           x = Head(job[t].todo) => InStore(x)',
           ~ (x[1] = kind /\ x[2] = Key(t)) /\ InStore(x) => InStore(x)'
    PROVE  InStore(x)' \/ Left(job'[t], x)
  <1>1. /\ JobOK(job[t]) /\ job[t].todo # <<>> /\ 1 \in DOMAIN job[t].todo
        /\ Head(job[t].todo) = job[t].todo[1] /\ Head(job[t].todo) = <<kind, Key(t), Value(t)>>
    BY AtItem DEF TypeInv
  <1>2. Head(job[t].todo) \in Wanted(job[t].dump) \cup SafeOf(job[t].dump)
    BY <1>1 DEF JobOK
  <1>3. CASE x[1] = kind /\ x[2] = Key(t)
    <2>1. x = Head(job[t].todo)
      BY <1>1, <1>2, <1>3, DumpItemsDiffer
    <2> QED BY <2>1
  <1>4. CASE ~ (x[1] = kind /\ x[2] = Key(t)) /\ InStore(x)
    BY <1>4
  <1>5. CASE ~ (x[1] = kind /\ x[2] = Key(t)) /\ Left(job[t], x)
    <2>1. Head(job[t].todo) # x
      BY <1>1, <1>5
    <2> QED BY <1>1, <1>5, <2>1, ImportGoes
  <1> QED BY <1>3, <1>4, <1>5

\* The write is done, and memory follows.
LEMMA ImportFollows ==
    ASSUME TypeInv, NEW t \in Workers, NEW kind, Item(t, kind), nvs' = nvs,
           job[t].at \in AfterWrite,
           \/ Becomes(t, Through(job[t]))
           \/ \E place, seen : Becomes(t, With(job[t], job[t].todo, place, seen)),
           NEW x, InStore(x) \/ Left(job[t], x)
    PROVE  InStore(x)' \/ Left(job'[t], x)
  <1>1. JobOK(job[t]) /\ job[t].todo # <<>>
    BY AtItem DEF TypeInv
  <1>2. CASE InStore(x)
    BY <1>2 DEF InStore, ActiveLoaded
  <1>3. CASE Left(job[t], x)
    BY <1>1, <1>3, ImportGoes
  <1> QED BY <1>2, <1>3

\* The items of a dump that was accepted.
LEMMA WantedShape ==
    ASSUME NEW d, DumpShape(d), Accepted(d), NEW x \in Wanted(d)
    PROVE  /\ x[1] \in {"profile", "slot", "pref", "active"}
           /\ x[1] = "profile" => x[2] \in Ids
           /\ x[1] = "slot" => x[2] \in ModeSlots
           /\ x[1] = "pref" => x[2] \in Keys
           /\ x[1] = "active" => x[2] = 0
  <1>1. x \in Work
    BY DumpItems DEF Accepted
  <1>2. x[1] # "safe" /\ x[1] \in {"profile", "slot", "pref", "active"}
    BY DEF Wanted, Profiles, SlotsOf, PrefsOf, ActiveOf
  <1> QED BY <1>1, <1>2, WorkShape

\* A step of an import leaves each item in flash or still to be written: no two items have
\* one kind and key, so none undoes another.
LEMMA ImportStep ==
    ASSUME StoreInv, NEW t \in Workers, Step(t), ~Finish(t), Undisturbed(t, "import"), doubtful' = {},
           \A u \in Workers : u # t => job[u].op = "none",
           NEW x \in Wanted(job[t].dump), InStore(x) \/ Left(job[t], x)
    PROVE  InStore(x)' \/ Left(job'[t], x)
  <1>0. /\ Types /\ Jobs /\ TypeInv /\ job[t].op = "import" /\ ~recovery /\ doubtful = {}
        /\ InFlash(nvs)
    BY DEF StoreInv, TypeInv, Undisturbed, Types
  <1>J. JobOK(job[t]) /\ DumpShape(job[t].dump) /\ Accepted(job[t].dump)
    <2>1. JobOK(job[t])
      BY <1>0 DEF Jobs
    <2> QED BY <1>0, <2>1 DEF JobOK
  <1>X. /\ x[1] \in {"profile", "slot", "pref", "active"}
        /\ x[1] = "profile" => x[2] \in DOMAIN nvs.profile
        /\ x[1] = "slot" => x[2] \in DOMAIN nvs.slot
        /\ x[1] = "pref" => x[2] \in DOMAIN nvs.pref
        /\ x[1] = "active" => x[2] = 0
    BY <1>0, <1>J, WantedShape DEF InFlash
  <1>K. ASSUME NEW kind, Item(t, kind)
        PROVE  /\ kind \notin {"wipe", "read"}
               /\ Head(job[t].todo) = <<kind, Key(t), Value(t)>> /\ 1 \in DOMAIN job[t].todo
               /\ Head(job[t].todo) = job[t].todo[1]
    BY <1>0, <1>K, AtItem
  <1>1. ASSUME StoreProfile(t) PROVE InStore(x)' \/ Left(job'[t], x)
    <2>1. /\ Item(t, "profile") /\ Becomes(t, Through(job[t]))
          /\ nvs'.slot = nvs.slot /\ nvs'.pref = nvs.pref /\ nvs'.active = nvs.active
          /\ \/ nvs'.profile = [nvs.profile EXCEPT ![Key(t)] = Value(t)]
             \/ nvs' = nvs /\ What(t) \in doubtful'
             \/ nvs' = nvs /\ Value(t) # None /\ ProfileDoc[Value(t)].size > SD_PROFILE_JSON_MAX
      BY <1>0, <1>1, StoreProfileDoes
    <2>2. Key(t) \in Ids /\ Value(t) \in DOMAIN ProfileDoc \cup {None}
      BY <1>0, <2>1, AtItem
    <2>3. ~ (Value(t) # None /\ ProfileDoc[Value(t)].size > SD_PROFILE_JSON_MAX)
      <3>1. <<"profile", Key(t), Value(t)>> \in Wanted(job[t].dump) \cup SafeOf(job[t].dump)
        BY <1>0, <1>J, <1>K, <2>1 DEF JobOK
      <3>2. Key(t) \in DOMAIN job[t].dump.profiles /\ Value(t) = job[t].dump.profiles[Key(t)]
        BY <3>1 DEF Wanted, Profiles, SlotsOf, PrefsOf, ActiveOf, SafeOf
      <3>3. ProfileDoc[Value(t)].size <= SD_PROFILE_JSON_MAX
        BY <1>J, <3>2, DumpProfilesFit
      <3>4. Value(t) # None => ProfileDoc[Value(t)].size \in Nat
        BY <2>2, DocumentsAssumption
      <3>5. SD_PROFILE_JSON_MAX \in Nat
        BY LimitsAssumption
      <3> QED BY <3>3, <3>4, <3>5
    <2>4. nvs'.profile = [nvs.profile EXCEPT ![Key(t)] = Value(t)]
      BY <2>1, <2>3
    <2>5. x = Head(job[t].todo) => InStore(x)'
      <3>1. nvs'.profile[Key(t)] = Value(t)
        BY <1>0, <2>2, <2>4 DEF InFlash
      <3>2. Head(job[t].todo) = <<"profile", Key(t), Value(t)>>
        BY <1>K, <2>1
      <3>3. x = Head(job[t].todo) => x[1] = "profile" /\ x[2] = Key(t) /\ x[3] = Value(t)
        BY <3>2
      <3> QED BY <3>1, <3>3 DEF InStore
    <2>6. ~ (x[1] = "profile" /\ x[2] = Key(t)) /\ InStore(x) => InStore(x)'
      BY <1>X, <2>1, <2>4 DEF InStore, ActiveLoaded
    <2> QED BY <1>0, <2>1, <2>5, <2>6, ImportWrites
  <1>2. ASSUME StoreSlot(t) PROVE InStore(x)' \/ Left(job'[t], x)
    <2>1. /\ Item(t, "slot")
          /\ nvs'.profile = nvs.profile /\ nvs'.pref = nvs.pref /\ nvs'.active = nvs.active
          /\ nvs'.slot = [nvs.slot EXCEPT ![Key(t)] = Value(t)]
          /\ Becomes(t, Through(job[t])) \/ Becomes(t, With(job[t], job[t].todo, "load", job[t].seen))
      BY <1>0, <1>2, StoreSlotDoes
    <2>2. Key(t) \in ModeSlots
      BY <1>0, <2>1, AtItem
    <2>3. x = Head(job[t].todo) => InStore(x)'
      <3>1. nvs'.slot[Key(t)] = Value(t)
        BY <1>0, <2>1, <2>2 DEF InFlash
      <3>2. Head(job[t].todo) = <<"slot", Key(t), Value(t)>>
        BY <1>K, <2>1
      <3>3. x = Head(job[t].todo) => x[1] = "slot" /\ x[2] = Key(t) /\ x[3] = Value(t)
        BY <3>2
      <3> QED BY <3>1, <3>3 DEF InStore
    <2>4. ~ (x[1] = "slot" /\ x[2] = Key(t)) /\ InStore(x) => InStore(x)'
      BY <1>X, <2>1 DEF InStore, ActiveLoaded
    <2> QED BY <1>0, <2>1, <2>3, <2>4, ImportWrites
  <1>3. ASSUME SavePref(t) PROVE InStore(x)' \/ Left(job'[t], x)
    <2>1. /\ Item(t, "pref")
          /\ nvs'.profile = nvs.profile /\ nvs'.slot = nvs.slot /\ nvs'.active = nvs.active
          /\ nvs'.pref = [nvs.pref EXCEPT ![Key(t)] = Value(t)]
          /\ Becomes(t, Through(job[t])) \/ Becomes(t, With(job[t], job[t].todo, "read", job[t].seen))
      BY <1>0, <1>3, SavePrefDoes
    <2>2. Key(t) \in Keys
      BY <1>0, <2>1, AtItem
    <2>3. x = Head(job[t].todo) => InStore(x)'
      <3>1. nvs'.pref[Key(t)] = Value(t)
        BY <1>0, <2>1, <2>2 DEF InFlash
      <3>2. Head(job[t].todo) = <<"pref", Key(t), Value(t)>>
        BY <1>K, <2>1
      <3>3. x = Head(job[t].todo) => x[1] = "pref" /\ x[2] = Key(t) /\ x[3] = Value(t)
        BY <3>2
      <3> QED BY <3>1, <3>3 DEF InStore
    <2>4. ~ (x[1] = "pref" /\ x[2] = Key(t)) /\ InStore(x) => InStore(x)'
      BY <1>X, <2>1 DEF InStore, ActiveLoaded
    <2> QED BY <1>0, <2>1, <2>3, <2>4, ImportWrites
  <1>4. ASSUME SetActive(t) PROVE InStore(x)' \/ Left(job'[t], x)
    <2>1. /\ Item(t, "active") /\ Becomes(t, Through(job[t]))
          /\ nvs'.profile = nvs.profile /\ nvs'.slot = nvs.slot /\ nvs'.pref = nvs.pref
          /\ nvs'.active = Value(t) \/ (nvs' = nvs /\ ram.active = Value(t))
      BY <1>0, <1>4, SetActiveDoes
    <2>2. Key(t) = 0 /\ Value(t) \in ModeSlots
      BY <1>0, <2>1, AtItem
    <2>3. ram.active = ActiveLoaded(nvs)
      <3>1. \A u \in Workers : job[u].op \notin {"reset", "blocked"}
        BY <1>0
      <3> QED BY <1>0, <3>1 DEF StoreInv, ActiveHeld, Unsure
    <2>4. ActiveLoaded(nvs') = Value(t)
      <3>1. CASE nvs'.active = Value(t)
        BY <2>2, <3>1 DEF ActiveLoaded
      <3>2. CASE nvs' = nvs /\ ram.active = Value(t)
        BY <2>3, <3>2
      <3> QED BY <2>1, <3>1, <3>2
    <2>5. x = Head(job[t].todo) => InStore(x)'
      BY <1>K, <2>1, <2>4 DEF InStore
    <2>6. ~ (x[1] = "active" /\ x[2] = Key(t)) /\ InStore(x) => InStore(x)'
      BY <1>X, <2>1, <2>2 DEF InStore
    <2> QED BY <1>0, <2>1, <2>5, <2>6, ImportWrites
  <1>5. ASSUME StoreSafe(t) PROVE InStore(x)' \/ Left(job'[t], x)
    <2>1. /\ Item(t, "safe")
          /\ nvs'.profile = nvs.profile /\ nvs'.slot = nvs.slot /\ nvs'.pref = nvs.pref /\ nvs'.active = nvs.active
          /\ Becomes(t, Through(job[t])) \/ Becomes(t, With(job[t], job[t].todo, "hold", job[t].seen))
      BY <1>0, <1>5, StoreSafeDoes
    <2>2. x # Head(job[t].todo)
      BY <1>K, <1>X, <2>1
    <2>3. InStore(x) => InStore(x)'
      BY <2>1 DEF InStore, ActiveLoaded
    <2> QED BY <1>0, <2>1, <2>2, <2>3, ImportWrites
  <1>6. ASSUME HoldSafe(t) PROVE InStore(x)' \/ Left(job'[t], x)
    <2>1. Item(t, "safe") /\ SameFlash /\ Becomes(t, Through(job[t]))
      BY <1>0, <1>6, HoldSafeDoes
    <2>2. x # Head(job[t].todo)
      BY <1>K, <1>X, <2>1
    <2>3. InStore(x) => InStore(x)'
      BY <2>1 DEF InStore, ActiveLoaded, SameFlash
    <2> QED BY <1>0, <2>1, <2>2, <2>3, ImportWrites
  <1>7. ASSUME HoldPref(t) PROVE InStore(x)' \/ Left(job'[t], x)
    <2>1. SameFlash /\ Becomes(t, With(job[t], job[t].todo, "save", job[t].seen))
      BY <1>0, <1>7, HoldPrefDoes
    <2>2. InStore(x) => InStore(x)'
      BY <2>1 DEF InStore, ActiveLoaded, SameFlash
    <2> QED BY <2>1, <2>2, ImportHolds
  <1>8. ASSUME LoadSlot(t) PROVE InStore(x)' \/ Left(job'[t], x)
    <2>1. Item(t, "slot") /\ SameFlash /\ job[t].at \in AfterWrite /\ Becomes(t, Through(job[t]))
      BY <1>0, <1>8, LoadSlotDoes DEF AfterWrite
    <2> QED BY <1>0, <2>1, ImportFollows DEF SameFlash
  <1>9. ASSUME ReadPrefs(t) PROVE InStore(x)' \/ Left(job'[t], x)
    <2>1. /\ Item(t, "pref") /\ SameFlash /\ job[t].at \in AfterWrite
          /\ Becomes(t, With(job[t], job[t].todo, "cache", CacheOf(ram)))
      BY <1>0, <1>9, ReadPrefsDoes DEF AfterWrite
    <2> QED BY <1>0, <2>1, ImportFollows DEF SameFlash
  <1>10. ASSUME CachePrefs(t) PROVE InStore(x)' \/ Left(job'[t], x)
    <2>1. Item(t, "pref") /\ SameFlash /\ job[t].at \in AfterWrite /\ Becomes(t, Through(job[t]))
      BY <1>0, <1>10, CachePrefsDoes DEF AfterWrite
    <2> QED BY <1>0, <2>1, ImportFollows DEF SameFlash
  <1>11. ~WipeFlash(t) /\ ~WipeMemory(t) /\ ~ReadSection(t)
    BY <1>K DEF WipeFlash, WipeMemory, ReadSection, At
  <1> QED BY <1>1, <1>2, <1>3, <1>4, <1>5, <1>6, <1>7, <1>8, <1>9, <1>10, <1>11 DEF Step

\* A step keeps the jobs' invariant.
LEMMA StepJobs ==
    ASSUME JobInv, StoreInv', NEW t \in Workers, Step(t)
    PROVE  JobInv'
  <1>0. TypeInv /\ Types /\ Jobs /\ Alone /\ StoreInv
    BY DEF JobInv, StoreInv, TypeInv
  <1>1. /\ Alone'
        /\ \A u \in Workers, op \in {"import", "reset"} : Undisturbed(u, op)' =>
             u = t /\ Undisturbed(u, op) /\ doubtful' = {} /\ ~Finish(t)
        /\ \A u \in Workers : u # t /\ job[t].alone => job[u].op = "none"
    BY <1>0, StepAlone
  <1>2. WipeSoFar'
    <2> SUFFICES ASSUME NEW u \in Workers, Undisturbed(u, "reset")', NEW h \in Regions
                 PROVE  Part(nvs', h) \/ WipeLeft(job'[u], h)
      BY DEF WipeSoFar
    <2>1. u = t /\ Undisturbed(t, "reset") /\ doubtful' = {} /\ ~Finish(t)
      BY <1>1
    <2>2. Part(nvs, h) \/ WipeLeft(job[t], h)
      BY <2>1 DEF JobInv, WipeSoFar
    <2> QED BY <1>0, <2>1, <2>2, WipeStep DEF Undisturbed
  <1>3. ImportSoFar'
    <2> SUFFICES ASSUME NEW u \in Workers, Undisturbed(u, "import")', NEW x \in Wanted(job'[u].dump)
                 PROVE  InStore(x)' \/ Left(job'[u], x)
      BY DEF ImportSoFar
    <2>1. u = t /\ Undisturbed(t, "import") /\ doubtful' = {} /\ ~Finish(t)
      BY <1>1
    <2>2. job'[t].dump = job[t].dump
      BY <1>0, <2>1, StepWorks DEF Undisturbed
    <2>3. InStore(x) \/ Left(job[t], x)
      BY <2>1, <2>2 DEF JobInv, ImportSoFar
    <2>4. \A v \in Workers : v # t => job[v].op = "none"
      BY <1>1, <2>1 DEF Undisturbed
    <2> QED BY <1>0, <2>1, <2>2, <2>3, <2>4, ImportStep
  <1>4. last = None
    <2>1. job[t].op \notin {"none", "blocked"}
      BY <1>0, StepWorks
    <2> QED BY <2>1 DEF JobInv, LastDone
  <1>5. CASE ~Finish(t)
    <2>1. last' = last
      <3>1. Steady
        BY <1>0, <1>5, StoreProfileDoes, StoreSlotDoes, LoadSlotDoes, HoldPrefDoes, SavePrefDoes,
           ReadPrefsDoes, CachePrefsDoes, StoreSafeDoes, HoldSafeDoes, SetActiveDoes, WipeFlashDoes,
           WipeMemoryDoes, ReadSectionDoes DEF Step
      <3> QED BY <3>1 DEF Steady
    <2> QED BY <1>1, <1>2, <1>3, <1>4, <2>1 DEF JobInv, LastDone
  <1>6. CASE Finish(t)
    <2>1. /\ job[t].todo = <<>> /\ JobOK(job[t])
          /\ Becomes(t, IF job[t].op \in {"reset", "restart"} THEN Blocked ELSE Idle)
          /\ restarting' = (restarting \/ job[t].op \in {"import", "reset", "restart"})
          /\ \/ last' = last
             \/ /\ job[t].op \in {"import", "reset"} /\ job[t].alone /\ doubtful = {} /\ ~recovery
                /\ last' = [op |-> job[t].op, dump |-> job[t].dump]
          /\ nvs' = nvs /\ recovery' = recovery
      BY <1>0, <1>6, FinishDoes
    <2>2. CASE last' = last
      BY <1>1, <1>2, <1>3, <1>4, <2>2 DEF JobInv, LastDone
    <2>3. CASE /\ job[t].op \in {"import", "reset"} /\ job[t].alone /\ doubtful = {} /\ ~recovery
               /\ last' = [op |-> job[t].op, dump |-> job[t].dump]
      <3>1. last' = [op |-> last'.op, dump |-> last'.dump] /\ last'.op = job[t].op /\ last'.dump = job[t].dump
        BY <2>3
      <3>2. \A u \in Workers : job'[u].op \in {"none", "blocked"}
        <4>1. job'[t].op \in {"none", "blocked"}
          BY <2>1, JobIdle DEF Becomes
        <4>2. \A u \in Workers : u # t => job'[u] = job[u]
          BY <2>1 DEF Becomes
        <4> QED BY <1>1, <2>3, <4>1, <4>2
      <3>3. job[t].op = "reset" => nvs' = Erased
        <4> SUFFICES ASSUME job[t].op = "reset" PROVE nvs' = Erased
          OBVIOUS
        <4>1. \A h : ~WipeLeft(job[t], h)
          <5>1. DOMAIN job[t].todo = {}
            BY <2>1
          <5> QED BY <5>1 DEF WipeLeft
        <4>2. \A h \in Regions : Part(nvs, h)
          BY <2>3, <4>1 DEF JobInv, WipeSoFar, Undisturbed
        <4> QED BY <1>0, <2>1, <4>2, AllErased DEF Types
      <3>4. job[t].op = "import" =>
              /\ DumpShape(job[t].dump) /\ Accepted(job[t].dump)
              /\ \A x \in Wanted(job[t].dump) : InStore(x)' 
        <4> SUFFICES ASSUME job[t].op = "import"
                     PROVE  /\ DumpShape(job[t].dump) /\ Accepted(job[t].dump)
                            /\ \A x \in Wanted(job[t].dump) : InStore(x)'
          OBVIOUS
        <4>1. \A x : ~Left(job[t], x)
          <5>1. DOMAIN job[t].todo = {}
            BY <2>1
          <5> QED BY <5>1 DEF Left
        <4>2. \A x \in Wanted(job[t].dump) : InStore(x)
          BY <2>3, <4>1 DEF JobInv, ImportSoFar, Undisturbed
        <4>3. \A x : InStore(x) => InStore(x)'
          BY <2>1 DEF InStore, ActiveLoaded
        <4> QED BY <2>1, <4>2, <4>3 DEF JobOK
      <3>5. restarting' = TRUE /\ ~recovery'
        BY <2>1, <2>3
      <3>6. LastDone'
        BY <2>3, <3>1, <3>2, <3>3, <3>4, <3>5 DEF LastDone
      <3> QED BY <1>1, <1>2, <1>3, <3>6 DEF JobInv
    <2> QED BY <2>1, <2>2, <2>3
  <1> QED BY <1>5, <1>6

\* The start of a job keeps it.
LEMMA StartingJobs ==
    ASSUME JobInv, StoreInv', NEW t \in Workers, NEW op, NEW todo, NEW dump, Starting(t, op, todo, dump)
    PROVE  JobInv'
  <1>0. TypeInv /\ Types
    BY DEF JobInv, StoreInv, TypeInv
  <1>1. /\ Alone'
        /\ \A u \in Workers, o \in {"import", "reset"} : Undisturbed(u, o)' => u = t /\ ~recovery
    BY <1>0, StartingAlone
  <1>2. /\ Sound(op, todo, dump) /\ nvs' = nvs /\ last' = None
        /\ job'[t].op = op /\ job'[t].todo = todo /\ job'[t].at = "next" /\ job'[t].dump = dump
    BY DEF Starting, New
  <1>3. WipeSoFar'
    <2> SUFFICES ASSUME NEW u \in Workers, Undisturbed(u, "reset")', NEW h \in Regions
                 PROVE  WipeLeft(job'[u], h)
      BY DEF WipeSoFar
    <2>1. u = t /\ ~recovery /\ op = "reset"
      BY <1>1, <1>2 DEF Undisturbed
    <2>2. todo = Wipe /\ In(<<"wipe", h, None>>, Wipe)
      BY <1>2, <2>1, WipeSound DEF Sound
    <2>3. PICK i \in DOMAIN todo : todo[i] = <<"wipe", h, None>>
      BY <2>2 DEF In
    <2>4. todo[i][2] = h
      BY <2>3
    <2> QED BY <1>2, <2>1, <2>4 DEF WipeLeft
  <1>4. ImportSoFar'
    <2> SUFFICES ASSUME NEW u \in Workers, Undisturbed(u, "import")', NEW x \in Wanted(job'[u].dump)
                 PROVE  Left(job'[u], x)
      BY DEF ImportSoFar
    <2>1. u = t /\ op = "import"
      BY <1>1, <1>2 DEF Undisturbed
    <2>2. In(x, todo)
      BY <1>2, <2>1 DEF Sound
    <2> QED BY <1>2, <2>1, <2>2 DEF Left, In, AfterWrite
  <1>5. LastDone'
    BY <1>2 DEF LastDone
  <1> QED BY <1>1, <1>3, <1>4, <1>5 DEF JobInv

\* A boot keeps it: memory is loaded from the flash that the last job left.
LEMMA FreshJobs ==
    ASSUME Fresh, StoreInv, last = None \/ (LastDone /\ ~recovery) PROVE JobInv
  <1>1. \A t \in Workers : job[t].op = "none"
    BY JobIdle DEF Fresh
  <1>2. Alone /\ WipeSoFar /\ ImportSoFar
    BY <1>1 DEF Alone, WipeSoFar, ImportSoFar, Undisturbed
  <1> QED BY <1>2 DEF JobInv, LastDone

\* So does a boot of either kind.
LEMMA BootJobs ==
    ASSUME JobInv, StoreInv', Restarts \/ Crash
    PROVE  JobInv'
  <1>1. Fresh' /\ nvs' = nvs
    BY BootFresh DEF JobInv, StoreInv
  <1>2. \A t \in Workers : job'[t].op = "none"
    BY <1>1, JobIdle DEF Fresh
  <1>3. Alone' /\ WipeSoFar' /\ ImportSoFar'
    BY <1>2 DEF Alone, WipeSoFar, ImportSoFar, Undisturbed
  <1>4. LastDone'
    <2>1. CASE Crash
      BY <2>1 DEF Crash, LastDone
    <2>2. CASE Restarts
      <3>1. last' = last /\ recovery' = FALSE
        BY <2>2 DEF Restarts, BootWith
      <3>2. ram' = Loaded(nvs', FALSE) /\ buzzer' = CacheOf(ram')
        BY <1>1, <3>1 DEF Fresh
      <3>3. \A x : InStore(x) => InStore(x)'
        BY <1>1 DEF InStore, ActiveLoaded
      <3> QED BY <1>1, <1>2, <3>1, <3>2, <3>3 DEF JobInv, LastDone
    <2> QED BY <2>1, <2>2
  <1> QED BY <1>3, <1>4 DEF JobInv

\* The jobs' invariant is inductive.
LEMMA NextJobs == JobInv /\ [ConfigNext]_configVars => JobInv'
  <1> SUFFICES ASSUME JobInv, [ConfigNext]_configVars PROVE JobInv'
    OBVIOUS
  <1>1. TypeInv /\ StoreInv'
    BY NextStore DEF JobInv, StoreInv
  <1>2. CASE Quiet
    <2>1. /\ nvs' = nvs /\ ram' = ram /\ buzzer' = buzzer /\ recovery' = recovery /\ job' = job
          /\ restarting' = restarting /\ doubtful' = doubtful /\ last' = last
      BY <1>2 DEF Quiet
    <2>2. \A x : InStore(x) <=> InStore(x)'
      BY <2>1 DEF InStore, ActiveLoaded
    <2>3. Alone' /\ WipeSoFar'
      BY <2>1 DEF JobInv, Alone, WipeSoFar, Undisturbed, Working, Part
    <2>4. ImportSoFar'
      BY <2>1, <2>2 DEF JobInv, ImportSoFar, Undisturbed
    <2>5. LastDone'
      BY <2>1, <2>2 DEF JobInv, LastDone
    <2> QED BY <1>1, <2>3, <2>4, <2>5 DEF JobInv
  <1> QED BY <1>1, <1>2, NextDoes, StepJobs, StartingJobs, BootJobs

\* A dump that is in flash is in force after the boot.
LEMMA DumpInForce ==
    ASSUME Types, NEW d, DumpShape(d), Accepted(d), \A x \in Wanted(d) : InStore(x),
           ram = Loaded(nvs, FALSE), buzzer = CacheOf(ram)
    PROVE  Restored(d)
  <1>0. /\ InFlash(nvs) /\ DumpValid(d)
        /\ ram.slot = [s \in ModeSlots |-> SlotLoaded(nvs, s)]
        /\ ram.pref = PrefsLoaded(nvs) /\ ram.active = ActiveLoaded(nvs)
    BY DEF Types, Accepted, Loaded
  <1>1. \A k \in DOMAIN d.prefs : ram.pref[k] = d.prefs[k]
    <2> TAKE k \in DOMAIN d.prefs
    <2>1. <<"pref", k, d.prefs[k]>> \in Wanted(d)
      BY DEF Wanted, PrefsOf
    <2>2. nvs.pref[k] = d.prefs[k]
      BY <2>1 DEF InStore
    <2>3. k \in Keys /\ d.prefs[k] # None
      BY <1>0, NotNone DEF DumpValid, PrefValid
    <2> QED BY <1>0, <2>2, <2>3 DEF PrefsLoaded
  <1>2. \A i \in DOMAIN d.profiles : nvs.profile[i] = d.profiles[i]
    <2> TAKE i \in DOMAIN d.profiles
    <2>1. <<"profile", i, d.profiles[i]>> \in Wanted(d)
      BY DEF Wanted, Profiles
    <2> QED BY <2>1 DEF InStore
  <1>3. d.active # Absent => ram.active = d.active
    <2> SUFFICES ASSUME d.active # Absent PROVE ram.active = d.active
      OBVIOUS
    <2>1. <<"active", 0, d.active>> \in Wanted(d)
      BY DEF Wanted, ActiveOf
    <2> QED BY <1>0, <2>1 DEF InStore
  <1>4. ASSUME NEW s \in DOMAIN d.slots
        PROVE  /\ ram.slot[s].binding = d.slots[s]
               /\ Enabled(d.slots[s]) /\ BindingDoc[d.slots[s]].behavior \in Behaviors
                  /\ BindingDoc[d.slots[s]].profile \in DOMAIN d.profiles =>
                    /\ ram.slot[s].enabled
                    /\ ram.slot[s].profile = d.profiles[BindingDoc[d.slots[s]].profile]
    <2> DEFINE b == d.slots[s]
               id == BindingDoc[b].profile
    <2>1. <<"slot", s, b>> \in Wanted(d)
      BY DEF Wanted, SlotsOf
    <2>2. s \in ModeSlots /\ BindingValid(b) /\ b \in DOMAIN BindingDoc /\ b # None
      BY <1>0, NotNone DEF DumpValid, DumpShape
    <2>3. nvs.slot[s] = b /\ ram.slot[s] = SlotLoaded(nvs, s)
      BY <1>0, <2>1, <2>2 DEF InStore
    <2>4. nvs.slot[s] # None /\ BindingValid(nvs.slot[s])
      BY <2>2, <2>3
    <2>5. ASSUME id \in DOMAIN d.profiles
          PROVE  id # Absent /\ nvs.profile[id] = d.profiles[id] /\ nvs.profile[id] # None
      <3>1. id \in Ids /\ d.profiles[id] \in DOMAIN ProfileDoc
        BY <1>0, <2>5 DEF DumpShape, DumpValid
      <3>2. id # Absent
        BY <3>1, DocumentsAssumption
      <3>3. nvs.profile[id] = d.profiles[id]
        BY <1>2, <2>5
      <3> QED BY <3>1, <3>2, <3>3, NotNone
    <2> HIDE DEF id, b
    <2>6. nvs.slot[s] = d.slots[s] /\ id = BindingDoc[nvs.slot[s]].profile
      BY <2>3 DEF id, b
    <2>7. ram.slot[s].binding = nvs.slot[s]
      BY <1>0, <2>2, <2>3, <2>4, SlotBinding
    <2>8. Enabled(nvs.slot[s]) /\ BindingDoc[nvs.slot[s]].behavior \in Behaviors /\ id \in DOMAIN d.profiles
          => ram.slot[s].enabled /\ ram.slot[s].profile = nvs.profile[id]
      BY <1>0, <2>2, <2>3, <2>4, <2>5, <2>6, SlotBinding
    <2>9. id = BindingDoc[d.slots[s]].profile
      BY DEF id, b
    <2>10. id \in DOMAIN d.profiles => nvs.profile[id] = d.profiles[id]
      BY <2>5
    <2> QED BY <2>6, <2>7, <2>8, <2>9, <2>10
  <1> QED BY <1>1, <1>2, <1>3, <1>4 DEF Restored

\* The invariant implies what the runs check.
LEMMA JobsGiven == JobInv => JobsComplete
  <1> SUFFICES ASSUME JobInv PROVE JobsComplete
    OBVIOUS
  <1>1. Types
    BY DEF JobInv, StoreInv, TypeInv
  <1>2. ResetErases
    BY DEF ResetErases, JobInv, LastDone
  <1>3. RestoredAsExported
    <2> SUFFICES ASSUME last # None, last.op = "import", ~restarting PROVE Restored(last.dump)
      BY DEF RestoredAsExported
    <2>1. /\ DumpShape(last.dump) /\ Accepted(last.dump)
          /\ \A x \in Wanted(last.dump) : InStore(x)
          /\ ram = Loaded(nvs, FALSE) /\ buzzer = CacheOf(ram)
      BY DEF JobInv, LastDone
    <2> QED BY <1>1, <2>1, DumpInForce
  <1> QED BY <1>2, <1>3 DEF JobsComplete

\* sd_config_io.c, sk_control.c: after an import that nothing disturbed and the restart that
\* follows it, every preference, profile, slot and the active slot of the dump are in force;
\* after a factory reset that nothing disturbed, nothing is left in flash.
THEOREM JobsAreComplete == ConfigSpec => []JobsComplete
  <1>1. ConfigInit => JobInv
    <2>1. ConfigInit => Fresh /\ last = None
      BY InitFresh DEF ConfigInit
    <2> QED BY <2>1, FreshStore, FreshJobs
  <1>2. ConfigSpec => []JobInv
    BY <1>1, NextJobs, PTL DEF ConfigSpec
  <1> QED BY <1>2, JobsGiven, PTL
=============================================================================
