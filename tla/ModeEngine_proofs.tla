-------------------------- MODULE ModeEngine_proofs --------------------------
(***************************************************************************)
(* The mode engine for any number of slots, any bindings, inputs, queue     *)
(* length and any number of events. First what the value drivers promise    *)
(* for every profile, every parameter and every input: a range that is one, *)
(* a value that stays in it, and a state that agrees with the value that is *)
(* sent; and what the quiet hours of the buzzer are. Then the engine: its   *)
(* type invariant, with the values of the slots in range, the spacing of    *)
(* the probes of an offline target, and that no accepted job is lost on the *)
(* way to the transport.                                                   *)
(***************************************************************************)
EXTENDS ModeEngine, QuietHours, FiniteSetTheorems, SequenceTheorems, TLAPS

-----------------------------------------------------------------------------
(* The hours in which the device keeps quiet.                              *)

Minutes == 0 .. 1439

\* The remainder of a number that is less than one day away from the day.
LEMMA DayOf ==
    ASSUME NEW x \in Int, -1440 < x, x < 1440
    PROVE  x % 1440 = IF x < 0 THEN x + 1440 ELSE x
  BY SMT

\* The two branches of sd_quiet_active are one interval on the circle of the day: a minute
\* is quiet when it lies less far behind `from` than `to` does. An interval without length
\* is off, not the whole day.
THEOREM QuietIsAnInterval ==
    ASSUME NEW from \in Minutes, NEW to \in Minutes, NEW now \in Minutes
    PROVE  QuietActive(from, to, now) <=>
               from # to /\ (now - from) % 1440 < (to - from) % 1440
  <1>1. (now - from) % 1440 = IF now < from THEN now - from + 1440 ELSE now - from
    BY DayOf, now - from \in Int, -1440 < now - from, now - from < 1440 DEF Minutes
  <1>2. (to - from) % 1440 = IF to < from THEN to - from + 1440 ELSE to - from
    BY DayOf, to - from \in Int, -1440 < to - from, to - from < 1440 DEF Minutes
  <1> QED BY <1>1, <1>2 DEF QuietActive, Minutes

-----------------------------------------------------------------------------
(* The value drivers.                                                      *)

\* dimmer_priv_t, shutter_priv_t and remote_priv_t, with a range of some width.
PrivType == [min: Int, max: Int, step: Int, accel: BOOLEAN, double: Int, long: Int]
Wide(p) == p.min < p.max /\ p.step >= 1

Answers == Kinds \cup {"NONE"}

-----------------------------------------------------------------------------
\* A default takes the place of an absent field only.
LEMMA FieldInt ==
    ASSUME NEW x \in Int \cup {Absent}, NEW d \in Int
    PROVE  Field(x, d) \in Int
  BY DEF Field

\* Clamping into an interval that is not empty ends in it.
LEMMA ClampIn ==
    ASSUME NEW v \in Int, NEW lo \in Int, NEW hi \in Int, lo <= hi
    PROVE  Clamp(v, lo, hi) \in lo .. hi
  BY DEF Clamp

\* dimmer_init falls back to 0..100 and to steps of one.
LEMMA DimmerPriv ==
    ASSUME NEW sv \in SetValues, NEW params \in Params
    PROVE  /\ DimmerInit(sv, params) \in PrivType
           /\ Wide(DimmerInit(sv, params))
  <1>1. Field(sv.min, 0) \in Int /\ Field(sv.max, 100) \in Int /\ Field(sv.step, 1) \in Int
    BY FieldInt, 0 \in Int, 100 \in Int, 1 \in Int DEF SetValues
  <1>2. Field(params.step, Field(sv.step, 1)) \in Int
    BY <1>1, FieldInt DEF Params
  <1>3. AtLeastOne(Field(params.step, Field(sv.step, 1))) \in Int
      /\ AtLeastOne(Field(params.step, Field(sv.step, 1))) >= 1
    BY <1>2 DEF AtLeastOne
  <1>4. Field(params.double, -1) \in Int /\ Field(params.long, -1) \in Int
    <2>1. params.double \in Int \cup {Absent} /\ params.long \in Int \cup {Absent}
      BY DEF Params
    <2>2. -1 \in Int
      OBVIOUS
    <2> QED BY <2>1, <2>2, FieldInt
  <1>5. Field(params.accel, FALSE) \in BOOLEAN
    <2>1. params.accel \in BOOLEAN \cup {Absent}
      BY DEF Params
    <2> QED BY <2>1, Zenon DEF Field
  <1>6. ASSUME NEW lo \in Int, NEW hi \in Int, NEW step \in Int, step >= 1,
               NEW accel \in BOOLEAN, NEW double \in Int, NEW long \in Int,
               NEW d, d = [min |-> IF hi <= lo THEN 0 ELSE lo,
                           max |-> IF hi <= lo THEN 100 ELSE hi,
                           step |-> step, accel |-> accel, double |-> double,
                           long |-> long]
        PROVE  d \in PrivType /\ Wide(d)
    BY <1>6 DEF PrivType, Wide
  <1> DEFINE lo == Field(sv.min, 0)
             hi == Field(sv.max, 100)
             step == AtLeastOne(Field(params.step, Field(sv.step, 1)))
             accel == Field(params.accel, FALSE)
             double == Field(params.double, -1)
             long == Field(params.long, -1)
  <1>7. DimmerInit(sv, params) =
            [min |-> IF hi <= lo THEN 0 ELSE lo, max |-> IF hi <= lo THEN 100 ELSE hi,
             step |-> step, accel |-> accel, double |-> double, long |-> long]
    BY Zenon DEF DimmerInit
  <1>8. lo \in Int /\ hi \in Int /\ step \in Int /\ step >= 1 /\ accel \in BOOLEAN
        /\ double \in Int /\ long \in Int
    BY <1>1, <1>3, <1>4, <1>5
  <1> HIDE DEF lo, hi, step, accel, double, long
  <1> QED BY <1>6, <1>7, <1>8

\* remote_init reads nothing but the step.
LEMMA RemotePriv ==
    ASSUME NEW params \in Params
    PROVE  RemoteInit(params) \in PrivType /\ Wide(RemoteInit(params))
  <1>1. Field(params.step, 1) \in Int
    BY FieldInt, 1 \in Int DEF Params
  <1>2. AtLeastOne(Field(params.step, 1)) \in Int /\ AtLeastOne(Field(params.step, 1)) >= 1
    BY <1>1 DEF AtLeastOne
  <1> QED BY <1>2 DEF RemoteInit, PrivType, Wide

\* A driver never runs with an empty range or a step that goes nowhere, whatever the
\* profile and the binding say: dimmer_init, shutter_init and remote_init check both.
THEOREM RangesAreWide ==
    ASSUME NEW drv \in ValueDrivers, NEW sv \in SetValues, NEW params \in Params
    PROVE  DriverInit(drv, sv, params) \in PrivType /\ Wide(DriverInit(drv, sv, params))
  <1>1. CASE drv = "dimmer"
    BY <1>1, DimmerPriv DEF DriverInit
  <1>2. CASE drv = "shutter"
    BY <1>2, DimmerPriv DEF DriverInit, ShutterInit, PrivType, Wide
  <1>3. CASE drv = "mqtt_remote"
    BY <1>3, RemotePriv DEF DriverInit
  <1> QED BY <1>1, <1>2, <1>3 DEF ValueDrivers

-----------------------------------------------------------------------------
\* What is true of the answer r of a driver to a slot in context c.
Keeps(p, c, r) ==
    /\ r.value \in Int /\ r.state \in BOOLEAN /\ r.kind \in Answers
    /\ r.value = c.value \/ r.value \in p.min .. p.max
    /\ r.kind = "VALUE" => (r.value \in p.min .. p.max /\ (r.state <=> r.value > p.min))
    /\ r.kind \in {"TOGGLE", "STOP", "NONE"} => r.value = c.value

\* A new value is clamped, and on when it is above the lower end.
LEMMA MovedKeeps ==
    ASSUME NEW p \in PrivType, Wide(p), NEW c, NEW target \in Int
    PROVE  Keeps(p, c, Moved(p, target))
  <1>1. p.min \in Int /\ p.max \in Int /\ p.min <= p.max
    BY DEF PrivType, Wide
  <1>2. Clamp(target, p.min, p.max) \in p.min .. p.max
    BY <1>1, ClampIn
  <1>3. PICK v \in p.min .. p.max: v = Clamp(target, p.min, p.max)
    BY <1>2
  <1>4. Moved(p, target) = [value |-> v, state |-> v > p.min, kind |-> "VALUE"]
    BY <1>3 DEF Moved
  <1>5. ASSUME NEW on \in BOOLEAN, on = (v > p.min)
        PROVE  Keeps(p, c, [value |-> v, state |-> on, kind |-> "VALUE"])
    <2> DEFINE r == [value |-> v, state |-> on, kind |-> "VALUE"]
    <2>1. r.value = v /\ r.kind = "VALUE"
      BY Zenon
    <2>2. r.state = on
      BY Zenon
    <2>3. on <=> v > p.min
      BY <1>5
    <2>4. v \in Int /\ v \in p.min .. p.max
      BY <1>1, <1>3
    <2> HIDE DEF r
    <2> QED BY <1>5, <2>1, <2>2, <2>3, <2>4 DEF Keeps, Answers, Kinds
  <1>6. PICK on \in BOOLEAN: on = (v > p.min)
    <2>1. (v > p.min) \in BOOLEAN
      OBVIOUS
    <2> QED BY <2>1, Zenon
  <1>7. Moved(p, target) = [value |-> v, state |-> on, kind |-> "VALUE"]
    BY <1>4, <1>6, Zenon
  <1> QED BY <1>5, <1>6, <1>7, Zenon

\* A send of the slot as it is, and the answer that sends nothing, keep the value.
LEMMA SendsKeeps ==
    ASSUME NEW p, NEW c, c.value \in Int, NEW state \in BOOLEAN,
           NEW kind \in {"TOGGLE", "STOP", "NONE"}
    PROVE  Keeps(p, c, Sends(c, state, kind))
  BY DEF Sends, Keeps, Answers, Kinds

\* A preset that is not defined moves nothing, one that is defined is clamped.
LEMMA JumpKeeps ==
    ASSUME NEW p \in PrivType, Wide(p), NEW c, c.value \in Int, c.state \in BOOLEAN,
           NEW preset \in Int
    PROVE  Keeps(p, c, JumpTo(p, c, preset))
  BY MovedKeeps, SendsKeeps DEF JumpTo, Nothing

\* A turn moves the value by whole steps and clamps it.
LEMMA RotateKeeps ==
    ASSUME NEW p \in PrivType, Wide(p), NEW c, c.value \in Int,
           NEW delta \in Int, NEW factor \in Int
    PROVE  Keeps(p, c, Rotate(p, c, delta, factor))
  <1>1. p.step \in Int BY DEF PrivType
  <1>2. delta * p.step \in Int BY <1>1
  <1>3. (delta * p.step) * factor \in Int BY <1>2
  <1>4. c.value + delta * p.step * factor \in Int BY <1>3
  <1> QED BY <1>4, MovedKeeps DEF Rotate

\* No input takes a slot's value out of its driver's range, however far the turn, however
\* fast and whatever the presets are; a VALUE that is sent says "on" exactly above the
\* lower end; a click leaves the value alone: the three on_input functions.
THEOREM InputsStayInRange ==
    ASSUME NEW drv \in ValueDrivers, NEW p \in PrivType, Wide(p),
           NEW c, c.value \in Int, c.state \in BOOLEAN,
           NEW deltas \in SUBSET Int, NEW i \in Inputs(deltas), NEW factor \in Int
    PROVE  Keeps(p, c, OnInput(drv, p, c, i, factor))
  <1>1. p.double \in Int /\ p.long \in Int
    BY DEF PrivType
  <1>2. \/ i.type = "ROTATE" /\ i.delta \in Int
        \/ i.type \in {"CLICK", "DOUBLE_CLICK", "LONG_PRESS"}
    BY DEF Inputs
  <1>3. CASE i.type = "ROTATE"
    <2>1. i.delta \in Int BY <1>2, <1>3
    <2>2. Keeps(p, c, Rotate(p, c, i.delta, factor)) /\ Keeps(p, c, Rotate(p, c, i.delta, 1))
      BY <2>1, RotateKeeps, 1 \in Int
    <2> QED BY <1>3, <2>2 DEF OnInput, DimmerInput, ShutterInput, RemoteInput, ValueDrivers
  <1>4. CASE i.type = "CLICK"
    <2>1. /\ Keeps(p, c, Sends(c, ~c.state, "TOGGLE"))
          /\ Keeps(p, c, Sends(c, c.state, "STOP"))
      BY SendsKeeps
    <2> QED BY <1>4, <2>1 DEF OnInput, DimmerInput, ShutterInput, RemoteInput, ValueDrivers
  <1>5. CASE i.type \in {"DOUBLE_CLICK", "LONG_PRESS"}
    <2>1. /\ Keeps(p, c, JumpTo(p, c, p.double)) /\ Keeps(p, c, JumpTo(p, c, p.long))
          /\ Keeps(p, c, Nothing(c))
      BY <1>1, JumpKeeps, SendsKeeps DEF Nothing
    <2> QED BY <1>5, <2>1 DEF OnInput, DimmerInput, ShutterInput, RemoteInput, ValueDrivers
  <1> QED BY <1>2, <1>3, <1>4, <1>5

-----------------------------------------------------------------------------
(* The engine.                                                             *)

Contexts == [value: Int, state: BOOLEAN, errs: Nat, error: BOOLEAN]

\* The job sd_cmd works on exists.
HasJob == pc # "receive" => job # NoJob

\* A slot's probe interval never runs ahead of the time since its last failure: the age the
\* gate asks about was reset by that failure, or by a link that came back.
AgeBehindLull ==
    /\ lull \in [Slots -> Ages]
    /\ \A s \in Slots: tracker[s].age <= lull[s]

Inv == TypeOK /\ HasJob

-----------------------------------------------------------------------------
\* The kinds of jobs the actions make.
LEMMA SendJobType ==
    ASSUME NEW s \in Slots, NEW kind \in Kinds, NEW v \in Int, NEW on \in BOOLEAN
    PROVE  SendJob(s, kind, v, on) \in Jobs
  BY DEF SendJob, Jobs, JobTypes

\* A job without a value is well typed.
LEMMA PlainJobType ==
    ASSUME NEW s \in Slots, NEW type \in JobTypes
    PROVE  PlainJob(type, s) \in Jobs
  BY DEF PlainJob, Jobs, JobTypes, Kinds

\* One round of enqueue_job on a full queue keeps a queue, and never makes it longer.
LEMMA MakeRoomType ==
    ASSUME NEW q \in Seq(Jobs), q # <<>>
    PROVE  MakeRoom(q) \in Seq(Jobs) /\ Len(MakeRoom(q)) <= Len(q)
  <1>1. Tail(q) \in Seq(Jobs) /\ Len(Tail(q)) = Len(q) - 1 /\ Head(q) \in Jobs /\ Len(q) \in Nat
    OBVIOUS
  <1>2. Append(Tail(q), Head(q)) \in Seq(Jobs) /\ Len(Append(Tail(q), Head(q))) = Len(q)
    BY <1>1
  <1> QED BY <1>1, <1>2 DEF MakeRoom

\* enqueue_job leaves a queue within its length, whether or not it takes the job.
LEMMA AfterEnqueueType ==
    ASSUME NEW q \in Seq(Jobs), Len(q) <= QueueLen, NEW j \in Jobs
    PROVE  /\ AfterEnqueue(q, j) \in Seq(Jobs)
           /\ Len(AfterEnqueue(q, j)) <= QueueLen
  <1> QueueLen \in Nat \ {0}
    BY EngineAssumption
  <1>1. CASE Len(q) < QueueLen
    BY <1>1 DEF AfterEnqueue
  <1>2. CASE Len(q) = QueueLen
    <2>1. q # <<>>
      BY <1>2
    <2>2. MakeRoom(q) \in Seq(Jobs) /\ Len(MakeRoom(q)) <= QueueLen
      BY <1>2, <2>1, MakeRoomType
    <2>3. CASE Len(MakeRoom(q)) < QueueLen
      BY <1>2, <2>2, <2>3 DEF AfterEnqueue
    <2>4. CASE Len(MakeRoom(q)) = QueueLen
      <3>1. MakeRoom(q) # <<>>
        BY <2>4
      <3>2. /\ MakeRoom(MakeRoom(q)) \in Seq(Jobs)
            /\ Len(MakeRoom(MakeRoom(q))) <= QueueLen
        BY <2>2, <2>4, <3>1, MakeRoomType
      <3> QED BY <1>2, <2>4, <3>2 DEF AfterEnqueue
    <2> QED BY <2>2, <2>3, <2>4
  <1> QED BY <1>1, <1>2

\* The part of the type invariant that says the queue is one.
QueueOK == queue \in Seq(Jobs) /\ Len(queue) <= QueueLen

\* An enqueue preserves it.
LEMMA EnqueueType ==
    ASSUME QueueOK, NEW j \in Jobs, Enqueue(j)
    PROVE  QueueOK'
  BY AfterEnqueueType DEF QueueOK, Enqueue

\* So does the reconciliation of a slot.
LEMMA ReconcileType ==
    ASSUME TypeOK, NEW s \in Slots, ReconcileSlot(s)
    PROVE  QueueOK'
  <1> QueueOK
    BY DEF TypeOK, QueueOK
  <1>1. CASE Loaded(s) /\ bound[s].profile
    <2>1. ctx[s].value \in Int /\ ctx[s].state \in BOOLEAN
      BY DEF TypeOK
    <2>2. SendJob(s, "VALUE", ctx[s].value, ctx[s].state) \in Jobs
      BY <2>1, SendJobType DEF Kinds
    <2> QED BY <1>1, <2>2, EnqueueType DEF ReconcileSlot
  <1>2. CASE ~(Loaded(s) /\ bound[s].profile)
    BY <1>2 DEF ReconcileSlot, QueueOK
  <1> QED BY <1>1, <1>2

-----------------------------------------------------------------------------
\* The parameters a loaded slot's driver runs with are those of a range with some width.
LEMMA PrivOfBinding ==
    ASSUME NEW b \in BindingType
    PROVE  Priv(b) \in PrivType /\ Wide(Priv(b))
  <1>1. SetValueOf(b) \in SetValues
    BY DEF SetValueOf, SetValues, BindingType
  <1>2. b.drv \in ValueDrivers /\ b.params \in Params
    BY DEF BindingType
  <1> QED BY <1>1, <1>2, RangesAreWide DEF Priv

\* profile_range is never empty, and the engine's clamp ends in it.
LEMMA RangedIn ==
    ASSUME NEW b \in BindingType, NEW v \in Int
    PROVE  /\ ProfileRange(b).lo \in Int /\ ProfileRange(b).hi \in Int
           /\ ProfileRange(b).lo < ProfileRange(b).hi
           /\ Ranged(b, v) \in ProfileRange(b).lo .. ProfileRange(b).hi
  <1>1. SetValueOf(b) \in SetValues
    BY DEF SetValueOf, SetValues, BindingType
  <1>2. Field(SetValueOf(b).min, 0) \in Int /\ Field(SetValueOf(b).max, 100) \in Int
    BY <1>1, FieldInt, 0 \in Int, 100 \in Int DEF SetValues
  <1>3. /\ ProfileRange(b).lo \in Int /\ ProfileRange(b).hi \in Int
        /\ ProfileRange(b).lo < ProfileRange(b).hi
    BY <1>2 DEF ProfileRange
  <1>4. Ranged(b, v) \in ProfileRange(b).lo .. ProfileRange(b).hi
    <2> DEFINE lo == ProfileRange(b).lo
               hi == ProfileRange(b).hi
    <2>1. lo \in Int /\ hi \in Int /\ lo <= hi
      BY <1>3
    <2>2. Ranged(b, v) = Clamp(v, lo, hi)
      BY DEF Ranged
    <2> HIDE DEF lo, hi
    <2>3. Clamp(v, lo, hi) \in lo .. hi
      BY <2>1, ClampIn
    <2>4. ProfileRange(b).lo = lo /\ ProfileRange(b).hi = hi
      BY DEF lo, hi
    <2> QED BY <2>2, <2>3, <2>4
  <1> QED BY <1>3, <1>4

\* For a dimmer or a shutter the engine and the driver read the same range, which is what
\* load_slot and mode.set count on (profile_range, dimmer_init, shutter_init).
THEOREM EngineAndDriverAgree ==
    ASSUME NEW b \in BindingType, b.drv \in {"dimmer", "shutter"}
    PROVE  Priv(b).min = ProfileRange(b).lo /\ Priv(b).max = ProfileRange(b).hi
  BY DEF Priv, DriverInit, ShutterInit, DimmerInit, ProfileRange

\* What load_slot makes of a binding and of what NVS held.
LEMMA NewCtxType ==
    ASSUME NEW b \in BindingType \union {NoBinding}, NEW v \in Int, NEW on \in BOOLEAN
    PROVE  /\ NewCtx(b, v, on) \in Contexts
           /\ b # NoBinding => InRange(b, NewCtx(b, v, on).value)
  <1>1. CASE b = NoBinding
    BY <1>1 DEF NewCtx, Contexts
  <1>2. CASE b \in BindingType /\ b # NoBinding
    <2>1. Ranged(b, v) \in Int /\ Ranged(b, v) \in ProfileRange(b).lo .. ProfileRange(b).hi
      BY <1>2, RangedIn
    <2>2. NewCtx(b, v, on) = [value |-> Ranged(b, v), state |-> on, errs |-> 0, error |-> FALSE]
      BY <1>2 DEF NewCtx
    <2> QED BY <2>1, <2>2 DEF InRange, Contexts
  <1> QED BY <1>1, <1>2

-----------------------------------------------------------------------------
\* The slots at boot.
LEMMA InitOK == Init => Inv /\ AgeBehindLull
  <1> SUFFICES ASSUME Init PROVE Inv /\ AgeBehindLull
    OBVIOUS
  <1> USE EngineAssumption, NoJobAssumption, ProbeTicksAssumption, FailLimitAssumption
  <1>1. \A s \in Slots: NewCtx(InitialBinding[s], 0, FALSE) \in Contexts
            /\ (InitialBinding[s] # NoBinding =>
                    InRange(InitialBinding[s], NewCtx(InitialBinding[s], 0, FALSE).value))
    <2> SUFFICES ASSUME NEW s \in Slots
                 PROVE  /\ NewCtx(InitialBinding[s], 0, FALSE) \in Contexts
                        /\ InitialBinding[s] # NoBinding =>
                               InRange(InitialBinding[s],
                                       NewCtx(InitialBinding[s], 0, FALSE).value)
      OBVIOUS
    <2>1. InitialBinding[s] \in BindingType \union {NoBinding}
      OBVIOUS
    <2> QED BY <2>1, NewCtxType, 0 \in Int, FALSE \in BOOLEAN, Zenon
  <1>2. ctx \in [Slots -> Contexts]
    BY <1>1 DEF Init
  <1>3. \A s \in Slots: Loaded(s) => InRange(bound[s], ctx[s].value)
    BY <1>1 DEF Init, Loaded
  <1>4. NewTracker \in Trackers /\ NewTracker.age = 0
    BY DEF NewTracker, Trackers, Ages
  <1>5. TypeOK
    <2>1. /\ bound \in [Slots -> BindingType \union {NoBinding}]
          /\ active \in Slots
          /\ queue \in Seq(Jobs) /\ Len(queue) <= QueueLen
      BY DEF Init, Slots
    <2>2. /\ tracker \in [Slots -> Trackers]
          /\ uptime \in Ages
          /\ wifi \in BOOLEAN
      BY <1>4 DEF Init, Ages
    <2>4. linked \in BOOLEAN
      BY Zenon DEF Init
    <2>5. reconcile \in 1..(SlotCount + 1)
      BY DEF Init
    <2>3. /\ pc = "receive"
          /\ job \in Jobs \union {NoJob} /\ carry \in Jobs \union {NoJob}
          /\ wire \in Jobs \union {NoJob}
          /\ cli \in [CliTasks -> Jobs \union {NoJob}]
      BY DEF Init
    <2> QED BY <1>2, <1>3, <2>1, <2>2, <2>3, <2>4, <2>5 DEF TypeOK, Contexts
  <1>6. HasJob
    BY DEF HasJob, Init
  <1>7. AgeBehindLull
    BY <1>4 DEF AgeBehindLull, Init, Ages
  <1> QED BY <1>5, <1>6, <1>7 DEF Inv

-----------------------------------------------------------------------------
(* The type invariant, action by action.                                   *)

\* The parts of the type invariant, so that a step names only what it disturbs.
SlotsOK ==
    /\ bound \in [Slots -> BindingType \union {NoBinding}]
    /\ ctx \in [Slots -> Contexts]
    /\ \A s \in Slots: Loaded(s) => InRange(bound[s], ctx[s].value)
    /\ active \in Slots
TrackersOK ==
    /\ tracker \in [Slots -> Trackers]
    /\ uptime \in Ages
    /\ wifi \in BOOLEAN
    /\ reconcile \in 1..(SlotCount + 1)
CmdOK ==
    /\ pc \in {"receive", "drain", "gate", "capture", "other", "materialize",
               "transport", "reconcile"}
    /\ job \in Jobs \union {NoJob} /\ carry \in Jobs \union {NoJob}
    /\ wire \in Jobs \union {NoJob}
    /\ linked \in BOOLEAN
    /\ HasJob
CliOK == cli \in [CliTasks -> Jobs \union {NoJob}]

\* They are the type invariant and HasJob.
LEMMA Parts == Inv <=> SlotsOK /\ QueueOK /\ TrackersOK /\ CmdOK /\ CliOK
  BY DEF Inv, TypeOK, SlotsOK, QueueOK, TrackersOK, CmdOK, CliOK, Contexts

\* sd_cmd is next in its loop, or works on the job it carried over.
LEMMA EndJobType ==
    ASSUME CmdOK, EndJob
    PROVE  (pc \in {"receive", "drain", "gate", "capture", "other"}
            /\ job \in Jobs \union {NoJob} /\ carry \in Jobs \union {NoJob}
            /\ wire \in Jobs \union {NoJob} /\ HasJob)'
  <1>1. CASE carry = NoJob
    BY <1>1 DEF CmdOK, EndJob, PcFor, HasJob
  <1>2. CASE carry \in Jobs
    <2>1. carry # NoJob
      BY <1>2, NoJobAssumption
    <2>2. PcFor(carry) \in {"receive", "drain", "gate", "capture", "other"}
      BY <2>1 DEF PcFor
    <2> QED BY <1>2, <2>1, <2>2 DEF CmdOK, EndJob, HasJob
  <1> QED BY <1>1, <1>2 DEF CmdOK

\* The value an input leaves is in range: in that of the driver, or where it was.
LEMMA InputValue ==
    ASSUME SlotsOK, NEW s \in Slots, Loaded(s), NEW i \in Inputs(Detents),
           NEW factor \in Factors(Priv(bound[s])),
           NEW r, r = OnInput(bound[s].drv, Priv(bound[s]), ctx[s], i, factor)
    PROVE  /\ r.value \in Int /\ r.state \in BOOLEAN
           /\ r.kind # "NONE" => r.kind \in Kinds
           /\ InRange(bound[s], r.value)
  <1>1. bound[s] \in BindingType /\ bound[s].drv \in ValueDrivers
    BY DEF SlotsOK, Loaded, BindingType
  <1>2. Priv(bound[s]) \in PrivType /\ Wide(Priv(bound[s]))
    BY <1>1, PrivOfBinding
  <1>3. ctx[s].value \in Int /\ ctx[s].state \in BOOLEAN
    BY DEF SlotsOK, Contexts
  <1>4. factor \in Int /\ Detents \in SUBSET Int
    BY EngineAssumption DEF Factors
  <1>5. Keeps(Priv(bound[s]), ctx[s], r)
    BY <1>1, <1>2, <1>3, <1>4, InputsStayInRange, Zenon
  <1>6. InRange(bound[s], ctx[s].value)
    BY DEF SlotsOK
  <1> QED BY <1>5, <1>6 DEF Keeps, Answers, InRange

\* Counting an error, or none, keeps a context and its value.
LEMMA CountErrorType ==
    ASSUME NEW c \in Contexts, NEW ok
    PROVE  CountError(c, ok) \in Contexts /\ CountError(c, ok).value = c.value
  <1>1. CASE ok
    BY <1>1 DEF CountError, Contexts
  <1>2. CASE ~ok
    <2>1. PICK e \in BOOLEAN: e = (c.error \/ c.errs + 1 >= ErrLimit)
      <3>1. (c.error \/ c.errs + 1 >= ErrLimit) \in BOOLEAN
        OBVIOUS
      <3> QED BY <3>1, Zenon
    <2>2. CountError(c, ok) = [c EXCEPT !.errs = c.errs + 1,
                                        !.error = c.error \/ c.errs + 1 >= ErrLimit]
      BY <1>2, Zenon DEF CountError
    <2>3. CountError(c, ok) = [c EXCEPT !.errs = c.errs + 1, !.error = e]
      BY <2>1, <2>2, Zenon
    <2>4. ASSUME NEW n \in Nat, NEW d, d = [c EXCEPT !.errs = n, !.error = e]
          PROVE  d \in Contexts /\ d.value = c.value
      BY <2>4 DEF Contexts
    <2>5. c.errs + 1 \in Nat
      BY DEF Contexts
    <2> QED BY <2>3, <2>4, <2>5
  <1> QED BY <1>1, <1>2

\* sd_mode_engine_input preserves the invariant.
LEMMA InputStep ==
    ASSUME Inv, NEW s \in Slots, TakesInput(s), NEW i \in Inputs(Detents),
           NEW factor \in Factors(Priv(bound[s])), Input(s, i, factor)
    PROVE  Inv'
  <1> SlotsOK /\ QueueOK /\ TrackersOK /\ CmdOK /\ CliOK
    BY Parts
  <1> DEFINE r == OnInput(bound[s].drv, Priv(bound[s]), ctx[s], i, factor)
             j == SendJob(s, r.kind, r.value, r.state)
             silent == r.kind = "NONE"
             ok == silent \/ Accepted(queue, j)
             c == [ctx[s] EXCEPT !.value = r.value, !.state = r.state]
  <1>1. Loaded(s)
    BY DEF TakesInput
  <1>2. /\ r.value \in Int /\ r.state \in BOOLEAN
        /\ r.kind # "NONE" => r.kind \in Kinds
        /\ InRange(bound[s], r.value)
    BY <1>1, InputValue
  <1>3. /\ ctx' = [ctx EXCEPT ![s] = CountError(c, ok)]
        /\ IF silent THEN UNCHANGED queue ELSE Enqueue(j)
        /\ UNCHANGED <<bound, active, tracker, uptime, wifi, reconcile, cmdVars, cli>>
    BY DEF Input
  <1>4. ~silent => j \in Jobs
    BY <1>2, SendJobType
  <1> HIDE DEF r, j, ok, silent
  <1>5. c \in Contexts /\ c.value = r.value
    BY <1>2 DEF SlotsOK, Contexts
  <1> HIDE DEF c
  <1>6. CountError(c, ok) \in Contexts /\ CountError(c, ok).value = r.value
    BY <1>5, CountErrorType
  <1>7. SlotsOK'
    <2>1. ctx' \in [Slots -> Contexts]
      BY <1>3, <1>6 DEF SlotsOK
    <2>2. ASSUME NEW t \in Slots, Loaded(t)' PROVE InRange(bound[t], ctx[t].value)'
      <3>1. CASE t = s
        BY <3>1, <1>2, <1>3, <1>6 DEF SlotsOK, InRange
      <3>2. CASE t # s
        BY <3>2, <2>2, <1>3 DEF SlotsOK, InRange, Loaded
      <3> QED BY <3>1, <3>2
    <2> QED BY <2>1, <2>2, <1>3 DEF SlotsOK
  <1>8. QueueOK'
    BY <1>3, <1>4, EnqueueType DEF QueueOK
  <1>9. TrackersOK' /\ CmdOK' /\ CliOK'
    BY <1>3 DEF TrackersOK, CmdOK, CliOK, cmdVars, HasJob
  <1> QED BY <1>7, <1>8, <1>9, Parts, PTL

\* sd_input: an input or a step of the active slot.
LEMMA SdInputStep ==
    ASSUME Inv, SdInput
    PROVE  Inv'
  <1>1. ASSUME NEW dir \in {-1, 1}, SlotStep(dir) PROVE Inv'
    <2> SlotsOK /\ QueueOK /\ TrackersOK /\ CmdOK /\ CliOK
      BY Parts
    <2>1. SlotsOK' /\ QueueOK' /\ TrackersOK' /\ CmdOK' /\ CliOK'
      BY <1>1 DEF SlotStep, SlotsOK, QueueOK, TrackersOK, CmdOK, CliOK, cmdVars, HasJob,
                  Loaded
    <2> QED BY <2>1, Parts, PTL
  <1> QED BY <1>1, InputStep DEF SdInput

\* mode.set under eng_lock: the value is clamped to the range of the profile.
LEMMA SetValueStep ==
    ASSUME Inv, NEW t \in CliTasks, NEW s \in Slots, NEW v \in SetTo, SetValue(t, s, v)
    PROVE  Inv'
  <1> SlotsOK /\ QueueOK /\ TrackersOK /\ CmdOK /\ CliOK
    BY Parts
  <1> DEFINE value == Ranged(bound[s], v)
             on == value > ProfileRange(bound[s]).lo
             j == SendJob(s, "VALUE", value, on)
  <1>1. Loaded(s) /\ bound[s] \in BindingType /\ v \in Int
    BY EngineAssumption DEF SetValue, SlotsOK, Loaded
  <1>2. /\ value \in Int
        /\ value \in ProfileRange(bound[s]).lo .. ProfileRange(bound[s]).hi
        /\ on \in BOOLEAN
    BY <1>1, RangedIn
  <1>3. /\ ctx' = [ctx EXCEPT ![s].value = value, ![s].state = on]
        /\ cli' = [cli EXCEPT ![t] = j]
        /\ UNCHANGED <<bound, active, queue, tracker, uptime, wifi, reconcile, cmdVars>>
    BY DEF SetValue
  <1>4. j \in Jobs
    BY <1>2, SendJobType DEF Kinds
  <1>5. InRange(bound[s], value)
    BY <1>2 DEF InRange
  <1> HIDE DEF value, on, j
  <1>6. SlotsOK'
    <2>1. ctx' \in [Slots -> Contexts]
      <3>1. ASSUME NEW b \in BOOLEAN, NEW w \in Int,
                   NEW d, d = [ctx EXCEPT ![s].value = w, ![s].state = b]
            PROVE  d \in [Slots -> Contexts]
        BY <3>1 DEF SlotsOK, Contexts
      <3> QED BY <1>2, <1>3, <3>1
    <2>2. ASSUME NEW u \in Slots, Loaded(u)' PROVE InRange(bound[u], ctx[u].value)'
      <3>1. CASE u = s
        <4>1. ctx'[s].value = value
          BY <1>3 DEF SlotsOK, Contexts
        <4> QED BY <3>1, <4>1, <1>3, <1>5 DEF InRange
      <3>2. CASE u # s
        BY <3>2, <2>2, <1>3 DEF SlotsOK, InRange, Loaded
      <3> QED BY <3>1, <3>2
    <2> QED BY <2>1, <2>2, <1>3 DEF SlotsOK
  <1>7. QueueOK' /\ TrackersOK' /\ CmdOK' /\ CliOK'
    BY <1>3, <1>4 DEF QueueOK, TrackersOK, CmdOK, CliOK, cmdVars, HasJob
  <1> QED BY <1>6, <1>7, Parts, PTL

\* mode.toggle under eng_lock leaves the value alone.
LEMMA ToggleStep ==
    ASSUME Inv, NEW t \in CliTasks, NEW s \in Slots, Toggle(t, s)
    PROVE  Inv'
  <1> SlotsOK /\ QueueOK /\ TrackersOK /\ CmdOK /\ CliOK
    BY Parts
  <1> DEFINE j == SendJob(s, "TOGGLE", ctx[s].value, ~ctx[s].state)
  <1>1. ctx[s].value \in Int /\ ctx[s].state \in BOOLEAN
    BY DEF SlotsOK, Contexts
  <1>2. j \in Jobs
    BY <1>1, SendJobType DEF Kinds
  <1>3. /\ ctx' = [ctx EXCEPT ![s].state = ~@]
        /\ cli' = [cli EXCEPT ![t] = j]
        /\ UNCHANGED <<bound, active, queue, tracker, uptime, wifi, reconcile, cmdVars>>
    BY DEF Toggle
  <1> HIDE DEF j
  <1>4. SlotsOK'
    <2>1. ctx' \in [Slots -> Contexts]
      <3> DEFINE x == [ctx[s] EXCEPT !.state = ~@]
      <3>1. ctx \in [Slots -> Contexts] /\ ctx[s] \in Contexts
        BY DEF SlotsOK
      <3>2. x \in Contexts
        BY <1>1, <3>1 DEF Contexts
      <3>3. ctx' = [ctx EXCEPT ![s] = x]
        BY <1>3
      <3> HIDE DEF x
      <3> QED BY <3>1, <3>2, <3>3
    <2>2. \A u \in Slots: ctx'[u].value = ctx[u].value
      BY <1>3 DEF SlotsOK, Contexts
    <2> QED BY <2>1, <2>2, <1>3 DEF SlotsOK, Loaded, InRange
  <1>5. QueueOK' /\ TrackersOK' /\ CmdOK' /\ CliOK'
    BY <1>2, <1>3 DEF QueueOK, TrackersOK, CmdOK, CliOK, cmdVars, HasJob
  <1> QED BY <1>4, <1>5, Parts, PTL

\* load_slot brings what NVS held into the range of the new binding.
LEMMA LoadSlotType ==
    ASSUME SlotsOK, NEW s \in Slots, NEW b \in BindingType \union {NoBinding},
           NEW v \in Int, NEW on \in BOOLEAN, LoadSlot(s, b, v, on), UNCHANGED active
    PROVE  SlotsOK'
  <1>1. /\ bound' = [bound EXCEPT ![s] = b]
        /\ ctx' = [ctx EXCEPT ![s] = NewCtx(b, v, on)]
    BY DEF LoadSlot
  <1>2. /\ NewCtx(b, v, on) \in Contexts
        /\ b # NoBinding => InRange(b, NewCtx(b, v, on).value)
    BY NewCtxType
  <1>3. ASSUME NEW u \in Slots, Loaded(u)' PROVE InRange(bound[u], ctx[u].value)'
    <2>1. CASE u = s
      BY <2>1, <1>1, <1>2, <1>3 DEF SlotsOK, InRange, Loaded
    <2>2. CASE u # s
      BY <2>2, <1>1, <1>3 DEF SlotsOK, InRange, Loaded
    <2> QED BY <2>1, <2>2
  <1> QED BY <1>1, <1>2, <1>3 DEF SlotsOK

\* A command of a CLI task, up to its return or to its enqueue.
LEMMA CliStep ==
    ASSUME Inv, NEW t \in CliTasks, Cli(t)
    PROVE  Inv'
  <1> SlotsOK /\ QueueOK /\ TrackersOK /\ CmdOK /\ CliOK
    BY Parts
  <1>1. ASSUME NEW s \in Slots, RunTest(t, s) PROVE Inv'
    <2>1. PlainJob("TEST", s) \in Jobs
      BY PlainJobType DEF JobTypes
    <2>2. QueueOK'
      BY <1>1, <2>1, EnqueueType DEF RunTest
    <2>3. SlotsOK' /\ TrackersOK' /\ CmdOK' /\ CliOK'
      BY <1>1 DEF RunTest, SlotsOK, TrackersOK, CmdOK, CliOK, cmdVars, slotVars, HasJob, Loaded
    <2> QED BY <2>2, <2>3, Parts, PTL
  <1>2. ASSUME NEW s \in Slots, NEW b \in Bindings, NEW v \in StoredValues, NEW on \in BOOLEAN,
               StoreAndReload(t, s, b, v, on)
        PROVE  Inv'
    <2>1. b \in BindingType \union {NoBinding} /\ v \in Int
      BY EngineAssumption
    <2>2. SlotsOK'
      BY <1>2, <2>1, LoadSlotType DEF StoreAndReload
    <2>3. QueueOK' /\ TrackersOK' /\ CmdOK' /\ CliOK'
      BY <1>2 DEF StoreAndReload, QueueOK, TrackersOK, CmdOK, CliOK, cmdVars, HasJob
    <2> QED BY <2>2, <2>3, Parts, PTL
  <1>3. ASSUME NEW s \in Slots, ClearSlot(t, s) PROVE Inv'
    <2>1. SlotsOK'
      BY <1>3, LoadSlotType, 0 \in Int, FALSE \in BOOLEAN DEF ClearSlot
    <2>2. QueueOK' /\ TrackersOK' /\ CmdOK' /\ CliOK'
      BY <1>3 DEF ClearSlot, QueueOK, TrackersOK, CmdOK, CliOK, cmdVars, HasJob
    <2> QED BY <2>1, <2>2, Parts, PTL
  <1> QED BY <1>1, <1>2, <1>3, SetValueStep, ToggleStep DEF Cli

\* The end of a command enqueues the job it made.
LEMMA CliEnqueueStep ==
    ASSUME Inv, NEW t \in CliTasks, CliEnqueue(t)
    PROVE  Inv'
  <1> SlotsOK /\ QueueOK /\ TrackersOK /\ CmdOK /\ CliOK
    BY Parts
  <1>1. cli[t] \in Jobs
    BY DEF CliEnqueue, CliOK
  <1>2. QueueOK'
    BY <1>1, EnqueueType DEF CliEnqueue
  <1>3. SlotsOK' /\ TrackersOK' /\ CmdOK' /\ CliOK'
    BY DEF CliEnqueue, SlotsOK, TrackersOK, CmdOK, CliOK, cmdVars, slotVars, HasJob, Loaded
  <1> QED BY <1>2, <1>3, Parts, PTL

-----------------------------------------------------------------------------
\* A capped age stays one.
LEMMA OlderType ==
    ASSUME NEW a \in Ages
    PROVE  Older(a) \in Ages /\ a <= Older(a)
  BY ProbeTicksAssumption DEF Older, Ages

\* What the tracker's operations make of a tracker (sd_offline.c).
LEMMA TrackerTypes ==
    ASSUME NEW k \in Trackers, NEW a \in Ages, NEW ok \in BOOLEAN
    PROVE  /\ Feed(k, ok) \in Trackers
           /\ AfterShouldSend(k) \in Trackers
           /\ WifiDownTracker(k) \in Trackers
           /\ WifiUpTracker(k, a) \in Trackers
           /\ [k EXCEPT !.age = Older(a)] \in Trackers
  <1> USE FailLimitAssumption, ProbeTicksAssumption
  <1>0. /\ k.offline \in BOOLEAN /\ k.fail \in 0..FailLimit /\ k.age \in Ages
        /\ 0 \in Ages /\ 0 \in 0..FailLimit /\ FailLimit \in 0..FailLimit
        /\ k.fail + 1 < FailLimit => k.fail + 1 \in 0..FailLimit
    BY DEF Trackers, Ages
  <1>a. ASSUME NEW off \in BOOLEAN, NEW f \in 0..FailLimit
        PROVE  [k EXCEPT !.fail = f, !.offline = off] \in Trackers
    BY DEF Trackers
  <1>1. Feed(k, ok) \in Trackers
    <2>1. CASE ok
      <3>1. Feed(k, ok) = [k EXCEPT !.fail = 0, !.offline = FALSE]
        BY <2>1, Zenon DEF Feed
      <3> QED BY <1>0, <1>a, <3>1
    <2>2. CASE ~ok
      <3>1. Feed(k, ok) = FeedFailure(k)
        BY <2>2, Zenon DEF Feed
      <3>2. CASE k.offline
        BY <1>0, <3>1, <3>2 DEF FeedFailure, Trackers
      <3>3. CASE ~k.offline /\ k.fail + 1 >= FailLimit
        BY <1>0, <3>1, <3>3 DEF FeedFailure, Trackers
      <3>4. CASE ~k.offline /\ k.fail + 1 < FailLimit
        BY <1>0, <3>1, <3>4 DEF FeedFailure, Trackers
      <3> QED BY <1>0, <3>2, <3>3, <3>4
    <2> QED BY <2>1, <2>2
  <1>2. AfterShouldSend(k) \in Trackers
    BY <1>0 DEF AfterShouldSend, Trackers
  <1>3. WifiDownTracker(k) \in Trackers
    <2>1. WifiDownTracker(k) = [k EXCEPT !.fail = FailLimit, !.offline = TRUE]
      BY DEF WifiDownTracker, Trackers
    <2> QED BY <1>0, <1>a, <2>1
  <1>4. WifiUpTracker(k, a) \in Trackers
    <2>1. WifiUpTracker(k, a) = [k EXCEPT !.fail = 0, !.age = a]
      BY DEF WifiUpTracker
    <2>2. ASSUME NEW f \in 0..FailLimit PROVE [k EXCEPT !.fail = f, !.age = a] \in Trackers
      BY DEF Trackers
    <2> QED BY <1>0, <2>1, <2>2
  <1>5. Older(a) \in Ages
    BY OlderType
  <1>6. [k EXCEPT !.age = Older(a)] \in Trackers
    BY <1>5 DEF Trackers
  <1> QED BY <1>1, <1>2, <1>3, <1>4, <1>6

\* Timers, the clock and the handler of "wifi.state".
LEMMA AroundStep ==
    ASSUME Inv,
           \/ \E s \in Slots: TimerExpires(PlainJob("TIMEOUT", s))
           \/ TimerExpires(PlainJob("NVS_SAVE", 1))
           \/ Tick \/ WifiDown \/ WifiUp \/ WifiReconcile
    PROVE  Inv'
  <1> SlotsOK /\ QueueOK /\ TrackersOK /\ CmdOK /\ CliOK
    BY Parts
  <1> SlotCount \in Nat \ {0}
    BY EngineAssumption
  <1>1. ASSUME NEW s \in Slots, NEW type \in JobTypes, TimerExpires(PlainJob(type, s))
        PROVE  Inv'
    <2>1. QueueOK'
      BY <1>1, PlainJobType, EnqueueType DEF TimerExpires
    <2>2. SlotsOK' /\ TrackersOK' /\ CmdOK' /\ CliOK'
      BY <1>1 DEF TimerExpires, SlotsOK, TrackersOK, CmdOK, CliOK, cmdVars, slotVars, HasJob,
                  Loaded
    <2> QED BY <2>1, <2>2, Parts, PTL
  <1>2. ASSUME Tick PROVE Inv'
    <2>1. \A s \in Slots: tracker[s] \in Trackers /\ tracker[s].age \in Ages
      BY DEF TrackersOK, Trackers
    <2>2. \A s \in Slots: [tracker[s] EXCEPT !.age = Older(tracker[s].age)] \in Trackers
      BY <2>1, TrackerTypes, TRUE \in BOOLEAN
    <2>4. Older(uptime) \in Ages
      BY OlderType DEF TrackersOK
    <2>5. tracker' \in [Slots -> Trackers] /\ uptime' \in Ages
      BY <1>2, <2>2, <2>4 DEF Tick
    <2>3. TrackersOK'
      BY <1>2, <2>5 DEF Tick, TrackersOK
    <2>6. SlotsOK' /\ QueueOK' /\ CmdOK' /\ CliOK'
      BY <1>2 DEF Tick, SlotsOK, QueueOK, CmdOK, CliOK, cmdVars, slotVars, HasJob, Loaded
    <2> QED BY <2>3, <2>6, Parts, PTL
  <1>3. ASSUME WifiDown PROVE Inv'
    <2>1. tracker' \in [Slots -> Trackers]
      BY <1>3, TrackerTypes DEF WifiDown, TrackersOK
    <2>2. TrackersOK'
      BY <1>3, <2>1 DEF WifiDown, TrackersOK
    <2>3. SlotsOK' /\ QueueOK' /\ CmdOK' /\ CliOK'
      BY <1>3 DEF WifiDown, SlotsOK, QueueOK, CmdOK, CliOK, cmdVars, slotVars, HasJob, Loaded
    <2> QED BY <2>2, <2>3, Parts, PTL
  <1>4. ASSUME WifiUp PROVE Inv'
    <2>1. tracker' \in [Slots -> Trackers]
      BY <1>4, TrackerTypes DEF WifiUp, TrackersOK
    <2>2. TrackersOK'
      BY <1>4, <2>1 DEF WifiUp, TrackersOK
    <2>3. SlotsOK' /\ QueueOK' /\ CmdOK' /\ CliOK'
      BY <1>4 DEF WifiUp, SlotsOK, QueueOK, CmdOK, CliOK, cmdVars, slotVars, HasJob, Loaded
    <2> QED BY <2>2, <2>3, Parts, PTL
  <1>5. ASSUME WifiReconcile PROVE Inv'
    <2>1. QueueOK'
      BY <1>5, ReconcileType DEF WifiReconcile, Inv
    <2>2. TrackersOK'
      BY <1>5 DEF WifiReconcile, TrackersOK, Slots
    <2>3. SlotsOK' /\ CmdOK' /\ CliOK'
      BY <1>5 DEF WifiReconcile, SlotsOK, CmdOK, CliOK, cmdVars, slotVars, HasJob, Loaded
    <2> QED BY <2>1, <2>2, <2>3, Parts, PTL
  <1>6. 1 \in Slots /\ "NVS_SAVE" \in JobTypes /\ "TIMEOUT" \in JobTypes
    BY DEF Slots, JobTypes
  <1> QED BY <1>1, <1>2, <1>3, <1>4, <1>5, <1>6

-----------------------------------------------------------------------------
\* The steps of sd_cmd that take jobs from the queue.
LEMMA ReceiveStep ==
    ASSUME Inv, Receive \/ Drain \/ DrainTimeout
    PROVE  Inv'
  <1> SlotsOK /\ QueueOK /\ TrackersOK /\ CmdOK /\ CliOK
    BY Parts
  <1>1. ASSUME queue # <<>>
        PROVE  /\ Head(queue) \in Jobs /\ Head(queue) # NoJob
               /\ Tail(queue) \in Seq(Jobs) /\ Len(Tail(queue)) <= QueueLen
    BY <1>1, NoJobAssumption, EngineAssumption DEF QueueOK
  <1>2. ASSUME Receive PROVE Inv'
    <2>1. QueueOK'
      BY <1>1, <1>2 DEF Receive, QueueOK
    <2>2. PcFor(Head(queue)) \in {"drain", "gate", "capture", "other"}
      BY <1>1, <1>2 DEF Receive, PcFor
    <2>3. CmdOK'
      BY <1>1, <1>2, <2>2 DEF Receive, CmdOK, HasJob
    <2>4. SlotsOK' /\ TrackersOK' /\ CliOK'
      BY <1>2 DEF Receive, SlotsOK, TrackersOK, CliOK, slotVars, Loaded
    <2> QED BY <2>1, <2>3, <2>4, Parts, PTL
  <1>3. ASSUME Drain PROVE Inv'
    <2>1. QueueOK'
      BY <1>1, <1>3 DEF Drain, QueueOK
    <2>2. CmdOK'
      BY <1>1, <1>3 DEF Drain, CmdOK, HasJob
    <2>3. SlotsOK' /\ TrackersOK' /\ CliOK'
      BY <1>3 DEF Drain, SlotsOK, TrackersOK, CliOK, slotVars, Loaded
    <2> QED BY <2>1, <2>2, <2>3, Parts, PTL
  <1>4. ASSUME DrainTimeout PROVE Inv'
    <2>1. SlotsOK' /\ QueueOK' /\ TrackersOK' /\ CmdOK' /\ CliOK'
      BY <1>4 DEF DrainTimeout, SlotsOK, QueueOK, TrackersOK, CmdOK, CliOK, slotVars, HasJob,
                  Loaded
    <2> QED BY <2>1, Parts, PTL
  <1> QED BY <1>2, <1>3, <1>4

\* The steps of sd_cmd that execute a job.
LEMMA ExecuteStep ==
    ASSUME Inv, \/ Other \/ Capture \/ Gate \/ Materialize
                \/ \E ok \in BOOLEAN: Transport(ok)
                \/ CameReconcile
    PROVE  Inv'
  <1> SlotsOK /\ QueueOK /\ TrackersOK /\ CmdOK /\ CliOK
    BY Parts
  <1>1. ASSUME Finish, UNCHANGED linked PROVE CmdOK'
    BY <1>1, EndJobType DEF Finish, CmdOK
  <1>2. ASSUME Other PROVE Inv'
    <2>1. CmdOK'
      BY <1>1, <1>2 DEF Other
    <2>2. SlotsOK' /\ QueueOK' /\ TrackersOK' /\ CliOK'
      BY <1>2 DEF Other, SlotsOK, QueueOK, TrackersOK, CliOK, slotVars, Loaded
    <2> QED BY <2>1, <2>2, Parts, PTL
  <1>3. ASSUME Capture PROVE Inv'
    <2>1. job \in Jobs /\ job.slot \in Slots
      BY <1>3 DEF Capture, CmdOK, HasJob, Jobs
    <2>2. ASSUME Loaded(job.slot) PROVE CmdOK'
      <3>1. ctx[job.slot].value \in Int /\ ctx[job.slot].state \in BOOLEAN
        BY <2>1 DEF SlotsOK, Contexts
      <3>2. SendJob(job.slot, "VALUE", ctx[job.slot].value, ctx[job.slot].state) \in Jobs
        BY <2>1, <3>1, SendJobType DEF Kinds
      <3>3. wire' \in Jobs /\ pc' = "gate" /\ UNCHANGED <<job, carry, linked>>
        BY <1>3, <2>2, <3>2 DEF Capture, Test, Sends
      <3> QED BY <2>1, <3>3, NoJobAssumption DEF CmdOK, HasJob
    <2>3. ASSUME ~Loaded(job.slot) PROVE CmdOK'
      BY <1>1, <1>3, <2>3 DEF Capture
    <2>4. SlotsOK' /\ QueueOK' /\ TrackersOK' /\ CliOK'
      BY <1>3 DEF Capture, SlotsOK, QueueOK, TrackersOK, CliOK, slotVars, Loaded
    <2> QED BY <2>2, <2>3, <2>4, Parts, PTL
  <1>4. ASSUME Gate PROVE Inv'
    <2>1. ASSUME ShouldSend(tracker[Sending.slot]) PROVE CmdOK' /\ TrackersOK'
      <3>1. /\ tracker' = [tracker EXCEPT ![Sending.slot] = AfterShouldSend(@)]
            /\ pc' = "materialize" /\ UNCHANGED <<job, carry, wire, linked>>
        BY <1>4, <2>1 DEF Gate
      <3>2. tracker' \in [Slots -> Trackers]
        <4>1. \A s \in Slots: AfterShouldSend(tracker[s]) \in Trackers
          BY TrackerTypes, TRUE \in BOOLEAN DEF TrackersOK
        <4> QED BY <3>1, <4>1 DEF TrackersOK
      <3>3. job # NoJob
        BY <1>4 DEF Gate, CmdOK, HasJob
      <3>4. CmdOK'
        BY <3>1, <3>3 DEF CmdOK, HasJob
      <3>5. TrackersOK'
        BY <1>4, <3>2 DEF Gate, TrackersOK
      <3> QED BY <3>4, <3>5
    <2>2. ASSUME ~ShouldSend(tracker[Sending.slot]) PROVE CmdOK' /\ TrackersOK'
      <3>1. CmdOK'
        BY <1>1, <1>4, <2>2 DEF Gate
      <3>2. TrackersOK'
        BY <1>4, <2>2 DEF Gate, TrackersOK
      <3> QED BY <3>1, <3>2
    <2>3. SlotsOK' /\ QueueOK' /\ CliOK'
      BY <1>4 DEF Gate, SlotsOK, QueueOK, CliOK, slotVars, Loaded
    <2> QED BY <2>1, <2>2, <2>3, Parts, PTL
  <1>5. ASSUME Materialize PROVE Inv'
    <2>1. ASSUME Loaded(Sending.slot), Sending.kind \in bound[Sending.slot].cmds PROVE CmdOK'
      <3>1. pc' = "transport" /\ linked' = wifi /\ UNCHANGED <<job, carry, wire>>
        BY <1>5, <2>1 DEF Materialize
      <3>2. job # NoJob
        BY <1>5 DEF Materialize, CmdOK, HasJob
      <3> QED BY <3>1, <3>2 DEF CmdOK, HasJob, TrackersOK
    <2>2. ASSUME ~(Loaded(Sending.slot) /\ Sending.kind \in bound[Sending.slot].cmds)
          PROVE  CmdOK'
      BY <1>1, <1>5, <2>2 DEF Materialize
    <2>3. SlotsOK' /\ QueueOK' /\ TrackersOK' /\ CliOK'
      BY <1>5 DEF Materialize, SlotsOK, QueueOK, TrackersOK, CliOK, slotVars, Loaded
    <2> QED BY <2>1, <2>2, <2>3, Parts, PTL
  <1>6. ASSUME NEW ok \in BOOLEAN, Transport(ok) PROVE Inv'
    <2>1. tracker' = [tracker EXCEPT ![Sending.slot] = Feed(tracker[Sending.slot], ok)]
      BY <1>6 DEF Transport
    <2>2. TrackersOK'
      <3>1. \A s \in Slots: Feed(tracker[s], ok) \in Trackers
        BY TrackerTypes DEF TrackersOK
      <3>2. tracker' \in [Slots -> Trackers]
        BY <2>1, <3>1 DEF TrackersOK
      <3> QED BY <1>6, <3>2 DEF Transport, TrackersOK
    <2>3. ASSUME Came(tracker[Sending.slot], ok) PROVE CmdOK'
      <3>1. pc' = "reconcile" /\ UNCHANGED <<job, carry, wire, linked>>
        BY <1>6, <2>3 DEF Transport
      <3>2. job # NoJob
        BY <1>6 DEF Transport, CmdOK, HasJob
      <3> QED BY <3>1, <3>2 DEF CmdOK, HasJob
    <2>4. ASSUME ~Came(tracker[Sending.slot], ok) PROVE CmdOK'
      BY <1>6, <2>4, EndJobType DEF Transport, CmdOK
    <2>5. SlotsOK' /\ QueueOK' /\ CliOK'
      BY <1>6 DEF Transport, SlotsOK, QueueOK, CliOK, slotVars, Loaded
    <2> QED BY <2>2, <2>3, <2>4, <2>5, Parts, PTL
  <1>7. ASSUME CameReconcile PROVE Inv'
    <2>1. job \in Jobs /\ Sending \in Jobs /\ Sending.slot \in Slots
      BY <1>7 DEF CameReconcile, CmdOK, HasJob, Sending, Jobs
    <2>2. QueueOK'
      BY <1>7, <2>1, ReconcileType DEF CameReconcile, Inv
    <2>3. CmdOK'
      BY <1>7, EndJobType DEF CameReconcile, CmdOK
    <2>4. SlotsOK' /\ TrackersOK' /\ CliOK'
      BY <1>7 DEF CameReconcile, SlotsOK, TrackersOK, CliOK, slotVars, Loaded
    <2> QED BY <2>2, <2>3, <2>4, Parts, PTL
  <1> QED BY <1>2, <1>3, <1>4, <1>5, <1>6, <1>7

\* Every step of the engine preserves the invariant.
LEMMA InvStep == Inv /\ [Next]_vars => Inv'
  <1> SUFFICES ASSUME Inv, [Next]_vars PROVE Inv'
    OBVIOUS
  <1>1. CASE UNCHANGED vars
    <2>1. SlotsOK' /\ QueueOK' /\ TrackersOK' /\ CmdOK' /\ CliOK'
      BY <1>1, Parts DEF vars, slotVars, cmdVars, SlotsOK, QueueOK, TrackersOK, CmdOK, CliOK,
                         HasJob, Loaded
    <2> QED BY <2>1, Parts, PTL
  <1>2. CASE Next
    BY <1>2, SdInputStep, CliStep, CliEnqueueStep, AroundStep, ReceiveStep, ExecuteStep
       DEF Next, SdCmd
  <1> QED BY <1>1, <1>2

\* Whatever is loaded, turned, pressed, set, sent, lost and reconciled, for any number of
\* slots and any profiles: the queue keeps its length, the trackers their form, and the
\* value of every loaded slot is one its profile or its driver allows.
THEOREM EngineTypeOK == Spec => []TypeOK
  <1>1. Inv => TypeOK
    BY DEF Inv
  <1> QED BY InitOK, InvStep, <1>1, PTL DEF Spec

-----------------------------------------------------------------------------
(* The spacing of the probes.                                              *)

\* Reading the clock later makes ages and lulls grow together.
LEMMA OlderMonotone ==
    ASSUME NEW a \in Ages, NEW b \in Ages, a <= b
    PROVE  Older(a) <= Older(b)
  BY ProbeTicksAssumption DEF Older, Ages

\* No step lets the age of a tracker overtake the time since the failure.
LEMMA AgeStep ==
    ASSUME Inv, AgeBehindLull, [Next]_vars
    PROVE  AgeBehindLull'
  <1> USE ProbeTicksAssumption
  <1> \A s \in Slots: tracker[s] \in Trackers /\ tracker[s].age \in Ages /\ lull[s] \in Ages
    BY DEF Inv, TypeOK, Trackers, AgeBehindLull
  <1> tracker \in [Slots -> Trackers] /\ uptime \in Ages /\ lull \in [Slots -> Ages]
    BY DEF Inv, TypeOK, AgeBehindLull
  <1>1. ASSUME UNCHANGED <<tracker, lull>> PROVE AgeBehindLull'
    BY <1>1 DEF AgeBehindLull
  <1>2. ASSUME Tick PROVE AgeBehindLull'
    <2>1. lull' = [s \in Slots |-> Older(lull[s])]
      BY <1>2 DEF Tick
    <2>2. ASSUME NEW s \in Slots
          PROVE  Older(lull[s]) \in Ages /\ tracker'[s].age = Older(tracker[s].age)
      BY <1>2, OlderType DEF Tick, Trackers
    <2>3. \A s \in Slots: Older(tracker[s].age) <= Older(lull[s])
      BY OlderMonotone DEF AgeBehindLull
    <2> QED BY <2>1, <2>2, <2>3 DEF AgeBehindLull
  <1>3. ASSUME WifiDown PROVE AgeBehindLull'
    <2>1. UNCHANGED lull /\ \A s \in Slots: tracker'[s].age = tracker[s].age
      BY <1>3 DEF WifiDown, WifiDownTracker, history, Trackers
    <2> QED BY <2>1 DEF AgeBehindLull
  <1>4. ASSUME WifiUp PROVE AgeBehindLull'
    <2>1. /\ lull' = [s \in Slots |-> ProbeTicks]
          /\ \A s \in Slots: tracker'[s].age = uptime
      BY <1>4 DEF WifiUp, WifiUpTracker, Trackers
    <2> QED BY <2>1 DEF AgeBehindLull, Ages
  <1>5. ASSUME Gate PROVE AgeBehindLull'
    <2>1. UNCHANGED lull
      BY <1>5 DEF Gate
    <2>2. CASE ShouldSend(tracker[Sending.slot])
      <3>1. tracker' = [tracker EXCEPT ![Sending.slot] = AfterShouldSend(@)]
        BY <1>5, <2>2 DEF Gate
      <3>2. \A s \in Slots: AfterShouldSend(tracker[s]).age <= tracker[s].age
        BY DEF AfterShouldSend, Trackers, Ages
      <3>3. \A s \in Slots: AfterShouldSend(tracker[s]).age \in Ages
        BY DEF AfterShouldSend, Trackers, Ages
      <3>4. \A s \in Slots: tracker'[s].age <= tracker[s].age /\ tracker'[s].age \in Ages
        BY <3>1, <3>2, <3>3 DEF Ages
      <3> QED BY <2>1, <3>4 DEF AgeBehindLull, Ages
    <2>3. CASE ~ShouldSend(tracker[Sending.slot])
      BY <1>1, <1>5, <2>1, <2>3 DEF Gate
    <2> QED BY <2>2, <2>3
  <1>6. ASSUME NEW ok \in BOOLEAN, Transport(ok) PROVE AgeBehindLull'
    <2> DEFINE s == Sending.slot
               k == Feed(tracker[s], ok)
    <2>1. /\ tracker' = [tracker EXCEPT ![s] = k]
          /\ lull' = [lull EXCEPT ![s] =
                   IF ok THEN ProbeTicks ELSE IF k.offline THEN 0 ELSE @]
      BY <1>6 DEF Transport
    <2>2. CASE s \in Slots
      <3>1. CASE ok
        <4>1. k.age = tracker[s].age
          BY <2>2, <3>1 DEF Feed, Trackers
        <4>2. lull' = [lull EXCEPT ![s] = ProbeTicks]
          BY <2>1, <3>1, Zenon
        <4>3. \A t \in Slots: tracker'[t].age = tracker[t].age
          BY <2>1, <2>2, <4>1 DEF Trackers
        <4>4. \A t \in Slots: lull'[t] = lull[t] \/ lull'[t] = ProbeTicks
          BY <4>2
        <4>5. lull' \in [Slots -> Ages]
          <5>1. ProbeTicks \in Ages
            BY DEF Ages
          <5> HIDE DEF s
          <5> QED BY <4>2, <5>1
        <4> QED BY <4>3, <4>4, <4>5 DEF AgeBehindLull, Ages
      <3>2. CASE ~ok
        <4>1. k.age = 0 \/ (k.age = tracker[s].age /\ ~k.offline)
          BY <2>2, <3>2 DEF Feed, FeedFailure, Trackers
        <4>2. k.offline => k.age = 0
          BY <4>1
        <4> QED BY <2>1, <2>2, <3>2, <4>1, <4>2 DEF AgeBehindLull, Ages
      <3> QED BY <3>1, <3>2
    <2>3. CASE s \notin Slots
      <3>1. UNCHANGED <<tracker, lull>>
        BY <2>1, <2>3
      <3> QED BY <1>1, <3>1
    <2> QED BY <2>2, <2>3
  <1>7. ASSUME SdInput \/ (\E c \in CliTasks: Cli(c) \/ CliEnqueue(c))
               \/ (\E s \in Slots: TimerExpires(PlainJob("TIMEOUT", s)))
               \/ TimerExpires(PlainJob("NVS_SAVE", 1))
               \/ WifiReconcile \/ Receive \/ Drain \/ DrainTimeout \/ Other \/ Capture
               \/ Materialize \/ CameReconcile \/ UNCHANGED vars
        PROVE  UNCHANGED <<tracker, lull>>
    <2>1. CASE SdInput
      <3>1. ASSUME NEW s \in Slots, NEW i \in Inputs(Detents), NEW factor, Input(s, i, factor)
            PROVE  UNCHANGED <<tracker, lull>>
        BY <3>1 DEF Input
      <3>2. ASSUME NEW dir, SlotStep(dir) PROVE UNCHANGED <<tracker, lull>>
        BY <3>2 DEF SlotStep, history
      <3> QED BY <2>1, <3>1, <3>2 DEF SdInput
    <2>2. ASSUME NEW c \in CliTasks, Cli(c) \/ CliEnqueue(c)
          PROVE  UNCHANGED <<tracker, lull>>
      BY <2>2 DEF Cli, SetValue, Toggle, RunTest, StoreAndReload, ClearSlot, CliEnqueue, history
    <2>3. CASE \/ \E s \in Slots: TimerExpires(PlainJob("TIMEOUT", s))
               \/ TimerExpires(PlainJob("NVS_SAVE", 1))
               \/ WifiReconcile
      BY <2>3 DEF TimerExpires, WifiReconcile
    <2>4. CASE Receive \/ Drain \/ DrainTimeout \/ Other
      BY <2>4 DEF Receive, Drain, DrainTimeout, Other, history
    <2>5. CASE Capture \/ Materialize \/ CameReconcile \/ UNCHANGED vars
      BY <2>5 DEF Capture, Materialize, CameReconcile, vars, history
    <2> QED BY <1>7, <2>1, <2>2, <2>3, <2>4, <2>5
  <1> QED BY <1>1, <1>2, <1>3, <1>4, <1>5, <1>6, <1>7 DEF Next, SdCmd

\* An offline target is tried at most once in SD_OFFLINE_PROBE_MS after a failure, through
\* sends that were already queued, tests, reconciliations and bindings loaded meanwhile.
THEOREM ProbesAreSpaced == Spec => ProbesSpaced
  <1>1. Init => Inv /\ AgeBehindLull
    BY InitOK
  <1>2. Inv /\ AgeBehindLull /\ [Next]_vars => (Inv /\ AgeBehindLull)'
    BY InvStep, AgeStep
  <1>3. Inv /\ AgeBehindLull /\ [Next]_vars =>
            \A s \in Slots:
                (pc = "gate" /\ pc' = "materialize" /\ Sending.slot = s /\ tracker[s].offline)
                => lull[s] >= ProbeTicks
    <2> SUFFICES ASSUME Inv, AgeBehindLull, [Next]_vars, NEW s \in Slots,
                        pc = "gate", pc' = "materialize", Sending.slot = s, tracker[s].offline
                 PROVE  lull[s] >= ProbeTicks
      OBVIOUS
    <2>1. Gate
      <3>1. ~UNCHANGED pc
        OBVIOUS
      <3>2. ~SdInput /\ ~(\E c \in CliTasks: Cli(c) \/ CliEnqueue(c))
            /\ ~(\E t \in Slots: TimerExpires(PlainJob("TIMEOUT", t)))
            /\ ~TimerExpires(PlainJob("NVS_SAVE", 1))
            /\ ~Tick /\ ~WifiDown /\ ~WifiUp /\ ~WifiReconcile /\ ~UNCHANGED vars
        BY <3>1 DEF SdInput, Input, SlotStep, Cli, SetValue, Toggle, RunTest, StoreAndReload,
                    ClearSlot, CliEnqueue, TimerExpires, Tick, WifiDown, WifiUp,
                    WifiReconcile, vars, cmdVars
      <3>3. /\ ~Receive /\ ~Drain /\ ~DrainTimeout /\ ~Other /\ ~Capture /\ ~Materialize
            /\ ~CameReconcile /\ ~(\E ok \in BOOLEAN: Transport(ok))
        BY DEF Receive, Drain, DrainTimeout, Other, Capture, Materialize, CameReconcile,
               Transport
      <3> QED BY <3>2, <3>3 DEF Next, SdCmd
    <2>2. ShouldSend(tracker[s])
      <3>1. pc' # "materialize" \/ ShouldSend(tracker[s])
        <4>1. ASSUME ~ShouldSend(tracker[s]) PROVE pc' # "materialize"
          <5>1. Finish
            BY <2>1, <4>1 DEF Gate
          <5> QED BY <5>1, EndJobType, Parts DEF Finish
        <4> QED BY <4>1
      <3> QED BY <3>1
    <2>3. tracker[s].age >= ProbeTicks
      BY <2>2 DEF ShouldSend
    <2>4. tracker[s].age <= lull[s] /\ tracker[s].age \in Ages /\ lull[s] \in Ages
      BY DEF AgeBehindLull, Inv, TypeOK, Trackers
    <2> QED BY <2>3, <2>4, ProbeTicksAssumption DEF Ages
  <1> QED BY <1>1, <1>2, <1>3, PTL DEF Spec, ProbesSpaced

-----------------------------------------------------------------------------
(* What enqueue_job does to the VALUE jobs of a slot.                      *)

\* The last VALUE for slot s in queue q is v.
LastIs(q, s, v) ==
    \E i \in 1..Len(q): /\ IsSend(q[i], s, "VALUE") /\ q[i].value = v
                        /\ \A k \in (i + 1)..Len(q): ~IsSend(q[k], s, "VALUE")

\* A job at the end of the queue is the last of its slot, and no matter to the others.
LEMMA AppendSeen ==
    ASSUME NEW q \in Seq(Jobs), NEW j \in Jobs, NEW s
    PROVE  /\ HoldsSend(Append(q, j), s, "VALUE")
                  <=> HoldsSend(q, s, "VALUE") \/ IsSend(j, s, "VALUE")
           /\ IsSend(j, s, "VALUE") => LastIs(Append(q, j), s, j.value)
           /\ \A v: ~IsSend(j, s, "VALUE") /\ LastIs(q, s, v) => LastIs(Append(q, j), s, v)
<1>. DEFINE u == Append(q, j)
            n == Len(q)
            V(x) == IsSend(x, s, "VALUE")
<1>1. /\ n \in Nat /\ u \in Seq(Jobs) /\ Len(u) = n + 1 /\ u[n + 1] = j
      /\ \A i \in 1..n: u[i] = q[i]
  BY AppendProperties
<1>. HIDE DEF u, n, V
<1>2. \A i \in 1..Len(u): i = n + 1 \/ i \in 1..n
  BY <1>1
<1>3. (\E i \in 1..Len(u): V(u[i])) <=> (\E i \in 1..n: V(q[i])) \/ V(j)
  <2>1. ASSUME V(j) PROVE \E i \in 1..Len(u): V(u[i])
    <3>1. n + 1 \in 1..Len(u) /\ V(u[n + 1])
      BY <1>1, <2>1
    <3>. QED BY <3>1
  <2>2. ASSUME NEW i \in 1..n, V(q[i]) PROVE \E k \in 1..Len(u): V(u[k])
    <3>1. i \in 1..Len(u) /\ V(u[i])
      BY <1>1, <2>2
    <3>. QED BY <3>1
  <2>3. ASSUME NEW i \in 1..Len(u), V(u[i]) PROVE (\E k \in 1..n: V(q[k])) \/ V(j)
    BY <1>1, <1>2, <2>3
  <2>. QED BY <2>1, <2>2, <2>3
<1>4. V(j) => LastIs(u, s, j.value)
  <2>1. n + 1 \in 1..Len(u) /\ u[n + 1] = j /\ \A k \in ((n + 1) + 1)..Len(u): FALSE
    BY <1>1
  <2>. QED BY <2>1 DEF LastIs, V
<1>5. ASSUME NEW v, ~V(j), LastIs(q, s, v) PROVE LastIs(u, s, v)
  <2>1. PICK i \in 1..n: /\ V(q[i]) /\ q[i].value = v
                         /\ \A k \in (i + 1)..n: ~V(q[k])
    BY <1>5 DEF LastIs, V, n
  <2>2. i \in 1..Len(u) /\ V(u[i]) /\ u[i].value = v
    BY <1>1, <2>1
  <2>3. ASSUME NEW k \in (i + 1)..Len(u) PROVE ~V(u[k])
    <3>1. k = n + 1 \/ (k \in 1..n /\ k \in (i + 1)..n)
      BY <1>1
    <3>. QED BY <1>1, <1>5, <2>1, <3>1
  <2>. QED BY <2>2, <2>3 DEF LastIs, V
<1>. QED BY <1>3, <1>4, <1>5 DEF HoldsSend, V, u, n

\* Without its head a queue holds the VALUE jobs it held behind it.
LEMMA TailSeen ==
    ASSUME NEW q \in Seq(Jobs), q # <<>>, NEW s
    PROVE  /\ HoldsSend(q, s, "VALUE")
                  <=> HoldsSend(Tail(q), s, "VALUE") \/ IsSend(Head(q), s, "VALUE")
           /\ \A v: HoldsSend(Tail(q), s, "VALUE") /\ LastIs(q, s, v) => LastIs(Tail(q), s, v)
           /\ \A v: ~HoldsSend(Tail(q), s, "VALUE") /\ LastIs(q, s, v)
                        => IsSend(Head(q), s, "VALUE") /\ Head(q).value = v
<1>. DEFINE t == Tail(q)
            m == Len(t)
            V(x) == IsSend(x, s, "VALUE")
<1>1. /\ m \in Nat /\ Len(q) = m + 1 /\ Head(q) = q[1] /\ t \in Seq(Jobs)
      /\ \A i \in 1..m: t[i] = q[i + 1]
  BY HeadTailProperties
<1>. HIDE DEF t, m, V
<1>2. \A i \in 1..Len(q): i = 1 \/ (i - 1 \in 1..m /\ t[i - 1] = q[i])
  <2>1. ASSUME NEW i \in 1..Len(q), i # 1 PROVE i - 1 \in 1..m /\ (i - 1) + 1 = i
    BY <1>1, <2>1
  <2>. QED BY <1>1, <2>1
<1>3. (\E i \in 1..Len(q): V(q[i])) <=> (\E i \in 1..m: V(t[i])) \/ V(Head(q))
  <2>1. ASSUME V(Head(q)) PROVE \E i \in 1..Len(q): V(q[i])
    <3>1. 1 \in 1..Len(q) /\ V(q[1])
      BY <1>1, <2>1
    <3>. QED BY <3>1
  <2>2. ASSUME NEW i \in 1..m, V(t[i]) PROVE \E k \in 1..Len(q): V(q[k])
    <3>1. i + 1 \in 1..Len(q) /\ V(q[i + 1])
      BY <1>1, <2>2
    <3>. QED BY <3>1
  <2>3. ASSUME NEW i \in 1..Len(q), V(q[i]) PROVE (\E k \in 1..m: V(t[k])) \/ V(Head(q))
    BY <1>1, <1>2, <2>3
  <2>. QED BY <2>1, <2>2, <2>3
<1>4. ASSUME NEW v, LastIs(q, s, v)
      PROVE  IF \E k \in 1..m: V(t[k]) THEN LastIs(t, s, v)
             ELSE V(Head(q)) /\ Head(q).value = v
  <2>1. PICK i \in 1..Len(q): /\ V(q[i]) /\ q[i].value = v
                              /\ \A k \in (i + 1)..Len(q): ~V(q[k])
    BY <1>4 DEF LastIs, V
  <2>2. CASE i = 1
    <3>1. ASSUME NEW k \in 1..m PROVE ~V(t[k])
      <4>1. k + 1 \in (i + 1)..Len(q) /\ t[k] = q[k + 1]
        BY <1>1, <2>2
      <4>. QED BY <2>1, <4>1
    <3>. QED BY <1>1, <2>1, <2>2, <3>1
  <2>3. CASE i # 1
    <3>1. i - 1 \in 1..m /\ V(t[i - 1]) /\ t[i - 1].value = v
      BY <1>2, <2>1, <2>3
    <3>2. ASSUME NEW k \in ((i - 1) + 1)..m PROVE ~V(t[k])
      <4>1. k + 1 \in (i + 1)..Len(q) /\ k \in 1..m
        BY <1>1, <3>1
      <4>. QED BY <1>1, <2>1, <4>1
    <3>3. LastIs(t, s, v)
      BY <3>1, <3>2 DEF LastIs, V, m
    <3>. QED BY <3>1, <3>3
  <2>. QED BY <2>2, <2>3
<1>. QED BY <1>3, <1>4 DEF HoldsSend, V, t, m

\* One round of enqueue_job on a full queue drops the oldest SEND or none: what is left of
\* a slot's VALUE jobs ends as before.
LEMMA RoomSeen ==
    ASSUME NEW q \in Seq(Jobs), q # <<>>, NEW s, HoldsSend(MakeRoom(q), s, "VALUE")
    PROVE  /\ HoldsSend(q, s, "VALUE")
           /\ \A v: LastIs(q, s, v) => LastIs(MakeRoom(q), s, v)
<1>1. Tail(q) \in Seq(Jobs) /\ Head(q) \in Jobs
  BY HeadTailProperties
<1>2. CASE Head(q).type = "SEND"
  BY <1>2, TailSeen DEF MakeRoom
<1>3. CASE Head(q).type # "SEND"
  <2>1. ~IsSend(Head(q), s, "VALUE") /\ MakeRoom(q) = Append(Tail(q), Head(q))
    BY <1>3 DEF MakeRoom, IsSend
  <2>2. HoldsSend(Tail(q), s, "VALUE")
    BY <1>1, <2>1, AppendSeen
  <2>. QED BY <1>1, <2>1, <2>2, TailSeen, AppendSeen
<1>. QED BY <1>2, <1>3

\* enqueue_job: a VALUE it takes is the slot's last, and of any other job's queue the last
\* VALUE is the one that was last, if any is left.
LEMMA AfterEnqueueSeen ==
    ASSUME NEW q \in Seq(Jobs), Len(q) <= QueueLen, NEW j \in Jobs, NEW s
    PROVE  /\ IsSend(j, s, "VALUE") /\ Accepted(q, j)
                  => /\ HoldsSend(AfterEnqueue(q, j), s, "VALUE")
                     /\ LastIs(AfterEnqueue(q, j), s, j.value)
           /\ ~IsSend(j, s, "VALUE") /\ HoldsSend(AfterEnqueue(q, j), s, "VALUE")
                  => /\ HoldsSend(q, s, "VALUE")
                     /\ \A v: LastIs(q, s, v) => LastIs(AfterEnqueue(q, j), s, v)
<1>. QueueLen \in Nat \ {0}
  BY EngineAssumption
<1>. DEFINE r == MakeRoom(q)
<1>1. CASE Len(q) < QueueLen
  BY <1>1, AppendSeen DEF AfterEnqueue, Accepted
<1>2. CASE Len(q) >= QueueLen
  <2>1. q # <<>> /\ r \in Seq(Jobs)
    <3>1. q # <<>>
      BY <1>2
    <3>. QED BY <3>1, MakeRoomType
  <2>2. HoldsSend(r, s, "VALUE") => /\ HoldsSend(q, s, "VALUE")
                                    /\ \A v: LastIs(q, s, v) => LastIs(r, s, v)
    BY <2>1, RoomSeen
  <2>. HIDE DEF r
  <2>3. CASE Len(r) < QueueLen
    <3>1. AfterEnqueue(q, j) = Append(r, j)
      BY <1>2, <2>3 DEF AfterEnqueue, r
    <3>. QED BY <2>1, <2>2, <3>1, AppendSeen
  <2>4. CASE Len(r) >= QueueLen
    <3>1. AfterEnqueue(q, j) = MakeRoom(r) /\ ~Accepted(q, j)
      BY <1>2, <2>4 DEF AfterEnqueue, Accepted, r
    <3>2. r # <<>>
      BY <2>4
    <3>. QED BY <2>1, <2>2, <3>1, <3>2, RoomSeen
  <2>. QED BY <2>1, <2>3, <2>4
<1>. QED BY <1>1, <1>2

-----------------------------------------------------------------------------
(* The TOGGLE jobs of a slot.                                              *)

\* The places of a sequence of jobs where slot s has a TOGGLE, and whether a job is one.
Toggling(q, s) == {i \in 1..Len(q): q[i] # NoJob /\ IsSend(q[i], s, "TOGGLE")}
One(j, s) == IF j # NoJob /\ IsSend(j, s, "TOGGLE") THEN 1 ELSE 0

\* A job in front counts by itself.
LEMMA TogglesBehind ==
    ASSUME NEW q \in Seq(Jobs \cup {NoJob}), NEW j \in Jobs \cup {NoJob}, NEW s
    PROVE  /\ Cardinality(Toggling(q, s)) \in Nat
           /\ Cardinality(Toggling(<<j>> \o q, s)) = One(j, s) + Cardinality(Toggling(q, s))
<1>. DEFINE J == Jobs \cup {NoJob}
            u == <<j>> \o q
            n == Len(q)
            A == Toggling(q, s)
            B == {i \in 2..(n + 1): i - 1 \in A}
<1>1. n \in Nat /\ u \in Seq(J) /\ Len(u) = n + 1 /\ u[1] = j /\ \A i \in 1..n: u[i + 1] = q[i]
  <2>1. <<j>> \in Seq(J) /\ Len(<<j>>) = 1 /\ n \in Nat /\ <<j>>[1] = j
    OBVIOUS
  <2>2. /\ u \in Seq(J) /\ Len(u) = 1 + n
        /\ \A i \in 1..(1 + n): u[i] = IF i <= 1 THEN <<j>>[i] ELSE q[i - 1]
    BY <2>1, ConcatProperties
  <2>. HIDE DEF u
  <2>3. u[1] = j
    <3>1. 1 \in 1..(1 + n)
      BY <2>1
    <3>. QED BY <2>1, <2>2, <3>1
  <2>4. ASSUME NEW i \in 1..n PROVE u[i + 1] = q[i]
    <3>1. i + 1 \in 1..(1 + n) /\ ~(i + 1 <= 1) /\ (i + 1) - 1 = i
      BY <2>1
    <3>. QED BY <2>2, <3>1
  <2>. QED BY <2>1, <2>2, <2>3, <2>4
<1>. HIDE DEF u
<1>2. A \in SUBSET (1..n) /\ IsFiniteSet(A) /\ Cardinality(A) \in Nat
  <2>1. A \in SUBSET (1..n)
    BY DEF Toggling
  <2>2. IsFiniteSet(1..n)
    BY <1>1, FS_Interval
  <2>. QED BY <2>1, <2>2, FS_Subset, FS_CardinalityType
<1>3. IsFiniteSet(B) /\ Cardinality(B) = Cardinality(A)
  <2>. DEFINE f == [i \in A |-> i + 1]
  <2>1. f \in Bijection(A, B)
    <3>1. \A i \in A: i \in 1..n /\ i + 1 \in B /\ (i + 1) - 1 = i
      BY <1>1, <1>2
    <3>2. \A i \in B: i - 1 \in A /\ f[i - 1] = i
      BY <1>1, <1>2
    <3>3. f \in [A -> B] /\ \A a, b \in A: f[a] = f[b] => a = b
      BY <1>1, <1>2, <3>1
    <3>. HIDE DEF f
    <3>. QED BY <3>2, <3>3 DEF Bijection, Injection, Surjection, IsInjective
  <2>. QED BY <1>2, <2>1, FS_Bijection DEF ExistsBijection
<1>4. Toggling(u, s) = IF One(j, s) = 1 THEN B \cup {1} ELSE B
  <2>1. \A i \in 1..(n + 1): i = 1 \/ (i \in 2..(n + 1) /\ i - 1 \in 1..n /\ u[i] = q[i - 1])
    BY <1>1
  <2>2. 1 \in 1..(n + 1) /\ 1 \notin B
    BY <1>1
  <2>3. \A i \in 2..(n + 1): i \in B <=> q[i - 1] # NoJob /\ IsSend(q[i - 1], s, "TOGGLE")
    BY <1>1 DEF Toggling
  <2>4. One(j, s) = 1 <=> j # NoJob /\ IsSend(j, s, "TOGGLE")
    BY DEF One
  <2>5. \A i: i \in Toggling(u, s)
              <=> i \in 1..(n + 1) /\ u[i] # NoJob /\ IsSend(u[i], s, "TOGGLE")
    BY <1>1 DEF Toggling
  <2>6. \A i \in B: i \in 1..(n + 1) /\ i \in 2..(n + 1)
    BY <1>1
  <2>. HIDE DEF B
  <2>7. ASSUME NEW i PROVE i \in Toggling(u, s) <=> (i = 1 /\ One(j, s) = 1) \/ i \in B
    <3>1. CASE i = 1
      BY <1>1, <2>2, <2>4, <2>5, <3>1
    <3>2. CASE i # 1 /\ i \in 1..(n + 1)
      BY <2>1, <2>3, <2>5, <3>2
    <3>3. CASE i \notin 1..(n + 1)
      BY <2>2, <2>5, <2>6, <3>3
    <3>. QED BY <3>1, <3>2, <3>3
  <2>. QED BY <2>7
<1>5. 1 \notin B
  OBVIOUS
<1>. HIDE DEF B, A
<1>6. Cardinality(B \cup {1}) = 1 + Cardinality(A)
  <2>1. Cardinality(B \cup {1}) = Cardinality(B) + 1
    BY <1>3, <1>5, FS_AddElement
  <2>. QED BY <1>2, <1>3, <2>1
<1>7. One(j, s) \in {0, 1}
  BY DEF One
<1>. QED BY <1>2, <1>3, <1>4, <1>6, <1>7 DEF u, A

\* What is counted of the queue alone.
LEMMA QueueToggles ==
    ASSUME NEW q \in Seq(Jobs), NEW s
    PROVE  /\ CountToggles(q, s) = Cardinality(Toggling(q, s)) /\ CountToggles(q, s) \in Nat
           /\ q # <<>> => CountToggles(q, s) = One(Head(q), s) + CountToggles(Tail(q), s)
<1>1. ASSUME NEW p \in Seq(Jobs)
      PROVE  CountToggles(p, s) = Cardinality(Toggling(p, s)) /\ p \in Seq(Jobs \cup {NoJob})
  <2>1. \A i \in 1..Len(p): p[i] # NoJob
    BY NoJobAssumption
  <2>2. Toggling(p, s) = {i \in 1..Len(p): IsSend(p[i], s, "TOGGLE")}
    BY <2>1 DEF Toggling
  <2>3. p \in Seq(Jobs \cup {NoJob})
    BY SeqMonotonic, Jobs \subseteq Jobs \cup {NoJob}
  <2>. QED BY <2>2, <2>3 DEF CountToggles
<1>2. NoJob \in Jobs \cup {NoJob}
  OBVIOUS
<1>3. CountToggles(q, s) \in Nat
  BY <1>1, <1>2, TogglesBehind
<1>4. ASSUME q # <<>>
      PROVE  CountToggles(q, s) = One(Head(q), s) + CountToggles(Tail(q), s)
  <2>1. Head(q) \in Jobs /\ Tail(q) \in Seq(Jobs) /\ q = <<Head(q)>> \o Tail(q)
    BY <1>4
  <2>2. Tail(q) \in Seq(Jobs \cup {NoJob}) /\ Head(q) \in Jobs \cup {NoJob}
    BY <1>1, <2>1
  <2>3. Cardinality(Toggling(<<Head(q)>> \o Tail(q), s))
            = One(Head(q), s) + Cardinality(Toggling(Tail(q), s))
    BY <2>2, TogglesBehind
  <2>. QED BY <1>1, <2>1, <2>3
<1>. QED BY <1>1, <1>3, <1>4

-----------------------------------------------------------------------------
(* Where the last VALUE of a slot is, and what sd_cmd holds at each place.  *)

HistoryOK ==
    /\ owed \in [Slots -> Int \cup {NoValue}] /\ sent \in [Slots -> Int \cup {NoValue}]
    /\ toggles \in [Slots -> Int]

\* The job and the carried job fit where sd_cmd is.
Placed ==
    /\ carry # NoJob => pc \notin {"receive", "drain"}
    /\ pc = "receive" => job = NoJob /\ wire = NoJob
    /\ pc = "capture" => job.type = "TEST"
    /\ wire # NoJob => job # NoJob /\ job.type = "TEST"
    /\ pc = "drain" => job.type = "SEND" /\ job.kind = "VALUE"

Held(j, s) == j # NoJob /\ IsSend(j, s, "VALUE")

\* The job is a VALUE that was not handed to the transport yet.
InHand(s) == pc \in {"drain", "gate", "materialize"} /\ Held(job, s)

\* The slot cannot take a VALUE, or gets its current one when its target is back.
Excused(s) ==
    \/ Loaded(s) => ~bound[s].profile \/ "VALUE" \notin bound[s].cmds
    \/ tracker[s].offline

\* No VALUE is on its way: the last one was sent, or the slot is excused, or about to be
\* reconciled.
Handled(s) ==
    \/ sent[s] = owed[s]
    \/ Excused(s)
    \/ pc = "reconcile" /\ Sending.slot = s

\* The last VALUE that was accepted is the last on its way, in the order in which sd_cmd
\* comes to them.
Way(s) ==
    owed[s] # NoValue =>
        /\ HoldsSend(queue, s, "VALUE") => LastIs(queue, s, owed[s])
        /\ ~HoldsSend(queue, s, "VALUE") =>
            /\ Held(carry, s) => carry.value = owed[s]
            /\ ~Held(carry, s) =>
                /\ InHand(s) => job.value = owed[s]
                /\ ~InHand(s) => Handled(s)

\* The TOGGLE jobs on their way for a slot.
Flying(s) ==
    (IF pc = "reconcile" THEN 0 ELSE One(job, s)) + One(carry, s) + CountToggles(queue, s)

Lossless ==
    /\ HistoryOK /\ Placed
    /\ \A s \in Slots: Way(s) /\ toggles[s] = Flying(s)

-----------------------------------------------------------------------------
\* A step at the end of the queue, as slot s sees it: nothing is owed any more, or the last
\* VALUE is in the queue, or all is as it was.
Kept(s) ==
    \/ owed'[s] = NoValue
    \/ HoldsSend(queue', s, "VALUE") /\ LastIs(queue', s, owed'[s])
    \/ /\ owed'[s] = owed[s]
       /\ HoldsSend(queue', s, "VALUE") <=> HoldsSend(queue, s, "VALUE")
       /\ HoldsSend(queue, s, "VALUE") /\ LastIs(queue, s, owed[s])
              => LastIs(queue', s, owed[s])

QueueStep ==
    /\ queue' \in Seq(Jobs)
    /\ owed' \in [Slots -> Int \cup {NoValue}] /\ toggles' \in [Slots -> Int]
    /\ \A s \in Slots:
        /\ Kept(s)
        /\ toggles'[s] = toggles[s] + CountToggles(queue', s) - CountToggles(queue, s)

\* enqueue_job is one.
LEMMA Enqueued ==
    ASSUME Inv, HistoryOK, NEW j \in Jobs, Enqueue(j)
    PROVE  /\ QueueStep
           /\ \A s \in Slots: IsSend(j, s, "VALUE")
                  => owed'[s] = NoValue \/ HoldsSend(queue', s, "VALUE")
<1>. DEFINE q == AfterEnqueue(queue, j)
<1>1. queue \in Seq(Jobs) /\ Len(queue) <= QueueLen /\ j.value \in Int
  BY DEF Inv, TypeOK, Jobs
<1>2. queue' = q /\ q \in Seq(Jobs)
  BY <1>1, AfterEnqueueType DEF Enqueue
<1>3. owed' = [s \in Slots |->
                IF IsSend(j, s, "VALUE")
                THEN IF Accepted(queue, j) THEN j.value ELSE NoValue
                ELSE IF HoldsSend(queue, s, "VALUE") /\ ~HoldsSend(q, s, "VALUE")
                THEN NoValue ELSE owed[s]]
  BY DEF Enqueue
<1>4. toggles' = [s \in Slots |->
                toggles[s] + CountToggles(q, s) - CountToggles(queue, s)]
  BY DEF Enqueue
<1>5. ASSUME NEW s \in Slots
      PROVE  /\ IsSend(j, s, "VALUE") /\ Accepted(queue, j)
                    => HoldsSend(q, s, "VALUE") /\ LastIs(q, s, j.value)
             /\ ~IsSend(j, s, "VALUE") /\ HoldsSend(q, s, "VALUE")
                    => /\ HoldsSend(queue, s, "VALUE")
                       /\ LastIs(queue, s, owed[s]) => LastIs(q, s, owed[s])
             /\ CountToggles(q, s) \in Nat /\ CountToggles(queue, s) \in Nat
  BY <1>1, <1>2, AfterEnqueueSeen, QueueToggles
<1>. HIDE DEF q
<1>6. owed' \in [Slots -> Int \cup {NoValue}] /\ toggles' \in [Slots -> Int]
  BY <1>1, <1>3, <1>4, <1>5 DEF HistoryOK
<1>7. \A s \in Slots:
        toggles'[s] = toggles[s] + CountToggles(queue', s) - CountToggles(queue, s)
  BY <1>2, <1>4
<1>8. ASSUME NEW s \in Slots
      PROVE  /\ Kept(s)
             /\ IsSend(j, s, "VALUE") => owed'[s] = NoValue \/ HoldsSend(queue', s, "VALUE")
  <2>1. CASE IsSend(j, s, "VALUE") /\ Accepted(queue, j)
    BY <1>2, <1>3, <1>5, <2>1 DEF Kept
  <2>2. CASE IsSend(j, s, "VALUE") /\ ~Accepted(queue, j)
    BY <1>3, <2>2 DEF Kept
  <2>3. CASE ~IsSend(j, s, "VALUE")
    <3>1. CASE HoldsSend(queue, s, "VALUE") /\ ~HoldsSend(q, s, "VALUE")
      BY <1>3, <2>3, <3>1 DEF Kept
    <3>2. CASE ~(HoldsSend(queue, s, "VALUE") /\ ~HoldsSend(q, s, "VALUE"))
      <4>1. owed'[s] = owed[s]
        BY <1>3, <2>3, <3>2
      <4>2. HoldsSend(q, s, "VALUE") <=> HoldsSend(queue, s, "VALUE")
        BY <1>5, <2>3, <3>2
      <4>. QED BY <1>2, <1>5, <2>3, <4>1, <4>2 DEF Kept
    <3>. QED BY <2>3, <3>1, <3>2
  <2>. QED BY <2>1, <2>2, <2>3
<1>. QED BY <1>2, <1>6, <1>7, <1>8 DEF QueueStep

\* So is a step that leaves the queue alone, or writes off what is owed to a slot.
LEMMA NotEnqueued ==
    ASSUME Inv, HistoryOK, UNCHANGED <<queue, toggles>>,
           owed' \in [Slots -> Int \cup {NoValue}],
           \A s \in Slots: owed'[s] = NoValue \/ owed'[s] = owed[s]
    PROVE  QueueStep
<1>1. queue \in Seq(Jobs)
  BY DEF Inv, TypeOK
<1>2. \A s \in Slots: CountToggles(queue, s) \in Nat /\ toggles[s] \in Int
  BY <1>1, QueueToggles DEF HistoryOK
<1>3. \A s \in Slots: toggles'[s] = toggles[s] + CountToggles(queue', s) - CountToggles(queue, s)
  BY <1>2
<1>4. \A s \in Slots: Kept(s)
  BY DEF Kept
<1>. QED BY <1>1, <1>3, <1>4 DEF QueueStep, HistoryOK

\* So is the reconciliation of a slot, after which a slot that takes a VALUE has one in the
\* queue, or is owed none.
LEMMA Reconciled ==
    ASSUME Inv, HistoryOK, NEW s \in Slots, ReconcileSlot(s)
    PROVE  /\ QueueStep
           /\ Loaded(s) /\ bound[s].profile
                  => owed'[s] = NoValue \/ HoldsSend(queue', s, "VALUE")
<1>1. CASE Loaded(s) /\ bound[s].profile
  <2>. DEFINE j == SendJob(s, "VALUE", ctx[s].value, ctx[s].state)
  <2>1. ctx[s].value \in Int /\ ctx[s].state \in BOOLEAN
    BY DEF Inv, TypeOK
  <2>2. j \in Jobs
    BY <2>1, SendJobType DEF Kinds
  <2>3. IsSend(j, s, "VALUE")
    BY DEF IsSend, SendJob
  <2>4. Enqueue(j)
    BY <1>1 DEF ReconcileSlot
  <2>. HIDE DEF j
  <2>. QED BY <2>2, <2>3, <2>4, Enqueued
<1>2. CASE ~(Loaded(s) /\ bound[s].profile)
  <2>1. UNCHANGED <<queue, owed, toggles>>
    BY <1>2 DEF ReconcileSlot
  <2>. QED BY <1>2, <2>1, NotEnqueued DEF HistoryOK
<1>. QED BY <1>1, <1>2

-----------------------------------------------------------------------------
\* What every step does that is not one of sd_cmd.
Elsewhere ==
    /\ QueueStep
    /\ UNCHANGED <<pc, job, carry, wire>>
    /\ sent' \in [Slots -> Int \cup {NoValue}]
    /\ \A s \in Slots:
        \/ owed'[s] = NoValue
        \/ /\ sent'[s] = sent[s] /\ bound'[s] = bound[s]
           /\ tracker[s].offline => tracker'[s].offline

\* It leaves every VALUE and every TOGGLE where it was.
LEMMA ElsewhereKeeps == ASSUME Inv, Lossless, Elsewhere PROVE Lossless'
<1>1. HistoryOK'
  BY DEF Elsewhere, QueueStep, HistoryOK
<1>2. Placed'
  BY DEF Elsewhere, Lossless, Placed
<1>3. ASSUME NEW s \in Slots PROVE Way(s)'
  <2>1. Way(s) /\ Kept(s)
    BY DEF Lossless, Elsewhere, QueueStep
  <2>2. CASE owed'[s] = NoValue
    BY <2>2 DEF Way
  <2>3. CASE HoldsSend(queue', s, "VALUE") /\ LastIs(queue', s, owed'[s])
    BY <2>3 DEF Way
  <2>4. CASE /\ owed'[s] = owed[s] /\ owed'[s] # NoValue
             /\ HoldsSend(queue', s, "VALUE") <=> HoldsSend(queue, s, "VALUE")
             /\ HoldsSend(queue, s, "VALUE") /\ LastIs(queue, s, owed[s])
                    => LastIs(queue', s, owed[s])
    <3>1. UNCHANGED <<pc, job, carry, wire>> /\ sent'[s] = sent[s] /\ bound'[s] = bound[s]
          /\ (tracker[s].offline => tracker'[s].offline)
      BY <2>4 DEF Elsewhere
    <3>2. Handled(s) => Handled(s)'
      BY <2>4, <3>1 DEF Handled, Excused, Loaded, Sending
    <3>3. InHand(s)' <=> InHand(s)
      BY <3>1 DEF InHand, Held
    <3>. QED BY <2>1, <2>4, <3>1, <3>2, <3>3 DEF Way, Held
  <2>. QED BY <2>1, <2>2, <2>3, <2>4 DEF Kept
<1>4. ASSUME NEW s \in Slots PROVE toggles'[s] = Flying(s)'
  <2>1. toggles[s] = Flying(s) /\ UNCHANGED <<pc, job, carry>>
        /\ toggles'[s] = toggles[s] + CountToggles(queue', s) - CountToggles(queue, s)
    BY DEF Lossless, Elsewhere, QueueStep
  <2>2. CountToggles(queue', s) \in Nat /\ CountToggles(queue, s) \in Nat
    BY QueueToggles DEF Elsewhere, QueueStep, Inv, TypeOK
  <2>3. One(job, s) \in {0, 1} /\ One(carry, s) \in {0, 1}
    BY DEF One
  <2>. QED BY <2>1, <2>2, <2>3 DEF Flying
<1>. QED BY <1>1, <1>2, <1>3, <1>4 DEF Lossless

\* Inputs, commands, timers, the clock, the link and its reconciliation.
LEMMA ElsewhereStep ==
    ASSUME Inv, HistoryOK,
           \/ SdInput
           \/ \E c \in CliTasks: Cli(c) \/ CliEnqueue(c)
           \/ \E s \in Slots: TimerExpires(PlainJob("TIMEOUT", s))
           \/ TimerExpires(PlainJob("NVS_SAVE", 1))
           \/ Tick \/ WifiDown \/ WifiUp \/ WifiReconcile
           \/ UNCHANGED vars
    PROVE  Elsewhere
<1>. SlotsOK /\ QueueOK /\ TrackersOK /\ CmdOK /\ CliOK
  BY Parts
<1>a. ASSUME QueueStep, UNCHANGED <<pc, job, carry, wire, sent, bound>>,
             \A s \in Slots: tracker[s].offline => tracker'[s].offline
      PROVE  Elsewhere
  BY <1>a DEF Elsewhere, HistoryOK
<1>b. ASSUME UNCHANGED <<queue, owed, toggles>> PROVE QueueStep
  BY <1>b, NotEnqueued DEF HistoryOK
<1>1. ASSUME NEW s \in Slots, TakesInput(s), NEW i \in Inputs(Detents),
             NEW factor \in Factors(Priv(bound[s])), Input(s, i, factor)
      PROVE  Elsewhere
  <2>. DEFINE r == OnInput(bound[s].drv, Priv(bound[s]), ctx[s], i, factor)
              j == SendJob(s, r.kind, r.value, r.state)
  <2>1. Loaded(s)
    BY <1>1 DEF TakesInput
  <2>2. r.value \in Int /\ r.state \in BOOLEAN /\ (r.kind # "NONE" => r.kind \in Kinds)
    BY <2>1, InputValue
  <2>3. r.kind # "NONE" => j \in Jobs
    BY <2>2, SendJobType
  <2>4. /\ r.kind = "NONE" => UNCHANGED <<queue, owed, toggles>>
        /\ r.kind # "NONE" => Enqueue(j)
        /\ UNCHANGED <<bound, tracker, cmdVars, sent>>
    BY <1>1 DEF Input
  <2>. HIDE DEF r, j
  <2>5. QueueStep
    BY <1>b, <2>3, <2>4, Enqueued
  <2>. QED BY <1>a, <2>4, <2>5 DEF cmdVars
<1>2. ASSUME NEW dir \in {-1, 1}, SlotStep(dir) PROVE Elsewhere
  BY <1>a, <1>b, <1>2 DEF SlotStep, cmdVars, history
<1>3. ASSUME NEW c \in CliTasks, NEW s \in Slots, NEW v \in SetTo, SetValue(c, s, v)
      PROVE  Elsewhere
  BY <1>a, <1>b, <1>3 DEF SetValue, cmdVars, history
<1>4. ASSUME NEW c \in CliTasks, NEW s \in Slots, Toggle(c, s) PROVE Elsewhere
  BY <1>a, <1>b, <1>4 DEF Toggle, cmdVars, history
<1>5. ASSUME NEW c \in CliTasks, CliEnqueue(c) PROVE Elsewhere
  <2>1. cli[c] \in Jobs
    BY <1>5 DEF CliEnqueue, CliOK
  <2>2. QueueStep
    BY <1>5, <2>1, Enqueued DEF CliEnqueue
  <2>. QED BY <1>a, <1>5, <2>2 DEF CliEnqueue, cmdVars, slotVars
<1>6. ASSUME NEW c \in CliTasks, NEW s \in Slots, RunTest(c, s) PROVE Elsewhere
  <2>1. PlainJob("TEST", s) \in Jobs
    BY PlainJobType DEF JobTypes
  <2>2. QueueStep
    BY <1>6, <2>1, Enqueued DEF RunTest
  <2>. QED BY <1>a, <1>6, <2>2 DEF RunTest, cmdVars, slotVars
<1>7. ASSUME NEW s \in Slots, NEW b, NEW v, NEW on, LoadSlot(s, b, v, on),
             UNCHANGED <<queue, tracker, cmdVars, toggles>>
      PROVE  Elsewhere
  <2>1. /\ bound' = [bound EXCEPT ![s] = b]
        /\ owed' = [owed EXCEPT ![s] = NoValue] /\ sent' = [sent EXCEPT ![s] = NoValue]
    BY <1>7 DEF LoadSlot
  <2>2. /\ owed' \in [Slots -> Int \cup {NoValue}] /\ sent' \in [Slots -> Int \cup {NoValue}]
        /\ owed'[s] = NoValue
        /\ \A t \in Slots: t # s => /\ owed'[t] = owed[t] /\ sent'[t] = sent[t]
                                    /\ bound'[t] = bound[t]
    BY <2>1 DEF HistoryOK, SlotsOK
  <2>3. QueueStep
    BY <1>7, <2>2, NotEnqueued
  <2>. QED BY <1>7, <2>2, <2>3 DEF Elsewhere, cmdVars
<1>8. ASSUME NEW type \in JobTypes, NEW s \in Slots, TimerExpires(PlainJob(type, s))
      PROVE  Elsewhere
  <2>1. QueueStep
    BY <1>8, PlainJobType, Enqueued DEF TimerExpires
  <2>. QED BY <1>a, <1>8, <2>1 DEF TimerExpires, cmdVars, slotVars
<1>9. ASSUME Tick \/ WifiDown \/ WifiUp PROVE Elsewhere
  <2>1. UNCHANGED <<queue, owed, toggles, pc, job, carry, wire, sent, bound>>
    BY <1>9 DEF Tick, WifiDown, WifiUp, slotVars, cmdVars, history
  <2>2. ASSUME NEW s \in Slots PROVE tracker[s].offline => tracker'[s].offline
    <3>1. tracker[s] \in Trackers
      BY DEF TrackersOK
    <3>2. \/ tracker'[s] = [tracker[s] EXCEPT !.age = Older(@)]
          \/ tracker'[s] = WifiDownTracker(tracker[s])
          \/ tracker'[s] = WifiUpTracker(tracker[s], uptime)
      BY <1>9 DEF Tick, WifiDown, WifiUp
    <3>. QED BY <3>1, <3>2 DEF Trackers, WifiDownTracker, WifiUpTracker
  <2>. QED BY <1>a, <1>b, <2>1, <2>2
<1>10. ASSUME WifiReconcile PROVE Elsewhere
  <2>1. QueueStep
    BY <1>10, Reconciled DEF WifiReconcile
  <2>. QED BY <1>a, <1>10, <2>1 DEF WifiReconcile, cmdVars, slotVars
<1>11. ASSUME UNCHANGED vars PROVE Elsewhere
  BY <1>a, <1>b, <1>11 DEF vars, slotVars, cmdVars, history
<1>12. ASSUME NEW c \in CliTasks, Cli(c) PROVE Elsewhere
  BY <1>3, <1>4, <1>6, <1>7, <1>12 DEF Cli, StoreAndReload, ClearSlot
<1>13. 1 \in Slots /\ "NVS_SAVE" \in JobTypes /\ "TIMEOUT" \in JobTypes
  BY EngineAssumption DEF Slots, JobTypes
<1>. QED BY <1>1, <1>2, <1>5, <1>8, <1>9, <1>10, <1>11, <1>12, <1>13 DEF SdInput

-----------------------------------------------------------------------------
(* The steps of sd_cmd.                                                    *)

\* What sd_cmd takes from the queue becomes its job, or replaces it, or is carried.
LEMMA TakeKeeps ==
    ASSUME Inv, Lossless, Receive \/ Drain
    PROVE  Lossless'
<1>. DEFINE h == Head(queue)
            t == Tail(queue)
<1>1. /\ queue \in Seq(Jobs) /\ queue # <<>> /\ h \in Jobs /\ h # NoJob /\ t \in Seq(Jobs)
      /\ queue' = t /\ UNCHANGED <<owed, sent, toggles, bound, tracker, wire>>
  BY NoJobAssumption DEF Inv, TypeOK, Receive, Drain, slotVars, history
<1>2. HistoryOK'
  BY <1>1 DEF Lossless, HistoryOK
<1>3. ASSUME NEW s \in Slots
      PROVE  /\ HoldsSend(queue, s, "VALUE")
                    <=> HoldsSend(t, s, "VALUE") \/ IsSend(h, s, "VALUE")
             /\ HoldsSend(t, s, "VALUE") /\ LastIs(queue, s, owed[s])
                    => LastIs(t, s, owed[s])
             /\ ~HoldsSend(t, s, "VALUE") /\ LastIs(queue, s, owed[s])
                    => IsSend(h, s, "VALUE") /\ h.value = owed[s]
             /\ CountToggles(queue, s) = One(h, s) + CountToggles(t, s)
             /\ CountToggles(t, s) \in Nat
             /\ Way(s) /\ toggles[s] = Flying(s)
  BY <1>1, TailSeen, QueueToggles DEF Lossless
<1>4. pc \in {"receive", "drain"} /\ carry = NoJob /\ wire = NoJob /\ Placed
  <2>1. pc \in {"receive", "drain"} /\ Placed
    BY DEF Receive, Drain, Lossless
  <2>2. pc = "drain" => wire = NoJob
    BY <2>1 DEF Placed
  <2>. QED BY <2>1, <2>2 DEF Placed
<1>5. \A s \in Slots: Handled(s) => Handled(s)'
  BY <1>1, <1>4 DEF Handled, Excused, Loaded
<1>6. \A j, s: One(j, s) \in {0, 1}
  BY DEF One
<1>. HIDE DEF h, t
<1>7. CASE Receive
  <2>1. pc = "receive" /\ job = NoJob /\ job' = h /\ carry' = NoJob /\ pc' = PcFor(h)
    BY <1>4, <1>7 DEF Receive, Placed, h
  <2>2. /\ pc' \in {"drain", "gate", "capture", "other"}
        /\ pc' = "drain" <=> h.type = "SEND" /\ h.kind = "VALUE"
        /\ pc' = "capture" => h.type = "TEST"
    BY <1>1, <2>1 DEF PcFor
  <2>3. Placed'
    BY <1>1, <1>4, <2>1, <2>2 DEF Placed
  <2>4. ASSUME NEW s \in Slots PROVE Way(s)'
    <3>1. InHand(s)' <=> IsSend(h, s, "VALUE")
      BY <1>1, <2>1, <2>2 DEF InHand, Held, IsSend
    <3>2. ~Held(carry, s) /\ ~Held(carry', s) /\ ~InHand(s)
      BY <1>4, <2>1 DEF Held, InHand
    <3>. QED BY <1>1, <1>3, <1>5, <2>1, <3>1, <3>2 DEF Way, Held
  <2>5. ASSUME NEW s \in Slots PROVE toggles'[s] = Flying(s)'
    <3>1. One(job, s) = 0
      BY <2>1 DEF One
    <3>. QED BY <1>1, <1>3, <1>4, <1>6, <2>1, <2>2, <3>1 DEF Flying
  <2>. QED BY <1>2, <2>3, <2>4, <2>5 DEF Lossless
<1>8. CASE Drain /\ Merges(job, h)
  <2>1. /\ pc = "drain" /\ pc' = "drain" /\ job' = h /\ carry' = NoJob
        /\ h.type = "SEND" /\ h.kind = "VALUE" /\ h.slot = job.slot
        /\ job.type = "SEND" /\ job.kind = "VALUE" /\ job # NoJob
    BY <1>4, <1>8 DEF Drain, Placed, Merges, h, Inv, HasJob
  <2>3. Placed'
    BY <1>1, <1>4, <2>1 DEF Placed
  <2>4. ASSUME NEW s \in Slots PROVE Way(s)'
    <3>1. /\ InHand(s)' <=> IsSend(h, s, "VALUE")
          /\ InHand(s) <=> IsSend(h, s, "VALUE")
      BY <1>1, <2>1 DEF InHand, Held, IsSend
    <3>2. ~Held(carry, s) /\ ~Held(carry', s)
      BY <1>4, <2>1 DEF Held
    <3>. QED BY <1>1, <1>3, <1>5, <2>1, <3>1, <3>2 DEF Way, Held
  <2>5. ASSUME NEW s \in Slots PROVE toggles'[s] = Flying(s)'
    <3>1. One(job, s) = 0 /\ One(h, s) = 0
      BY <2>1 DEF One, IsSend
    <3>. QED BY <1>1, <1>3, <1>4, <1>6, <2>1, <3>1 DEF Flying
  <2>. QED BY <1>2, <2>3, <2>4, <2>5 DEF Lossless
<1>9. CASE Drain /\ ~Merges(job, h)
  <2>1. /\ pc = "drain" /\ pc' = "gate" /\ job' = job /\ carry' = h
        /\ job.type = "SEND" /\ job.kind = "VALUE" /\ job # NoJob
    BY <1>4, <1>9 DEF Drain, Placed, h, Inv, HasJob
  <2>3. Placed'
    BY <1>1, <1>4, <2>1 DEF Placed
  <2>4. ASSUME NEW s \in Slots PROVE Way(s)'
    <3>1. InHand(s)' <=> InHand(s)
      BY <2>1 DEF InHand, Held
    <3>2. ~Held(carry, s) /\ (Held(carry', s) <=> IsSend(h, s, "VALUE"))
      BY <1>1, <1>4, <2>1 DEF Held
    <3>. QED BY <1>1, <1>3, <1>5, <2>1, <3>1, <3>2 DEF Way, Held
  <2>5. ASSUME NEW s \in Slots PROVE toggles'[s] = Flying(s)'
    <3>1. One(job, s) = 0 /\ One(NoJob, s) = 0
      BY <2>1 DEF One, IsSend
    <3>. QED BY <1>1, <1>3, <1>4, <1>6, <2>1, <3>1 DEF Flying
  <2>. QED BY <1>2, <2>3, <2>4, <2>5 DEF Lossless
<1>. QED BY <1>7, <1>8, <1>9

\* A TOGGLE that was executed or held back is off the books.
LEMMA Accounted ==
    ASSUME HistoryOK, job \in Jobs, Account
    PROVE  /\ toggles' \in [Slots -> Int]
           /\ \A s \in Slots: toggles'[s] = toggles[s] - One(job, s)
<1>1. job # NoJob /\ job.slot \in Slots
  BY NoJobAssumption DEF Jobs
<1>2. CASE job.type = "SEND" /\ job.kind = "TOGGLE"
  <2>1. toggles' = [toggles EXCEPT ![job.slot] = @ - 1]
    BY <1>2 DEF Account
  <2>2. \A s \in Slots: One(job, s) = IF s = job.slot THEN 1 ELSE 0
    BY <1>1, <1>2 DEF One, IsSend
  <2>. QED BY <1>1, <2>1, <2>2 DEF HistoryOK
<1>3. CASE ~(job.type = "SEND" /\ job.kind = "TOGGLE")
  <2>1. toggles' = toggles
    BY <1>3 DEF Account
  <2>2. \A s \in Slots: One(job, s) = 0
    BY <1>3 DEF One, IsSend
  <2>. QED BY <2>1, <2>2 DEF HistoryOK
<1>. QED BY <1>2, <1>3

\* The end of a job: the carried one is next, and the VALUE that was in hand, or the slot
\* that was to be reconciled, is settled.
LEMMA EndKeeps ==
    ASSUME Inv, Lossless, EndJob, pc \notin {"receive", "drain"},
           UNCHANGED <<sent, bound>>, HistoryOK', queue' \in Seq(Jobs),
           \A s \in Slots: Kept(s),
           \A s \in Slots: toggles'[s] = (IF pc = "reconcile" THEN 0 ELSE -One(job, s))
               + toggles[s] + CountToggles(queue', s) - CountToggles(queue, s),
           \A s \in Slots: Excused(s) => Excused(s)' \/ (pc = "reconcile" /\ Sending.slot = s),
           \A s \in Slots: InHand(s) \/ (pc = "reconcile" /\ Sending.slot = s)
               => \/ owed'[s] = NoValue \/ HoldsSend(queue', s, "VALUE")
                  \/ Excused(s)'
    PROVE  Lossless'
<1>1. job' = carry /\ carry' = NoJob /\ wire' = NoJob /\ pc' = PcFor(carry)
      /\ carry \in Jobs \cup {NoJob} /\ Placed
  BY DEF EndJob, Inv, TypeOK, Lossless
<1>2. /\ pc' # "reconcile" /\ (carry = NoJob <=> pc' = "receive")
      /\ pc' = "drain" <=> carry # NoJob /\ carry.type = "SEND" /\ carry.kind = "VALUE"
      /\ pc' = "capture" => carry.type = "TEST"
  BY <1>1 DEF PcFor
<1>3. Placed'
  BY <1>1, <1>2 DEF Placed
<1>4. ASSUME NEW s \in Slots PROVE Way(s)'
  <2>1. Way(s) /\ Kept(s)
    BY DEF Lossless
  <2>2. ~Held(carry', s) /\ (InHand(s)' <=> Held(carry, s)) /\ job' = carry
    BY <1>1, <1>2 DEF Held, InHand, IsSend
  <2>3. CASE owed'[s] = NoValue
    BY <2>3 DEF Way
  <2>4. CASE HoldsSend(queue', s, "VALUE") /\ LastIs(queue', s, owed'[s])
    BY <2>4 DEF Way
  <2>5. CASE /\ owed'[s] = owed[s] /\ owed'[s] # NoValue
             /\ HoldsSend(queue', s, "VALUE") <=> HoldsSend(queue, s, "VALUE")
             /\ HoldsSend(queue, s, "VALUE") /\ LastIs(queue, s, owed[s])
                    => LastIs(queue', s, owed[s])
    <3>1. CASE HoldsSend(queue, s, "VALUE")
      BY <2>1, <2>5, <3>1 DEF Way
    <3>2. CASE ~HoldsSend(queue, s, "VALUE") /\ Held(carry, s)
      BY <2>1, <2>2, <2>5, <3>2 DEF Way
    <3>3. CASE ~HoldsSend(queue, s, "VALUE") /\ ~Held(carry, s)
      <4>1. InHand(s) \/ Handled(s)
        BY <2>1, <2>5, <3>3 DEF Way
      <4>2. CASE InHand(s) \/ (pc = "reconcile" /\ Sending.slot = s)
        <5>1. Excused(s)'
          BY <2>5, <3>3, <4>2
        <5>. QED BY <2>2, <2>5, <3>3, <5>1 DEF Way, Handled
      <4>3. CASE ~InHand(s) /\ ~(pc = "reconcile" /\ Sending.slot = s)
        <5>1. sent[s] = owed[s] \/ Excused(s)
          BY <4>1, <4>3 DEF Handled
        <5>2. sent'[s] = owed'[s] \/ Excused(s)'
          BY <2>5, <4>3, <5>1
        <5>. QED BY <2>2, <2>5, <3>3, <5>2 DEF Way, Handled
      <4>. QED BY <4>2, <4>3
    <3>. QED BY <3>1, <3>2, <3>3
  <2>. QED BY <2>1, <2>3, <2>4, <2>5 DEF Kept
<1>5. ASSUME NEW s \in Slots PROVE toggles'[s] = Flying(s)'
  <2>1. /\ toggles[s] = Flying(s)
        /\ CountToggles(queue', s) \in Nat /\ CountToggles(queue, s) \in Nat
        /\ toggles'[s] = (IF pc = "reconcile" THEN 0 ELSE -One(job, s))
               + toggles[s] + CountToggles(queue', s) - CountToggles(queue, s)
    BY QueueToggles DEF Lossless, Inv, TypeOK
  <2>2. One(job, s) \in {0, 1} /\ One(carry, s) \in {0, 1} /\ One(carry', s) = 0
    BY <1>1 DEF One
  <2>. QED BY <1>1, <1>2, <2>1, <2>2 DEF Flying
<1>. QED BY <1>3, <1>4, <1>5 DEF Lossless

\* The end of a job that leaves the queue alone.
LEMMA FinishKeeps ==
    ASSUME Inv, Lossless, EndJob, Account, pc \notin {"receive", "drain", "reconcile"},
           UNCHANGED <<sent, bound, queue, owed>>,
           \A s \in Slots: Excused(s) => Excused(s)',
           \A s \in Slots: InHand(s) => Excused(s)'
    PROVE  Lossless'
<1>1. job \in Jobs /\ HistoryOK /\ queue \in Seq(Jobs)
  BY DEF Inv, TypeOK, HasJob, Lossless
<1>2. toggles' \in [Slots -> Int] /\ \A s \in Slots: toggles'[s] = toggles[s] - One(job, s)
  BY <1>1, Accounted
<1>3. HistoryOK'
  BY <1>1, <1>2 DEF HistoryOK
<1>4. \A s \in Slots: Kept(s)
  BY DEF Kept
<1>5. ASSUME NEW s \in Slots
      PROVE  toggles'[s] = (IF pc = "reconcile" THEN 0 ELSE -One(job, s))
               + toggles[s] + CountToggles(queue', s) - CountToggles(queue, s)
  <2>1. /\ One(job, s) \in {0, 1} /\ toggles[s] \in Int /\ CountToggles(queue, s) \in Nat
        /\ toggles'[s] = toggles[s] - One(job, s)
    BY <1>1, <1>2, QueueToggles DEF One, HistoryOK
  <2>. QED BY <2>1
<1>. QED BY <1>1, <1>3, <1>4, <1>5, EndKeeps

\* The job in hand is the one that is sent, unless a test made another.
LEMMA InHandIsSent ==
    ASSUME Placed, NEW s \in Slots, InHand(s)
    PROVE  Sending = job /\ job.slot = s /\ job.kind = "VALUE" /\ job.type = "SEND"
BY DEF Placed, InHand, Held, IsSend, Sending

\* The steps of sd_cmd that keep its job.
LEMMA StayKeeps ==
    ASSUME Inv, Lossless,
           \/ DrainTimeout
           \/ Capture /\ Loaded(job.slot)
           \/ Gate /\ ShouldSend(tracker[Sending.slot])
           \/ Materialize /\ Loaded(Sending.slot) /\ Sending.kind \in bound[Sending.slot].cmds
    PROVE  Lossless'
<1>0. /\ UNCHANGED <<queue, job, carry, owed, toggles, bound>> /\ HistoryOK /\ Placed
      /\ pc # "reconcile" /\ pc' # "reconcile" /\ job \in Jobs /\ job # NoJob
  BY NoJobAssumption
     DEF DrainTimeout, Capture, Gate, Materialize, slotVars, history, Lossless, Inv, TypeOK, HasJob
<1>1. \A s \in Slots: Flying(s)' = Flying(s) /\ toggles'[s] = toggles[s]
  BY <1>0 DEF Flying, One
<1>2. \A s \in Slots: Way(s) /\ toggles[s] = Flying(s)
  BY DEF Lossless
<1>3. ASSUME UNCHANGED sent, Placed', \A s \in Slots: tracker[s].offline => tracker'[s].offline,
             \A s \in Slots: InHand(s)' <=> InHand(s)
      PROVE  Lossless'
  <2>1. \A s \in Slots: Handled(s) => Handled(s)'
    BY <1>0, <1>3 DEF Handled, Excused, Loaded
  <2>2. \A s \in Slots: Way(s)'
    BY <1>0, <1>2, <1>3, <2>1 DEF Way, Held
  <2>3. HistoryOK'
    BY <1>0, <1>3 DEF HistoryOK
  <2>. QED BY <1>1, <1>2, <1>3, <2>2, <2>3 DEF Lossless
<1>4. CASE DrainTimeout
  <2>1. pc = "drain" /\ pc' = "gate" /\ UNCHANGED <<sent, tracker, wire>>
    BY <1>4 DEF DrainTimeout, history
  <2>2. Placed'
    BY <1>0, <2>1 DEF Placed
  <2>. QED BY <1>0, <1>3, <2>1, <2>2 DEF InHand, Held
<1>5. CASE Capture /\ Loaded(job.slot)
  <2>1. pc = "capture" /\ pc' = "gate" /\ UNCHANGED <<sent, tracker>>
    BY <1>5 DEF Capture
  <2>2. job.type = "TEST"
    BY <1>0, <2>1 DEF Placed
  <2>3. Placed'
    BY <1>0, <2>1, <2>2 DEF Placed
  <2>4. \A s \in Slots: ~InHand(s) /\ ~InHand(s)'
    BY <1>0, <2>2 DEF InHand, Held, IsSend
  <2>. QED BY <1>3, <2>1, <2>3, <2>4
<1>6. CASE Gate /\ ShouldSend(tracker[Sending.slot])
  <2>1. /\ pc = "gate" /\ pc' = "materialize" /\ UNCHANGED <<sent, wire>>
        /\ tracker' = [tracker EXCEPT ![Sending.slot] = AfterShouldSend(@)]
    BY <1>6 DEF Gate
  <2>2. Placed'
    BY <1>0, <2>1 DEF Placed
  <2>3. ASSUME NEW s \in Slots PROVE tracker[s].offline => tracker'[s].offline
    <3>1. tracker \in [Slots -> Trackers]
      BY DEF Inv, TypeOK
    <3>. QED BY <2>1, <3>1 DEF AfterShouldSend, Trackers
  <2>. QED BY <1>0, <1>3, <2>1, <2>2, <2>3 DEF InHand, Held
<1>7. CASE Materialize /\ Loaded(Sending.slot) /\ Sending.kind \in bound[Sending.slot].cmds
  <2>1. /\ pc = "materialize" /\ pc' = "transport" /\ UNCHANGED <<tracker, wire>>
        /\ sent' = IF job.type = "SEND" /\ Sending.kind = "VALUE"
                   THEN [sent EXCEPT ![Sending.slot] = Sending.value] ELSE sent
    BY <1>7 DEF Materialize
  <2>2. Placed'
    BY <1>0, <2>1 DEF Placed
  <2>3. sent \in [Slots -> Int \cup {NoValue}]
    BY <1>0 DEF HistoryOK
  <2>4. \A s \in Slots: ~InHand(s)'
    BY <2>1 DEF InHand
  <2>5. CASE job.type = "SEND" /\ Sending.kind = "VALUE"
    <3>1. Sending = job
      BY <1>0, <2>5 DEF Placed, Sending
    <3>2. job.kind = "VALUE" /\ job.slot \in Slots /\ job.value \in Int
      BY <1>0, <2>5, <3>1 DEF Jobs
    <3>3. sent' = [sent EXCEPT ![job.slot] = job.value]
      BY <2>1, <2>5, <3>1
    <3>4. HistoryOK'
      BY <1>0, <2>3, <3>2, <3>3 DEF HistoryOK
    <3>5. ASSUME NEW s \in Slots PROVE Way(s)'
      <4>1. CASE s = job.slot
        <5>1. InHand(s) /\ sent'[s] = job.value
          BY <1>0, <2>1, <2>3, <2>5, <3>2, <3>3, <4>1 DEF InHand, Held, IsSend
        <5>2. job.value = owed'[s] => Handled(s)'
          BY <5>1 DEF Handled
        <5>. QED BY <1>0, <1>2, <2>4, <5>1, <5>2 DEF Way, Held
      <4>2. CASE s # job.slot
        <5>1. ~InHand(s)
          BY <4>2 DEF InHand, Held, IsSend
        <5>2. sent'[s] = sent[s]
          BY <2>3, <3>3, <4>2
        <5>3. Handled(s) => Handled(s)'
          BY <1>0, <2>1, <5>2 DEF Handled, Excused, Loaded
        <5>. QED BY <1>0, <1>2, <2>4, <5>1, <5>3 DEF Way, Held
      <4>. QED BY <4>1, <4>2
    <3>. QED BY <1>1, <1>2, <2>2, <3>4, <3>5 DEF Lossless
  <2>6. CASE ~(job.type = "SEND" /\ Sending.kind = "VALUE")
    <3>1. UNCHANGED sent
      BY <2>1, <2>6
    <3>2. \A s \in Slots: ~InHand(s)
      BY <1>0, <2>6, InHandIsSent
    <3>. QED BY <1>3, <2>1, <2>2, <2>4, <3>1, <3>2
  <2>. QED BY <2>5, <2>6
<1>. QED BY <1>4, <1>5, <1>6, <1>7

\* The steps of sd_cmd that end a job without a send.
LEMMA DropKeeps ==
    ASSUME Inv, Lossless,
           \/ Other
           \/ Capture /\ ~Loaded(job.slot)
           \/ Gate /\ ~ShouldSend(tracker[Sending.slot])
           \/ Materialize /\ ~(Loaded(Sending.slot)
                               /\ Sending.kind \in bound[Sending.slot].cmds)
    PROVE  Lossless'
<1>1. /\ EndJob /\ Account /\ UNCHANGED <<queue, owed, sent, bound, tracker>>
      /\ pc \in {"other", "capture", "gate", "materialize"} /\ Placed
  BY DEF Other, Capture, Gate, Materialize, Finish, slotVars, Lossless
<1>2. ASSUME NEW s \in Slots PROVE Excused(s) => Excused(s)'
  BY <1>1 DEF Excused, Loaded
<1>3. ASSUME NEW s \in Slots, InHand(s) PROVE Excused(s)'
  <2>1. Sending = job /\ job.slot = s /\ job.kind = "VALUE"
    BY <1>1, <1>3, InHandIsSent
  <2>2. pc \in {"gate", "materialize"}
    BY <1>1, <1>3 DEF InHand
  <2>3. ShouldSend(tracker[s]) /\ Loaded(s) => "VALUE" \notin bound[s].cmds
    BY <2>1, <2>2 DEF Other, Capture, Gate, Materialize
  <2>4. ~ShouldSend(tracker[s]) => tracker[s].offline
    BY DEF ShouldSend
  <2>. QED BY <1>1, <2>3, <2>4 DEF Excused, Loaded
<1>. QED BY <1>1, <1>2, <1>3, FinishKeeps

\* A result of the transport: the target may be back, and its slot is reconciled.
LEMMA TransportKeeps ==
    ASSUME Inv, Lossless, NEW ok \in BOOLEAN, Transport(ok)
    PROVE  Lossless'
<1>. DEFINE k == Sending.slot
<1>1. /\ pc = "transport" /\ UNCHANGED <<queue, owed, sent, bound>> /\ Account
      /\ tracker' = [tracker EXCEPT ![k] = Feed(tracker[k], ok)]
      /\ tracker \in [Slots -> Trackers] /\ HistoryOK /\ Placed
      /\ job \in Jobs /\ job # NoJob /\ queue \in Seq(Jobs)
  BY NoJobAssumption DEF Transport, slotVars, Lossless, Inv, TypeOK, HasJob
<1>2. \A s \in Slots: ~InHand(s)
  BY <1>1 DEF InHand
<1>3. ASSUME NEW s \in Slots, tracker[s].offline, ~(s = k /\ Came(tracker[k], ok))
      PROVE  tracker'[s].offline
  <2>1. CASE s = k
    <3>1. ~ok
      BY <1>3, <2>1 DEF Came
    <3>2. tracker'[s] = FeedFailure(tracker[s])
      BY <1>1, <2>1, <3>1 DEF Feed
    <3>. QED BY <1>1, <1>3, <3>2 DEF FeedFailure, Trackers
  <2>2. CASE s # k
    BY <1>1, <1>3, <2>2
  <2>. QED BY <2>1, <2>2
<1>4. CASE ~Came(tracker[k], ok)
  <2>1. EndJob
    BY <1>4 DEF Transport
  <2>2. \A s \in Slots: Excused(s) => Excused(s)'
    BY <1>1, <1>3, <1>4 DEF Excused, Loaded
  <2>. QED BY <1>1, <1>2, <2>1, <2>2, FinishKeeps
<1>5. CASE Came(tracker[k], ok)
  <2>1. pc' = "reconcile" /\ UNCHANGED <<job, carry, wire>>
    BY <1>5 DEF Transport
  <2>2. toggles' \in [Slots -> Int] /\ \A s \in Slots: toggles'[s] = toggles[s] - One(job, s)
    BY <1>1, Accounted
  <2>3. HistoryOK' /\ Placed'
    BY <1>1, <2>1, <2>2 DEF HistoryOK, Placed
  <2>4. ASSUME NEW s \in Slots PROVE Way(s)'
    <3>1. Handled(s) => Handled(s)'
      BY <1>1, <1>3, <2>1 DEF Handled, Excused, Loaded, Sending
    <3>2. ~InHand(s)'
      BY <2>1 DEF InHand
    <3>3. Way(s)
      BY DEF Lossless
    <3>. QED BY <1>1, <1>2, <2>1, <3>1, <3>2, <3>3 DEF Way, Held
  <2>5. ASSUME NEW s \in Slots PROVE toggles'[s] = Flying(s)'
    <3>1. toggles[s] = Flying(s) /\ CountToggles(queue, s) \in Nat
      BY <1>1, QueueToggles DEF Lossless
    <3>2. One(job, s) \in {0, 1} /\ One(carry, s) \in {0, 1}
      BY DEF One
    <3>. QED BY <1>1, <2>1, <2>2, <3>1, <3>2 DEF Flying
  <2>. QED BY <2>3, <2>4, <2>5 DEF Lossless
<1>. QED BY <1>4, <1>5

\* offline_feed's reconciliation: the slot of the target that is back has its value in the
\* queue, or takes none.
LEMMA CameKeeps == ASSUME Inv, Lossless, CameReconcile PROVE Lossless'
<1>1. /\ pc = "reconcile" /\ EndJob /\ ReconcileSlot(Sending.slot) /\ UNCHANGED <<bound, tracker, sent>>
      /\ HistoryOK
  BY DEF CameReconcile, slotVars, Lossless
<1>2. PICK k \in Slots: k = Sending.slot
  BY <1>1 DEF Inv, TypeOK, HasJob, Sending, Jobs
<1>3. /\ QueueStep
      /\ Loaded(k) /\ bound[k].profile => owed'[k] = NoValue \/ HoldsSend(queue', k, "VALUE")
  BY <1>1, <1>2, Reconciled
<1>4. HistoryOK' /\ queue' \in Seq(Jobs) /\ \A s \in Slots: Kept(s)
  BY <1>1, <1>3 DEF QueueStep, HistoryOK
<1>5. \A s \in Slots: toggles'[s] = (IF pc = "reconcile" THEN 0 ELSE -One(job, s))
          + toggles[s] + CountToggles(queue', s) - CountToggles(queue, s)
  BY <1>1, <1>3 DEF QueueStep, HistoryOK
<1>6. \A s \in Slots: Excused(s) => Excused(s)'
  BY <1>1 DEF Excused, Loaded
<1>7. ASSUME NEW s \in Slots, InHand(s) \/ (pc = "reconcile" /\ Sending.slot = s)
      PROVE  owed'[s] = NoValue \/ HoldsSend(queue', s, "VALUE") \/ Excused(s)'
  <2>1. s = k
    <3>1. ~InHand(s)
      BY <1>1 DEF InHand
    <3>. QED BY <1>2, <1>7, <3>1
  <2>2. ~(Loaded(k) /\ bound[k].profile) => Excused(k)'
    BY <1>1 DEF Excused, Loaded
  <2>. QED BY <1>3, <2>1, <2>2
<1>. QED BY <1>1, <1>4, <1>5, <1>6, <1>7, EndKeeps

\* No step of the engine loses a VALUE or a TOGGLE.
LEMMA LosslessStep == Inv /\ Lossless /\ [Next]_vars => Lossless'
<1>. SUFFICES ASSUME Inv, Lossless, [Next]_vars PROVE Lossless'
  OBVIOUS
<1>1. HistoryOK
  BY DEF Lossless
<1>2. CASE SdCmd
  BY <1>2, TakeKeeps, StayKeeps, DropKeeps, TransportKeeps, CameKeeps DEF SdCmd
<1>3. CASE ~SdCmd
  <2>1. Elsewhere
    BY <1>1, <1>3, ElsewhereStep DEF Next
  <2>. QED BY <2>1, ElsewhereKeeps
<1>. QED BY <1>2, <1>3

\* At rest every VALUE that is owed was sent, and the books of the TOGGLEs are the jobs.
LEMMA LosslessMeans == Inv /\ Lossless => NothingLostOnTheWay
<1>. SUFFICES ASSUME Inv, Lossless PROVE NothingLostOnTheWay
  OBVIOUS
<1>1. Placed /\ queue \in Seq(Jobs) /\ job \in Jobs \cup {NoJob} /\ carry \in Jobs \cup {NoJob}
  BY DEF Lossless, Inv, TypeOK
<1>2. ASSUME NEW s \in Slots, Quiet, Loaded(s), bound[s].profile, "VALUE" \in bound[s].cmds,
             ~tracker[s].offline, owed[s] # NoValue
      PROVE  sent[s] = owed[s]
  <2>1. ~HoldsSend(queue, s, "VALUE")
    BY <1>2 DEF Quiet, HoldsSend
  <2>2. ~Held(carry, s) /\ ~InHand(s) /\ pc = "receive"
    BY <1>1, <1>2 DEF Quiet, Placed, Held, InHand
  <2>3. Handled(s)
    BY <1>2, <2>1, <2>2 DEF Lossless, Way
  <2>. QED BY <1>2, <2>2, <2>3 DEF Handled, Excused
<1>3. ASSUME NEW s \in Slots
      PROVE  toggles[s] = Cardinality({i \in 1..Len(InFlight):
                              InFlight[i] # NoJob /\ IsSend(InFlight[i], s, "TOGGLE")})
  <2>1. toggles[s] = Flying(s)
    BY DEF Lossless
  <2>2. /\ queue \in Seq(Jobs \cup {NoJob}) /\ <<carry>> \o queue \in Seq(Jobs \cup {NoJob})
        /\ CountToggles(queue, s) = Cardinality(Toggling(queue, s))
    <3>1. queue \in Seq(Jobs \cup {NoJob})
      BY <1>1, SeqMonotonic, Jobs \subseteq Jobs \cup {NoJob}
    <3>2. <<carry>> \in Seq(Jobs \cup {NoJob})
      BY <1>1
    <3>3. <<carry>> \o queue \in Seq(Jobs \cup {NoJob})
      BY <3>1, <3>2, ConcatProperties
    <3>. QED BY <1>1, <3>1, <3>3, QueueToggles
  <2>3. /\ Cardinality(Toggling(<<carry>> \o queue, s))
               = One(carry, s) + Cardinality(Toggling(queue, s))
        /\ Cardinality(Toggling(<<job>> \o (<<carry>> \o queue), s))
               = One(job, s) + Cardinality(Toggling(<<carry>> \o queue, s))
        /\ Cardinality(Toggling(queue, s)) \in Nat
        /\ One(job, s) \in {0, 1} /\ One(carry, s) \in {0, 1}
    BY <1>1, <2>2, TogglesBehind DEF One
  <2>4. InFlight = IF pc = "reconcile" THEN <<carry>> \o queue ELSE <<job>> \o (<<carry>> \o queue)
    <3>. DEFINE J == Jobs \cup {NoJob}
                a == <<job>> \o <<carry>>
    <3>2. <<job>> \in Seq(J) /\ <<carry>> \in Seq(J) /\ <<job, carry>> \in Seq(J)
      BY <1>1
    <3>1. <<job, carry>> = a
      <4>1. a \in Seq(J) /\ Len(a) = 2 /\ a[1] = job /\ a[2] = carry
        BY <3>2
      <4>. HIDE DEF a, J
      <4>. QED BY <3>2, <4>1, SeqEqual
    <3>3. (<<job>> \o <<carry>>) \o queue = <<job>> \o (<<carry>> \o queue)
      BY <2>2, <3>2, ConcatAssociative
    <3>. QED BY <3>1, <3>3 DEF InFlight
  <2>5. toggles[s] = Cardinality(Toggling(InFlight, s))
    <3>1. CASE pc = "reconcile"
      BY <2>1, <2>2, <2>3, <2>4, <3>1 DEF Flying
    <3>2. CASE pc # "reconcile"
      BY <2>1, <2>2, <2>3, <2>4, <3>2 DEF Flying
    <3>. QED BY <3>1, <3>2
  <2>. QED BY <2>5 DEF Toggling
<1>. QED BY <1>2, <1>3 DEF NothingLostOnTheWay, LastAcceptedValueSent, TogglesConserved

\* Nothing is owed, and nothing is on its way.
LEMMA LosslessAtFirst == Init => Lossless
<1>. SUFFICES ASSUME Init PROVE Lossless
  OBVIOUS
<1>1. HistoryOK
  BY DEF Init, HistoryOK
<1>2. Placed
  BY DEF Init, Placed
<1>3. ASSUME NEW s \in Slots PROVE Way(s)
  BY DEF Init, Way
<1>4. ASSUME NEW s \in Slots PROVE toggles[s] = Flying(s)
  <2>1. CountToggles(<<>>, s) = 0
    <3>1. {i \in 1..Len(<<>>): IsSend(<<>>[i], s, "TOGGLE")} = {}
      OBVIOUS
    <3>. QED BY <3>1, FS_EmptySet DEF CountToggles
  <2>. QED BY <2>1 DEF Init, Flying, One
<1>. QED BY <1>1, <1>2, <1>3, <1>4 DEF Lossless

\* Between a queue that accepted a job and the transport nothing is lost or doubled, for any
\* number of slots, bindings, tasks and queue length: once the engine is at rest and the target
\* online the last VALUE that was accepted is the last that was sent, and the TOGGLE jobs on
\* their way are those accepted and neither executed nor evicted.
THEOREM EngineIsLossless == Spec => []NothingLostOnTheWay
<1>1. Init => Inv /\ Lossless
  BY InitOK, LosslessAtFirst
<1>2. Inv /\ Lossless /\ [Next]_vars => (Inv /\ Lossless)'
  BY InvStep, LosslessStep
<1>3. Inv /\ Lossless => NothingLostOnTheWay
  BY LosslessMeans
<1>. QED BY <1>1, <1>2, <1>3, PTL DEF Spec
=============================================================================
