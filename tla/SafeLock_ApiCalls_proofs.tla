---------------------- MODULE SafeLock_ApiCalls_proofs ----------------------
(***************************************************************************)
(* Proofs about the safe driver and about the endpoints that an opened safe*)
(* calls.                                                                  *)
(*                                                                         *)
(* The driver, for any limits, store and timing: its state stays well typed,*)
(* every attempt is either matched or counted as wrong and has its end     *)
(* coming, a locked slot holds no attempt, the policy bounds the wrong     *)
(* attempts between two lockouts, and what a pause finalizes is what was   *)
(* typed.                                                                  *)
(*                                                                         *)
(* The endpoint store and its tasks, for any slots, names, peers and callers:*)
(* a slot holds what the flash holds, unless two callers stored in it at a *)
(* time or a write failed, and a chain sends to every slot it set out for. *)
(***************************************************************************)
EXTENDS SafeLock, ApiCalls, FiniteSetTheorems, SequenceTheorems, NaturalsInduction,
        WellFoundedInduction, TLAPS


-----------------------------------------------------------------------------
(* sd_sequence.c.                                                          *)

\* A committed segment is a signed count of 1..MaxTicks detents.
LEMMA SegmentType == ASSUME NEW d \in Detents, NEW n \in 1..MaxTicks
                     PROVE  d * n \in Segments
BY DEF Segments

\* commit_segment keeps the entry well typed.
LEMMA CommitType == ASSUME NEW e \in Entries PROVE CommitSegment(e) \in Entries
<1>. USE DEF Entries
<1>1. CASE e.dir = 0 \/ e.ticks = 0
  BY <1>1 DEF CommitSegment
<1>2. CASE /\ ~(e.dir = 0 \/ e.ticks = 0)
           /\ Len(e.segs) >= MaxSegments \/ e.ticks > MaxTicks
  BY <1>2 DEF CommitSegment
<1>3. CASE /\ ~(e.dir = 0 \/ e.ticks = 0)
           /\ ~(Len(e.segs) >= MaxSegments \/ e.ticks > MaxTicks)
  <2>1. e.dir * e.ticks \in Segments
    <3>1. e.dir \in Detents /\ e.ticks \in 1..MaxTicks
      BY <1>3, SequenceAssumption
    <3>. QED BY <3>1, SegmentType
  <2>2. Append(e.segs, e.dir * e.ticks) \in Seq(Segments)
    BY <2>1
  <2>. DEFINE r == e.dir * e.ticks
  <2>3. CommitSegment(e) = [e EXCEPT !.segs = Append(e.segs, r), !.ticks = 0, !.dir = 0]
    BY <1>3 DEF CommitSegment
  <2>4. Append(e.segs, r) \in Seq(Segments)
    BY <2>2
  <2>. HIDE DEF r
  <2>5. 0 \in 0..(MaxTicks + 1) /\ 0 \in Detents \union {0}
    BY SequenceAssumption
  <2>. QED BY <2>3, <2>4, <2>5 DEF Entries
<1>. QED BY <1>1, <1>2, <1>3

\* A detent keeps the entry well typed.
LEMMA CountTickType == ASSUME NEW e \in Entries, NEW d \in Detents
                       PROVE  CountTick(e, d) \in Entries
<1>. DEFINE n == IF e.ticks > MaxTicks THEN e.ticks ELSE e.ticks + 1
            o == e.overflow \/ e.ticks + 1 > MaxTicks
<1>1. n \in 0..(MaxTicks + 1) /\ o \in BOOLEAN
  BY SequenceAssumption DEF Entries
<1>2. CountTick(e, d) =
        [e EXCEPT !.active = TRUE, !.dir = d, !.ticks = n, !.overflow = o]
  BY DEF CountTick, Entries
<1>. HIDE DEF n, o
<1>. QED BY <1>1, <1>2 DEF Entries

\* So does every input.
LEMMA StepType == ASSUME NEW e \in Entries, NEW step \in Steps
                  PROVE  EnterStep(e, step) \in Entries
BY CommitType, CountTickType DEF EnterStep, PressEntry, RotateEntry, Steps, Press

\* What sd_seq_input_t satisfies between two calls: a running segment has a
\* direction and a count, a count above the limit is flagged, and an entry that
\* has begun holds something.
Shape(e) ==
    /\ e.dir # 0 <=> e.ticks # 0
    /\ e.ticks > MaxTicks => e.overflow
    /\ e.active => e.dir # 0 \/ e.segs # <<>> \/ e.overflow
    /\ Len(e.segs) <= MaxSegments

\* commit_segment keeps the shape, and the entry begun or not.
LEMMA CommitShape == ASSUME NEW e \in Entries, Shape(e)
                     PROVE  /\ Shape(CommitSegment(e))
                            /\ CommitSegment(e).active = e.active
<1>. USE SequenceAssumption DEF Entries, Shape
<1>1. CASE e.dir = 0 \/ e.ticks = 0
  BY <1>1 DEF CommitSegment
<1>2. CASE /\ ~(e.dir = 0 \/ e.ticks = 0)
           /\ Len(e.segs) >= MaxSegments \/ e.ticks > MaxTicks
  BY <1>2 DEF CommitSegment
<1>3. CASE /\ ~(e.dir = 0 \/ e.ticks = 0)
           /\ ~(Len(e.segs) >= MaxSegments \/ e.ticks > MaxTicks)
  <2>. DEFINE r == e.dir * e.ticks
  <2>1. CommitSegment(e) = [e EXCEPT !.segs = Append(e.segs, r), !.ticks = 0, !.dir = 0]
    BY <1>3 DEF CommitSegment
  <2>2. r \in Segments
    BY <1>3, SegmentType
  <2>. HIDE DEF r
  <2>3. Append(e.segs, r) # <<>> /\ Len(Append(e.segs, r)) = Len(e.segs) + 1
    BY <2>2
  <2>. QED BY <1>3, <2>1, <2>3
<1>. QED BY <1>1, <1>2, <1>3

\* A detent keeps the shape, even where no segment was running.
LEMMA CountTickShape == ASSUME NEW e \in Entries, Shape(e), NEW d \in Detents
                        PROVE  Shape(CountTick(e, d))
<1>. DEFINE n == IF e.ticks > MaxTicks THEN e.ticks ELSE e.ticks + 1
            o == e.overflow \/ e.ticks + 1 > MaxTicks
<1>1. n # 0 /\ (n > MaxTicks => o)
  BY SequenceAssumption DEF Entries, Shape
<1>2. CountTick(e, d) =
        [e EXCEPT !.active = TRUE, !.dir = d, !.ticks = n, !.overflow = o]
  BY DEF CountTick, Entries
<1>3. d # 0
  BY DEF Detents
<1>. HIDE DEF n, o
<1>. QED BY <1>1, <1>2, <1>3 DEF Entries, Shape

\* So does every input.
LEMMA StepShape == ASSUME NEW e \in Entries, Shape(e), NEW step \in Steps
                   PROVE  Shape(EnterStep(e, step))
BY CommitType, CommitShape, CountTickShape
   DEF EnterStep, PressEntry, RotateEntry, Steps, Press

\* sd_seq_input_overflowed agrees with what finalize will answer.
LEMMA OverflowedIsRefused == ASSUME NEW e \in Entries, Shape(e), e.active
                             PROVE  Overflowed(e) <=> Finalized(e) = <<>>
<1>1. CASE e.dir = 0
  BY <1>1 DEF Entries, Shape, Overflowed, Finalized, CommitSegment
<1>2. CASE e.dir # 0 /\ (Len(e.segs) >= MaxSegments \/ e.ticks > MaxTicks)
  BY <1>2 DEF Entries, Shape, Overflowed, Finalized, CommitSegment
<1>3. CASE e.dir # 0 /\ ~(Len(e.segs) >= MaxSegments \/ e.ticks > MaxTicks)
  <2>1. Append(e.segs, e.dir * e.ticks) # <<>>
    OBVIOUS
  <2>. QED BY <1>3, <2>1 DEF Entries, Shape, Overflowed, Finalized, CommitSegment
<1>. QED BY <1>1, <1>2, <1>3

-----------------------------------------------------------------------------
(* The types.                                                              *)

\* The policy that decides is that of an entry in use.
LEMMA PolicyType ==
    TypeOK => \A n \in EntryNumbers:
                Decides(n) => /\ store[n].after \in Nat \ {0}
                              /\ store[n].seconds \in 1..MaxSeconds
BY DEF TypeOK, Decides, Policies, InUse, StoredEntry

\* The entry of sd_seq_input_init.
LEMMA NewEntryType == NewEntry \in Entries /\ Shape(NewEntry)
BY SequenceAssumption DEF NewEntry, Entries, Shape

\* TypeOK is inductive on its own.
LEMMA InitTypeOK == Init => TypeOK
<1>. SUFFICES ASSUME Init PROVE TypeOK
  OBVIOUS
<1>1. dropped \in BOOLEAN
  BY DEF Init
<1>. QED BY <1>1, NewEntryType, SafeAssumption DEF Init, TypeOK, Off

\* Every action keeps the types.
LEMMA NextTypeOK == TypeOK /\ [Next]_vars => TypeOK'
<1>. SUFFICES ASSUME TypeOK, [Next]_vars PROVE TypeOK'
  OBVIOUS
<1>. USE SafeAssumption DEF TypeOK
<1>1. CASE InputIgnored
  BY <1>1 DEF InputIgnored, history
<1>2. ASSUME NEW step \in Steps, Input(step) PROVE TypeOK'
  <2>1. entry' \in Entries
    BY <1>2, StepType DEF Input
  <2>2. dropped' \in BOOLEAN
    BY <1>2 DEF Input
  <2>. QED BY <1>2, <2>1, <2>2 DEF Input, Off
<1>3. CASE TimerExpires
  BY <1>3 DEF TimerExpires, privVars, history, Off
<1>9. CASE JobDropped
  <2>1. jobs - 1 \in Nat
    BY <1>9 DEF JobDropped
  <2>2. dropped' \in BOOLEAN
    BY <1>9 DEF JobDropped
  <2>. QED BY <1>9, <2>1, <2>2 DEF JobDropped, privVars
<1>4. CASE OnTimeout
  <2>1. entry' \in Entries /\ jobs' \in Nat
    BY <1>4, NewEntryType DEF OnTimeout, EndAttempt
  <2>4. dropped' \in BOOLEAN
    BY <1>4 DEF OnTimeout, EndAttempt
  <2>2. UNCHANGED <<store, since, timer>>
    BY <1>4 DEF OnTimeout
  <2>3. /\ fails' \in Nat /\ guesses' \in Nat
        /\ lockLeft' \in 0..MaxSeconds
    <3>1. CASE NoAttempt
      BY <3>1 DEF NoAttempt
    <3>2. CASE Opens
      BY <3>2 DEF Opens
    <3>3. CASE Fails
      BY <3>3 DEF Fails
    <3>4. ASSUME NEW n \in EntryNumbers, LocksOut(n)
          PROVE  /\ fails' \in Nat /\ guesses' \in Nat
                 /\ lockLeft' \in 0..MaxSeconds
      <4>1. store[n].seconds \in 1..MaxSeconds
        BY <3>4, PolicyType DEF LocksOut, Reaches
      <4>2. LeftOf(store[n].seconds) \in 0..MaxSeconds
        BY <4>1 DEF LeftOf
      <4>. QED BY <3>4, <4>1, <4>2 DEF LocksOut
    <3>. QED BY <1>4, <3>1, <3>2, <3>3, <3>4 DEF OnTimeout
  <2>. QED BY <2>1, <2>2, <2>3, <2>4
<1>5. ASSUME NEW n \in EntryNumbers, NEW e \in StoreChoices \union {NoEntry},
             SetEntry(n, e)
      PROVE  TypeOK'
  BY <1>5 DEF SetEntry, privVars
<1>6. CASE Reload
  <2>1. dropped' \in BOOLEAN
    BY <1>6 DEF Reload
  <2>. QED BY <1>6, <2>1, NewEntryType DEF Reload, Off
<1>7. CASE Tick
  BY <1>7 DEF Tick, Off
<1>8. CASE UNCHANGED vars
  BY <1>8 DEF vars, privVars, history
<1>. QED BY <1>1, <1>2, <1>3, <1>4, <1>5, <1>6, <1>7, <1>8, <1>9 DEF Next

\* The driver's state, the store and the timers stay well typed.
THEOREM TypeCorrect == Spec => []TypeOK
<1>1. Init => TypeOK
  BY InitTypeOK
<1>. QED BY <1>1, NextTypeOK, PTL DEF Spec

-----------------------------------------------------------------------------
(* Attempts.                                                               *)

\* The slot's entry keeps its shape: every step leaves, clears or extends it.
LEMMA ShapeStep == TypeOK /\ Shape(entry) /\ [Next]_vars => Shape(entry)'
<1>. SUFFICES ASSUME TypeOK, Shape(entry), [Next]_vars PROVE Shape(entry')
  BY DEF Shape
<1>1. \/ entry' = entry \/ entry' = NewEntry
      \/ \E step \in Steps: entry' = EnterStep(entry, step)
  BY DEF Next, vars, privVars, InputIgnored, Input, TimerExpires, JobDropped,
         OnTimeout, EndAttempt, SetEntry, Reload, Tick
<1>2. entry \in Entries
  BY DEF TypeOK
<1>. QED BY <1>1, <1>2, NewEntryType, StepShape

\* No attempt ends unmatched and uncounted.
THEOREM AttemptsCount == Spec => []EveryAttemptCounts
<1>1. Init => Shape(entry)
  BY NewEntryType DEF Init
<1>2. TypeOK /\ Shape(entry) => EveryAttemptCounts
  BY OverflowedIsRefused DEF TypeOK, EveryAttemptCounts
<1>. QED BY <1>1, <1>2, ShapeStep, TypeCorrect, PTL DEF Spec

\* EndIsComing is inductive: an input arms the timer, a timer that expires makes
\* a job, and a job ends the attempt or is dropped.
LEMMA EndStep == TypeOK /\ EndIsComing /\ [Next]_vars => EndIsComing'
<1>. SUFFICES ASSUME TypeOK, EndIsComing, [Next]_vars PROVE EndIsComing'
  OBVIOUS
<1>. USE SafeAssumption DEF TypeOK, EndIsComing, Off
<1>1. CASE InputIgnored
  BY <1>1 DEF InputIgnored, history
<1>2. ASSUME NEW step \in Steps, Input(step) PROVE EndIsComing'
  BY <1>2 DEF Input
<1>3. CASE TimerExpires
  BY <1>3 DEF TimerExpires
<1>4. CASE JobDropped
  <2>1. jobs = 1 /\ timer = -1 => dropped'
    BY <1>4 DEF JobDropped
  <2>2. dropped => dropped'
    BY <1>4 DEF JobDropped
  <2>3. jobs' = jobs - 1 /\ UNCHANGED <<entry, timer>> /\ jobs > 0
    BY <1>4 DEF JobDropped, privVars
  <2>. QED BY <2>1, <2>2, <2>3
<1>5. CASE OnTimeout
  BY <1>5 DEF OnTimeout, EndAttempt, NewEntry
<1>6. ASSUME NEW n \in EntryNumbers, NEW e \in StoreChoices \union {NoEntry},
             SetEntry(n, e)
      PROVE  EndIsComing'
  BY <1>6 DEF SetEntry, privVars
<1>7. CASE Reload
  BY <1>7 DEF Reload, NewEntry
<1>8. CASE Tick
  BY <1>8 DEF Tick
<1>9. CASE UNCHANGED vars
  BY <1>9 DEF vars, privVars, history
<1>. QED BY <1>1, <1>2, <1>3, <1>4, <1>5, <1>6, <1>7, <1>8, <1>9 DEF Next

\* An attempt that has begun has its end coming, or its job was dropped.
THEOREM AttemptsAwaitTheirEnd == Spec => []EndIsComing
<1>1. Init => EndIsComing
  BY DEF Init, EndIsComing, NewEntry
<1>. QED BY <1>1, EndStep, TypeCorrect, PTL DEF Spec

-----------------------------------------------------------------------------
(* The lockout.                                                            *)

\* A locked slot takes no input, and an attempt that locks it has just ended.
LEMMA LockedStep ==
    TypeOK /\ NothingTypedWhileLocked /\ [Next]_vars => NothingTypedWhileLocked'
<1>. SUFFICES ASSUME TypeOK, NothingTypedWhileLocked, [Next]_vars
              PROVE  NothingTypedWhileLocked'
  OBVIOUS
<1>. USE DEF TypeOK, NothingTypedWhileLocked, Locked
<1>1. CASE InputIgnored
  BY <1>1 DEF InputIgnored
<1>2. ASSUME NEW step \in Steps, Input(step) PROVE NothingTypedWhileLocked'
  BY <1>2 DEF Input
<1>3. CASE TimerExpires \/ JobDropped
  BY <1>3 DEF TimerExpires, JobDropped, privVars
<1>4. CASE OnTimeout
  BY <1>4 DEF OnTimeout, EndAttempt, NewEntry
<1>5. ASSUME NEW n \in EntryNumbers, NEW e \in StoreChoices \union {NoEntry},
             SetEntry(n, e)
      PROVE  NothingTypedWhileLocked'
  BY <1>5 DEF SetEntry, privVars
<1>6. CASE Reload
  BY <1>6 DEF Reload, NewEntry
<1>7. CASE Tick
  BY <1>7 DEF Tick
<1>8. CASE UNCHANGED vars
  BY <1>8 DEF vars, privVars
<1>. QED BY <1>1, <1>2, <1>3, <1>4, <1>5, <1>6, <1>7, <1>8 DEF Next

\* Nothing typed before or during a lockout is matched while it lasts.
THEOREM LockedHoldsNoAttempt == Spec => []NothingTypedWhileLocked
<1>1. Init => NothingTypedWhileLocked
  BY DEF Init, NothingTypedWhileLocked, Locked
<1>. QED BY <1>1, LockedStep, TypeCorrect, PTL DEF Spec

\* GuessesBounded is not inductive: the driver compares fail_count, which a
\* change of the store does not reset, and which is thus at least the guesses
\* made under the present policy.
GuessInv == GuessesBounded /\ guesses <= fails

\* Only a wrong attempt raises the guesses, and then the policy has not decided.
LEMMA GuessStep == TypeOK /\ GuessInv /\ [Next]_vars => GuessInv'
<1>. SUFFICES ASSUME TypeOK, GuessInv, [Next]_vars PROVE GuessInv'
  OBVIOUS
<1>. USE DEF TypeOK, GuessInv, GuessesBounded
<1>1. CASE UNCHANGED <<store, fails, guesses>>
  BY <1>1 DEF Decides, Policies, InUse
<1>2. CASE NoAttempt /\ UNCHANGED store
  BY <1>2 DEF NoAttempt, Decides, Policies, InUse
<1>3. CASE Fails /\ UNCHANGED store
  <2>1. \A n \in EntryNumbers:
            Decides(n)' => Decides(n) /\ store'[n].after = store[n].after
    BY <1>3 DEF Decides, Policies, InUse
  <2>2. \A n \in EntryNumbers: Decides(n) => fails + 1 < store[n].after
    BY <1>3, PolicyType DEF Fails, Reaches
  <2>3. guesses' = guesses + 1 /\ fails' = fails + 1
    BY <1>3 DEF Fails
  <2>4. ASSUME NEW n \in EntryNumbers, Decides(n)'
        PROVE  guesses' < store'[n].after
    <3>1. Decides(n) /\ store'[n].after = store[n].after /\ store[n].after \in Nat
      BY <2>1, <2>4, PolicyType
    <3>. QED BY <2>2, <2>3, <3>1
  <2>. QED BY <2>3, <2>4
<1>4. CASE guesses' = 0 /\ fails' \in Nat
  <2>1. (\A n \in EntryNumbers: Decides(n) => store[n].after \in Nat \ {0})'
    <3>1. TypeOK'
      BY NextTypeOK
    <3>. QED BY <3>1 DEF Decides, Policies, InUse, StoredEntry
  <2>. QED BY <1>4, <2>1
<1>5. \/ UNCHANGED <<store, fails, guesses>>
      \/ (NoAttempt \/ Fails) /\ UNCHANGED store
      \/ guesses' = 0 /\ fails' \in Nat
  BY DEF Next, vars, privVars, history, InputIgnored, Input, TimerExpires, JobDropped,
         OnTimeout, Opens, LocksOut, SetEntry, Reload, Tick
<1>. QED BY <1>1, <1>2, <1>3, <1>4, <1>5

\* Under an unchanged policy a lockout comes after at most `after` wrong attempts.
THEOREM GuessesAreBounded == Spec => []GuessesBounded
<1>1. Init => GuessInv
  <2>. SUFFICES ASSUME Init PROVE GuessInv
    OBVIOUS
  <2>1. TypeOK
    BY InitTypeOK
  <2>. QED BY <2>1, PolicyType DEF Init, GuessInv, GuessesBounded
<1>2. GuessInv => GuessesBounded
  BY DEF GuessInv
<1>. QED BY <1>1, <1>2, GuessStep, TypeCorrect, PTL DEF Spec

\* Every attempt ends, is judged and counts, and the one that reaches the limit
\* locks the slot.
THEOREM LockIsSound == Spec => []LockSound
<1>1. EveryAttemptCounts /\ NothingTypedWhileLocked /\ GuessesBounded /\ EndIsComing
      => LockSound
  BY DEF LockSound
<1>. QED BY <1>1, AttemptsCount, LockedHoldsNoAttempt, GuessesAreBounded,
            AttemptsAwaitTheirEnd, PTL

-----------------------------------------------------------------------------
(* The runs of what was typed, and how an input changes them.              *)

\* The number of starts up to i, and the start of a number: what RunLengths calls start(k).
Rank(R, i) == Cardinality({j \in R: j <= i})
RunStart(R, k) == CHOOSE i \in R: Cardinality({j \in R: j <= i}) = k
Ranked(R) == \A k \in 1..Cardinality(R): \E i \in R: Rank(R, i) = k

\* Ranks lie in their interval, and a later start has a higher rank.
LEMMA RankGrows ==
    ASSUME NEW R \in SUBSET Nat, IsFiniteSet(R), NEW i \in R
    PROVE  /\ Rank(R, i) \in 1..Cardinality(R)
           /\ \A j \in R: j < i => Rank(R, j) < Rank(R, i)
<1>. DEFINE S(x) == {j \in R: j <= x}
<1>1. \A x: S(x) \in SUBSET R /\ IsFiniteSet(S(x)) /\ Cardinality(S(x)) \in Nat
                 /\ Cardinality(S(x)) <= Cardinality(R)
  BY FS_Subset, FS_CardinalityType
<1>2. Cardinality(R) \in Nat
  BY FS_CardinalityType
<1>3. Cardinality(S(i)) # 0
  <2>1. i \in S(i)
    OBVIOUS
  <2>. QED BY <1>1, <2>1, FS_EmptySet
<1>4. ASSUME NEW j \in R, j < i PROVE Cardinality(S(j)) < Cardinality(S(i))
  <2>1. S(j) \in SUBSET S(i) /\ i \in S(i) /\ i \notin S(j)
    <3>1. i \in Int /\ j \in Int /\ \A x \in R: x \in Int
      OBVIOUS
    <3>2. i <= i /\ ~(i <= j) /\ \A x \in R: x <= j => x <= i
      BY <1>4, <3>1
    <3>3. i \in S(i) /\ i \notin S(j)
      BY <3>2
    <3>4. S(j) \in SUBSET S(i)
      BY <3>2
    <3>. QED BY <3>3, <3>4
  <2>2. /\ Cardinality(S(j)) <= Cardinality(S(i))
        /\ Cardinality(S(i)) = Cardinality(S(j)) => S(i) = S(j)
    BY <1>1, <2>1, FS_Subset
  <2>. HIDE DEF S
  <2>. QED BY <1>1, <2>1, <2>2
<1>. QED BY <1>1, <1>2, <1>3, <1>4 DEF Rank

\* The start of a number has that rank, and is the only one that has.
LEMMA StartHasRank ==
    ASSUME NEW R \in SUBSET Nat, IsFiniteSet(R), Ranked(R)
    PROVE  /\ \A k \in 1..Cardinality(R): RunStart(R, k) \in R /\ Rank(R, RunStart(R, k)) = k
           /\ \A i \in R: RunStart(R, Rank(R, i)) = i
<1>1. ASSUME NEW k \in 1..Cardinality(R)
      PROVE  RunStart(R, k) \in R /\ Rank(R, RunStart(R, k)) = k
  <2>1. \E i \in R: Cardinality({j \in R: j <= i}) = k
    BY DEF Ranked, Rank
  <2>. QED BY <2>1 DEF RunStart, Rank
<1>2. ASSUME NEW i \in R PROVE RunStart(R, Rank(R, i)) = i
  <2>1. Rank(R, i) \in 1..Cardinality(R)
    BY RankGrows
  <2>. DEFINE s == RunStart(R, Rank(R, i))
  <2>2. s \in R /\ Rank(R, s) = Rank(R, i)
    BY <1>1, <2>1
  <2>. HIDE DEF s
  <2>3. /\ s < i => Rank(R, s) < Rank(R, i)
        /\ i < s => Rank(R, i) < Rank(R, s)
    BY <2>2, RankGrows
  <2>4. Rank(R, i) \in Int /\ s \in Int /\ i \in Int
    BY <2>1, <2>2
  <2>. QED BY <2>2, <2>3, <2>4 DEF s
<1>. QED BY <1>1, <1>2

\* A start behind all others is the next in number, and the others keep theirs.
LEMMA StartAdded ==
    ASSUME NEW n \in Nat, NEW R \in SUBSET (1..n), Ranked(R)
    PROVE  LET Q == R \cup {n + 1} IN
           /\ IsFiniteSet(R) /\ Cardinality(R) \in Nat
           /\ Cardinality(Q) = Cardinality(R) + 1 /\ Ranked(Q)
           /\ \A k \in 1..Cardinality(R): RunStart(Q, k) = RunStart(R, k)
           /\ RunStart(Q, Cardinality(R) + 1) = n + 1
<1>. DEFINE Q == R \cup {n + 1}
<1>1. /\ IsFiniteSet(R) /\ Cardinality(R) \in Nat /\ R \in SUBSET Nat
      /\ IsFiniteSet(Q) /\ Cardinality(Q) = Cardinality(R) + 1 /\ Q \in SUBSET Nat
  <2>1. IsFiniteSet(R) /\ n + 1 \notin R
    <3>1. n + 1 \notin 1..n /\ IsFiniteSet(1..n)
      BY FS_Interval
    <3>. QED BY <3>1, FS_Subset
  <2>2. Cardinality(R) \in Nat /\ IsFiniteSet(Q)
        /\ Cardinality(Q) = Cardinality(R) + 1
    BY <2>1, FS_AddElement, FS_CardinalityType
  <2>. QED BY <2>1, <2>2
<1>2. \A i \in R: Rank(Q, i) = Rank(R, i)
  <2>1. ASSUME NEW i \in R PROVE {j \in Q: j <= i} = {j \in R: j <= i}
    OBVIOUS
  <2>. QED BY <2>1 DEF Rank
<1>3. Rank(Q, n + 1) = Cardinality(R) + 1
  <2>1. \A j \in Q: j <= n + 1
    OBVIOUS
  <2>2. {j \in Q: j <= n + 1} = Q
    BY <2>1
  <2>. QED BY <1>1, <2>2 DEF Rank
<1>4. Ranked(Q)
  <2>1. ASSUME NEW k \in 1..Cardinality(Q) PROVE \E i \in Q: Rank(Q, i) = k
    <3>1. CASE k = Cardinality(R) + 1
      BY <1>3, <3>1
    <3>2. CASE k \in 1..Cardinality(R)
      BY <1>2, <3>2 DEF Ranked
    <3>. QED BY <1>1, <3>1, <3>2
  <2>. QED BY <2>1 DEF Ranked
<1>5. ASSUME NEW k \in 1..Cardinality(R) PROVE RunStart(Q, k) = RunStart(R, k)
  <2>1. RunStart(R, k) \in R /\ Rank(R, RunStart(R, k)) = k
    BY <1>1, StartHasRank
  <2>2. RunStart(R, k) \in Q /\ Rank(Q, RunStart(R, k)) = k
    BY <1>2, <2>1
  <2>3. \A i \in Q: RunStart(Q, Rank(Q, i)) = i
    BY <1>1, <1>4, StartHasRank
  <2>. QED BY <2>2, <2>3
<1>6. RunStart(Q, Cardinality(R) + 1) = n + 1
  <2>1. \A i \in Q: RunStart(Q, Rank(Q, i)) = i
    BY <1>1, <1>4, StartHasRank
  <2>. QED BY <1>3, <2>1
<1>. QED BY <1>1, <1>4, <1>5, <1>6

\* The greatest start is the last in number, and no other is.
LEMMA LastInNumber ==
    ASSUME NEW R \in SUBSET Nat, IsFiniteSet(R), Ranked(R),
           NEW m \in R, \A i \in R: i <= m
    PROVE  /\ RunStart(R, Cardinality(R)) = m
           /\ \A k \in 1..Cardinality(R): RunStart(R, k) = m => k = Cardinality(R)
<1>1. {j \in R: j <= m} = R
  OBVIOUS
<1>2. Rank(R, m) = Cardinality(R)
  BY <1>1 DEF Rank
<1>. QED BY <1>2, StartHasRank

-----------------------------------------------------------------------------
\* The runs are numbered, and the last one goes on to the end unless a press ended it.
LastRun(t, m) ==
    /\ m \in RunStarts(t) /\ \A i \in RunStarts(t): i <= m
    /\ \A x \in m..Len(t): t[x] = t[Len(t)]

WellRun(t) ==
    /\ t \in Seq(Steps)
    /\ Ranked(RunStarts(t))
    /\ t # <<>> /\ t[Len(t)] # Press => \E m \in RunStarts(t): LastRun(t, m)

\* The runs of what was typed are finitely many sequences of detents.
LEMMA RunsType ==
    ASSUME NEW t \in Seq(Steps)
    PROVE  /\ RunStarts(t) \in SUBSET (1..Len(t)) /\ RunStarts(t) \in SUBSET Nat
           /\ IsFiniteSet(RunStarts(t)) /\ Cardinality(RunStarts(t)) \in Nat
           /\ \A i \in RunStarts(t): t[i] \in Detents /\ RunLength(t, i) \in Nat
<1>1. RunStarts(t) \in SUBSET (1..Len(t)) /\ Len(t) \in Nat
  BY DEF RunStarts
<1>2. IsFiniteSet(1..Len(t))
  BY <1>1, FS_Interval
<1>3. ASSUME NEW i \in RunStarts(t) PROVE t[i] \in Detents /\ RunLength(t, i) \in Nat
  <2>1. t[i] \in Detents
    BY DEF RunStarts, Steps
  <2>2. {k \in i..Len(t): \A m \in i..k: t[m] = t[i]} \in SUBSET (1..Len(t))
    BY <1>1
  <2>. QED BY <1>2, <2>1, <2>2, FS_Subset, FS_CardinalityType DEF RunLength
<1>. QED BY <1>1, <1>2, <1>3, FS_Subset, FS_CardinalityType

\* RunLengths, with its starts by number.
LEMMA LengthsType ==
    ASSUME NEW t, WellRun(t)
    PROVE  LET R == RunStarts(t) IN
           /\ RunLengths(t) = [k \in 1..Cardinality(R) |->
                                  t[RunStart(R, k)] * RunLength(t, RunStart(R, k))]
           /\ RunLengths(t) \in Seq(Int) /\ Len(RunLengths(t)) = Cardinality(R)
<1>. DEFINE R == RunStarts(t)
            f == [k \in 1..Cardinality(R) |-> t[RunStart(R, k)] * RunLength(t, RunStart(R, k))]
<1>1. RunLengths(t) = f
  BY DEF RunLengths, RunStart
<1>2. R \in SUBSET Nat /\ IsFiniteSet(R) /\ Cardinality(R) \in Nat /\ Ranked(R)
      /\ \A i \in R: t[i] \in Detents /\ RunLength(t, i) \in Nat
  BY RunsType DEF WellRun
<1>3. ASSUME NEW k \in 1..Cardinality(R)
      PROVE  t[RunStart(R, k)] * RunLength(t, RunStart(R, k)) \in Int
  <2>1. RunStart(R, k) \in R
    BY <1>2, StartHasRank
  <2>2. t[RunStart(R, k)] \in Int /\ RunLength(t, RunStart(R, k)) \in Int
    BY <1>2, <2>1 DEF Detents
  <2>. QED BY <2>2
<1>4. f \in [1..Cardinality(R) -> Int]
  BY <1>3
<1>5. f \in Seq(Int) /\ Len(f) = Cardinality(R)
  <2>. HIDE DEF f, R
  <2>. QED BY <1>2, <1>4, SeqDef, LenProperties
<1>. QED BY <1>1, <1>5

\* One more input: where runs start, and how long they are.
LEMMA StartsAppended ==
    ASSUME NEW t \in Seq(Steps), NEW step \in Steps
    PROVE  RunStarts(Append(t, step)) =
               IF step # Press /\ (t = <<>> \/ t[Len(t)] # step)
               THEN RunStarts(t) \cup {Len(t) + 1} ELSE RunStarts(t)
<1>. DEFINE u == Append(t, step)
            n == Len(t)
<1>1. /\ n \in Nat /\ Len(u) = n + 1 /\ u[n + 1] = step
      /\ \A i \in 1..n: u[i] = t[i]
      /\ t = <<>> <=> n = 0
  OBVIOUS
<1>. HIDE DEF u, n
<1>2. ASSUME NEW i \in 1..n
      PROVE  i \in RunStarts(u) <=> i \in RunStarts(t)
  <2>1. i \in 1..Len(u) /\ i \in 1..Len(t) /\ u[i] = t[i]
    BY <1>1 DEF n
  <2>2. i > 1 => u[i - 1] = t[i - 1]
    BY <1>1
  <2>. QED BY <2>1, <2>2 DEF RunStarts
<1>3. n + 1 \in RunStarts(u) <=> step # Press /\ (t = <<>> \/ t[n] # step)
  <2>1. n + 1 \in 1..Len(u) /\ u[n + 1] = step
    BY <1>1
  <2>2. n + 1 > 1 => u[n + 1 - 1] = t[n]
    BY <1>1
  <2>. QED BY <1>1, <2>1, <2>2 DEF RunStarts
<1>4. RunStarts(u) \subseteq 1..(n + 1) /\ RunStarts(t) \subseteq 1..n
  BY <1>1 DEF RunStarts, n
<1>5. RunStarts(u) = IF step # Press /\ (t = <<>> \/ t[n] # step)
                     THEN RunStarts(t) \cup {n + 1} ELSE RunStarts(t)
  <2>1. \A x: x \in 1..(n + 1) <=> x \in 1..n \/ x = n + 1
    BY <1>1
  <2>2. RunStarts(u) \ {n + 1} = RunStarts(t) /\ n + 1 \notin RunStarts(t)
    BY <1>1, <1>2, <1>4, <2>1
  <2>. QED BY <1>3, <2>2
<1>. QED BY <1>5 DEF u, n

\* A run grows by the detent that continues it, and by no other input.
LEMMA LengthAppended ==
    ASSUME NEW t \in Seq(Steps), NEW step \in Steps, NEW i \in RunStarts(t)
    PROVE  LET u == Append(t, step) IN
           /\ (\A x \in i..Len(t): t[x] = t[i]) /\ step = t[i]
                  => RunLength(u, i) = RunLength(t, i) + 1
           /\ (\E x \in i..Len(t): t[x] # t[i]) \/ step # t[i]
                  => RunLength(u, i) = RunLength(t, i)
           /\ RunLength(t, i) <= RunLength(u, i)
<1>. DEFINE u == Append(t, step)
            n == Len(t)
            A == {k \in i..n: \A m \in i..k: t[m] = t[i]}
            B == {k \in i..(n + 1): \A m \in i..k: u[m] = u[i]}
<1>1. /\ n \in Nat /\ Len(u) = n + 1 /\ u[n + 1] = step /\ i \in 1..n
      /\ \A x \in 1..n: u[x] = t[x]
  BY RunsType
<1>2. RunLength(t, i) = Cardinality(A) /\ RunLength(u, i) = Cardinality(B)
  BY <1>1 DEF RunLength
<1>. HIDE DEF u, n
<1>3. A \in SUBSET (i..n) /\ IsFiniteSet(A) /\ Cardinality(A) \in Nat /\ n + 1 \notin A
  <2>1. IsFiniteSet(i..n)
    BY <1>1, FS_Interval
  <2>. QED BY <1>1, <2>1, FS_Subset, FS_CardinalityType
<1>4. \A k \in i..n: k \in A <=> k \in B
  BY <1>1
<1>5. n + 1 \in B <=> (\A x \in i..n: t[x] = t[i]) /\ step = t[i]
  <2>1. n + 1 \in i..(n + 1) /\ u[i] = t[i]
    BY <1>1
  <2>2. ASSUME n + 1 \in B PROVE (\A x \in i..n: t[x] = t[i]) /\ step = t[i]
    BY <1>1, <2>1, <2>2
  <2>3. ASSUME \A x \in i..n: t[x] = t[i], step = t[i] PROVE n + 1 \in B
    <3>1. ASSUME NEW m \in i..(n + 1) PROVE u[m] = u[i]
      <4>1. CASE m = n + 1
        BY <1>1, <2>1, <2>3, <4>1
      <4>2. CASE m \in i..n
        BY <1>1, <2>1, <2>3, <4>2
      <4>. QED BY <1>1, <4>1, <4>2
    <3>. QED BY <2>1, <3>1
  <2>. QED BY <2>2, <2>3
<1>6. B \subseteq (i..n) \cup {n + 1}
  BY <1>1
<1>7. CASE (\A x \in i..n: t[x] = t[i]) /\ step = t[i]
  <2>1. B = A \cup {n + 1}
    <3>. HIDE DEF A, B
    <3>. QED BY <1>3, <1>4, <1>5, <1>6, <1>7
  <2>2. Cardinality(B) = Cardinality(A) + 1
    BY <1>3, <2>1, FS_AddElement
  <2>3. RunLength(u, i) = RunLength(t, i) + 1 /\ RunLength(t, i) \in Nat
    BY <1>2, <1>3, <2>2
  <2>. QED BY <1>7, <2>3 DEF u, n
<1>8. CASE ~((\A x \in i..n: t[x] = t[i]) /\ step = t[i])
  <2>1. B = A
    <3>. HIDE DEF A, B
    <3>. QED BY <1>3, <1>4, <1>5, <1>6, <1>8
  <2>2. RunLength(u, i) = RunLength(t, i) /\ RunLength(t, i) \in Nat
    BY <1>2, <1>3, <2>1
  <2>. QED BY <1>8, <2>2 DEF u, n
<1>. QED BY <1>7, <1>8

-----------------------------------------------------------------------------
\* Every run is one the driver can hold.
TicksFit(t) == \A i \in RunStarts(t): RunLength(t, i) <= MaxTicks

\* Nothing typed.
LEMMA NoRuns == /\ WellRun(<<>>) /\ RunStarts(<<>>) = {}
                /\ RunLengths(<<>>) = <<>> /\ TicksFit(<<>>)
<1>1. RunStarts(<<>>) = {} /\ <<>> \in Seq(Steps)
  BY DEF RunStarts
<1>2. WellRun(<<>>) /\ TicksFit(<<>>)
  BY <1>1, FS_EmptySet DEF WellRun, Ranked, TicksFit
<1>3. RunLengths(<<>>) \in Seq(Int) /\ Len(RunLengths(<<>>)) = 0
  BY <1>1, <1>2, LengthsType, FS_EmptySet
<1>. QED BY <1>1, <1>2, <1>3, EmptySeq

\* A press ends a run, and begins none.
LEMMA PressEndsRun ==
    ASSUME NEW t, WellRun(t)
    PROVE  LET u == Append(t, Press) IN
           /\ WellRun(u) /\ u # <<>> /\ u[Len(u)] = Press
           /\ RunStarts(u) = RunStarts(t) /\ RunLengths(u) = RunLengths(t)
           /\ TicksFit(u) <=> TicksFit(t)
<1>. DEFINE u == Append(t, Press)
            R == RunStarts(t)
<1>1. /\ t \in Seq(Steps) /\ Press \in Steps /\ u \in Seq(Steps) /\ Len(u) = Len(t) + 1
      /\ u[Len(u)] = Press /\ u # <<>> /\ \A i \in 1..Len(t): u[i] = t[i]
  BY DEF WellRun, Steps
<1>2. /\ R \in SUBSET (1..Len(t)) /\ R \in SUBSET Nat /\ IsFiniteSet(R)
      /\ \A i \in R: t[i] \in Detents /\ RunLength(t, i) \in Nat
  BY <1>1, RunsType
<1>3. RunStarts(u) = R
  BY <1>1, StartsAppended
<1>4. \A i \in R: RunLength(u, i) = RunLength(t, i) /\ u[i] = t[i]
  <2>1. \A i \in R: Press # t[i]
    BY <1>2 DEF Detents, Press
  <2>. QED BY <1>1, <1>2, <2>1, LengthAppended
<1>5. WellRun(u)
  BY <1>1, <1>3 DEF WellRun
<1>6. RunLengths(u) = RunLengths(t)
  <2>1. \A k \in 1..Cardinality(R): RunStart(R, k) \in R
    BY <1>2, StartHasRank DEF WellRun
  <2>2. /\ RunLengths(t) = [k \in 1..Cardinality(R) |->
                               t[RunStart(R, k)] * RunLength(t, RunStart(R, k))]
        /\ RunLengths(u) = [k \in 1..Cardinality(R) |->
                               u[RunStart(R, k)] * RunLength(u, RunStart(R, k))]
    BY <1>3, <1>5, LengthsType
  <2>3. \A k \in 1..Cardinality(R):
           /\ u[RunStart(R, k)] = t[RunStart(R, k)]
           /\ RunLength(u, RunStart(R, k)) = RunLength(t, RunStart(R, k))
    BY <1>4, <2>1
  <2>. HIDE DEF u, R
  <2>. QED BY <2>2, <2>3
<1>7. TicksFit(u) <=> TicksFit(t)
  BY <1>3, <1>4 DEF TicksFit
<1>. QED BY <1>1, <1>3, <1>5, <1>6, <1>7

\* A detent after none, after a press or in the other direction begins a run of one.
LEMMA DetentBegins ==
    ASSUME NEW t, WellRun(t), NEW d \in Detents, t = <<>> \/ t[Len(t)] # d
    PROVE  LET u == Append(t, d) IN
           /\ WellRun(u) /\ u # <<>> /\ u[Len(u)] = d
           /\ RunStarts(u) # {} /\ Cardinality(RunStarts(u)) = Cardinality(RunStarts(t)) + 1
           /\ RunLengths(u) = Append(RunLengths(t), d)
           /\ TicksFit(u) <=> TicksFit(t)
<1>. DEFINE u == Append(t, d)
            n == Len(t)
            R == RunStarts(t)
            Q == R \cup {n + 1}
            c == Cardinality(R)
<1>1. /\ t \in Seq(Steps) /\ d \in Steps /\ d # Press /\ u \in Seq(Steps) /\ Len(u) = n + 1
      /\ u[n + 1] = d /\ u # <<>> /\ n \in Nat /\ \A i \in 1..n: u[i] = t[i]
  <2>1. t \in Seq(Steps) /\ d \in Steps /\ d # Press
    BY DEF WellRun, Steps, Detents, Press
  <2>2. u \in Seq(Steps) /\ Len(u) = n + 1 /\ n \in Nat
    BY <2>1
  <2>3. u[n + 1] = d /\ \A i \in 1..n: u[i] = t[i]
    BY <2>1
  <2>4. u # <<>>
    <3>1. Len(u) # 0
      BY <2>2
    <3>. HIDE DEF u
    <3>2. u = <<>> => Len(u) = 0
      OBVIOUS
    <3>. QED BY <3>1, <3>2
  <2>. QED BY <2>1, <2>2, <2>3, <2>4
<1>2. /\ R \in SUBSET (1..n) /\ R \in SUBSET Nat /\ IsFiniteSet(R) /\ Ranked(R)
      /\ \A i \in R: t[i] \in Detents /\ RunLength(t, i) \in Nat
  BY <1>1, RunsType DEF WellRun
<1>3. RunStarts(u) = Q
  BY <1>1, StartsAppended
<1>4. /\ c \in Nat /\ Cardinality(Q) = c + 1 /\ Ranked(Q)
      /\ \A k \in 1..c: RunStart(Q, k) = RunStart(R, k)
      /\ RunStart(Q, c + 1) = n + 1
  BY <1>1, <1>2, StartAdded
<1>5. \A i \in R: RunLength(u, i) = RunLength(t, i) /\ u[i] = t[i]
  <2>1. ASSUME NEW i \in R PROVE (\E x \in i..n: t[x] # t[i]) \/ d # t[i]
    <3>1. n \in i..n /\ t # <<>>
      BY <1>1, <1>2
    <3>. QED BY <3>1
  <2>. QED BY <1>1, <1>2, <2>1, LengthAppended
<1>6. RunLength(u, n + 1) = 1
  <2>1. {k \in (n + 1)..Len(u): \A m \in (n + 1)..k: u[m] = u[n + 1]} = {n + 1}
    <3>1. (n + 1)..Len(u) = {n + 1} /\ (n + 1)..(n + 1) = {n + 1}
      BY <1>1
    <3>. HIDE DEF u, n
    <3>. QED BY <3>1
  <2>. QED BY <2>1, FS_Singleton DEF RunLength
<1>7. WellRun(u)
  <2>1. \A x \in (n + 1)..Len(u): u[x] = u[Len(u)]
    BY <1>1
  <2>2. LastRun(u, n + 1)
    BY <1>1, <1>2, <1>3, <2>1 DEF LastRun
  <2>. QED BY <1>1, <1>3, <1>4, <2>2 DEF WellRun
<1>8. RunLengths(u) = Append(RunLengths(t), d)
  <2>. DEFINE f == RunLengths(t)
              g == RunLengths(u)
  <2>1. /\ f = [k \in 1..c |-> t[RunStart(R, k)] * RunLength(t, RunStart(R, k))]
        /\ f \in Seq(Int) /\ Len(f) = c
    BY LengthsType
  <2>2. /\ g = [k \in 1..(c + 1) |-> u[RunStart(Q, k)] * RunLength(u, RunStart(Q, k))]
        /\ g \in Seq(Int) /\ Len(g) = c + 1
    BY <1>3, <1>4, <1>7, LengthsType
  <2>3. \A k \in 1..c: g[k] = f[k]
    <3>1. \A k \in 1..c: RunStart(R, k) \in R
      BY <1>2, StartHasRank
    <3>2. ASSUME NEW k \in 1..c PROVE g[k] = f[k]
      <4>1. /\ RunStart(Q, k) = RunStart(R, k) /\ u[RunStart(R, k)] = t[RunStart(R, k)]
            /\ RunLength(u, RunStart(R, k)) = RunLength(t, RunStart(R, k))
        BY <1>4, <1>5, <3>1
      <4>2. k \in 1..(c + 1)
        BY <1>4
      <4>. HIDE DEF u, Q, R, c, f, g
      <4>. QED BY <2>1, <2>2, <4>1, <4>2
    <3>. QED BY <3>2
  <2>4. g[c + 1] = d
    <3>1. c + 1 \in 1..(c + 1) /\ d * 1 = d
      BY <1>4 DEF Detents
    <3>2. u[RunStart(Q, c + 1)] = d /\ RunLength(u, RunStart(Q, c + 1)) = 1
      BY <1>1, <1>4, <1>6
    <3>. HIDE DEF u, Q, R, c, f, g
    <3>. QED BY <2>2, <3>1, <3>2
  <2>5. d \in Int
    BY DEF Detents
  <2>. HIDE DEF f, g, c
  <2>6. /\ Append(f, d) \in Seq(Int) /\ Len(Append(f, d)) = c + 1
        /\ \A k \in 1..c: Append(f, d)[k] = f[k]
        /\ Append(f, d)[c + 1] = d
    <3>1. f \in Seq(Int) /\ Len(f) = c
      BY <2>1
    <3>. HIDE DEF u, Q, R, n
    <3>. QED BY <2>5, <3>1
  <2>7. \A k \in 1..(c + 1): g[k] = Append(f, d)[k]
    BY <1>4, <2>3, <2>4, <2>6
  <2>8. g = Append(f, d)
    BY <2>2, <2>6, <2>7, SeqEqual
  <2>. QED BY <2>8 DEF f, g
<1>9. TicksFit(u) <=> TicksFit(t)
  <2>1. 1 <= MaxTicks
    BY SequenceAssumption
  <2>. QED BY <1>3, <1>5, <1>6, <2>1 DEF TicksFit
<1>. QED BY <1>1, <1>3, <1>4, <1>7, <1>8, <1>9

\* A detent in the direction of the last run makes that one longer.
LEMMA DetentContinues ==
    ASSUME NEW t, WellRun(t), NEW d \in Detents, t # <<>>, t[Len(t)] = d
    PROVE  LET u == Append(t, d)
               c == Len(RunLengths(t))
           IN  /\ WellRun(u) /\ u # <<>> /\ u[Len(u)] = d
               /\ RunStarts(u) = RunStarts(t) /\ RunStarts(t) # {}
               /\ c \in Nat \ {0}
               /\ RunLengths(u) = [RunLengths(t) EXCEPT ![c] = @ + d]
               /\ \E x \in Nat: /\ RunLengths(t)[c] = d * x
                                /\ TicksFit(u) <=> TicksFit(t) /\ x + 1 <= MaxTicks
<1>. DEFINE u == Append(t, d)
            n == Len(t)
            R == RunStarts(t)
            c == Cardinality(R)
<1>1. /\ t \in Seq(Steps) /\ d \in Steps /\ d # Press /\ u \in Seq(Steps) /\ Len(u) = n + 1
      /\ u[n + 1] = d /\ u # <<>> /\ n \in Nat \ {0} /\ \A i \in 1..n: u[i] = t[i]
  BY DEF WellRun, Steps, Detents, Press
<1>2. /\ R \in SUBSET (1..n) /\ R \in SUBSET Nat /\ IsFiniteSet(R) /\ Ranked(R) /\ c \in Nat
      /\ \A i \in R: t[i] \in Detents /\ RunLength(t, i) \in Nat
  BY <1>1, RunsType DEF WellRun
<1>3. PICK m \in R: LastRun(t, m)
  BY <1>1 DEF WellRun
<1>4. m \in 1..n /\ (\A i \in R: i <= m) /\ (\A x \in m..n: t[x] = d)
  BY <1>2, <1>3 DEF LastRun
<1>5. RunStarts(u) = R
  BY <1>1, StartsAppended
<1>6. t[m] = d /\ RunLength(u, m) = RunLength(t, m) + 1
  <2>1. t[m] = d
    BY <1>1, <1>4
  <2>2. \A x \in m..n: t[x] = t[m]
    BY <1>4, <2>1
  <2>. QED BY <1>1, <2>1, <2>2, LengthAppended
<1>7. ASSUME NEW i \in R, i # m PROVE RunLength(u, i) = RunLength(t, i)
  <2>1. i < m /\ i \in 1..n /\ m - 1 \in i..n /\ m \in i..n
    BY <1>2, <1>4, <1>7
  <2>2. t[m - 1] # t[m]
    BY <1>3, <2>1 DEF RunStarts
  <2>3. \E x \in i..n: t[x] # t[i]
    BY <2>1, <2>2
  <2>. QED BY <1>1, <2>3, LengthAppended
<1>8. /\ RunStart(R, c) = m
      /\ \A k \in 1..c: RunStart(R, k) \in R /\ (RunStart(R, k) = m => k = c)
  BY <1>2, <1>4, LastInNumber, StartHasRank
<1>9. c # 0
  BY <1>2, <1>3, FS_EmptySet
<1>10. WellRun(u)
  <2>1. \A x \in m..Len(u): u[x] = u[Len(u)]
    <3>1. ASSUME NEW x \in m..Len(u) PROVE u[x] = u[Len(u)]
      <4>1. x = n + 1 \/ (x \in m..n /\ x \in 1..n)
        BY <1>1, <1>4
      <4>. QED BY <1>1, <1>4, <4>1
    <3>. QED BY <3>1
  <2>2. LastRun(u, m)
    BY <1>4, <1>5, <2>1 DEF LastRun
  <2>. QED BY <1>1, <1>2, <1>5, <2>2 DEF WellRun
<1>11. /\ RunLengths(u) = [RunLengths(t) EXCEPT ![c] = @ + d]
       /\ RunLengths(t)[c] = d * RunLength(t, m) /\ Len(RunLengths(t)) = c
  <2>. DEFINE f == RunLengths(t)
              g == RunLengths(u)
  <2>1. /\ f = [k \in 1..c |-> t[RunStart(R, k)] * RunLength(t, RunStart(R, k))]
        /\ f \in Seq(Int) /\ Len(f) = c
    BY LengthsType
  <2>2. g = [k \in 1..c |-> u[RunStart(R, k)] * RunLength(u, RunStart(R, k))]
    BY <1>5, <1>10, LengthsType
  <2>3. ASSUME NEW k \in 1..c, k # c PROVE g[k] = f[k]
    <3>1. /\ RunStart(R, k) \in R /\ RunStart(R, k) # m /\ u[RunStart(R, k)] = t[RunStart(R, k)]
          /\ RunLength(u, RunStart(R, k)) = RunLength(t, RunStart(R, k))
      BY <1>1, <1>2, <1>7, <1>8, <2>3
    <3>. HIDE DEF u, R, c, f, g
    <3>. QED BY <2>1, <2>2, <3>1
  <2>4. f[c] = d * RunLength(t, m) /\ g[c] = f[c] + d
    <3>1. c \in 1..c /\ u[m] = d
      BY <1>1, <1>2, <1>4, <1>6, <1>9
    <3>2. f[c] = d * RunLength(t, m) /\ g[c] = d * (RunLength(t, m) + 1)
      <4>. HIDE DEF u, R, c, f, g
      <4>. QED BY <1>6, <1>8, <2>1, <2>2, <3>1
    <3>3. RunLength(t, m) \in Nat /\ d \in {-1, 1}
      BY <1>2 DEF Detents
    <3>4. d * (RunLength(t, m) + 1) = d * RunLength(t, m) + d
      BY <3>3
    <3>. QED BY <3>2, <3>4
  <2>5. g = [f EXCEPT ![c] = @ + d]
    <3>. HIDE DEF u, R, c, f, g
    <3>. QED BY <2>1, <2>2, <2>3, <2>4
  <2>. QED BY <2>1, <2>4, <2>5
<1>12. TicksFit(u) <=> TicksFit(t) /\ RunLength(t, m) + 1 <= MaxTicks
  BY <1>2, <1>5, <1>6, <1>7, SequenceAssumption DEF TicksFit
<1>. QED BY <1>1, <1>2, <1>5, <1>9, <1>10, <1>11, <1>12

\* What does not fit does not fit when more is typed.
LEMMA MisfitStays ==
    ASSUME NEW t, WellRun(t), NEW step \in Steps, ~Fits(t)
    PROVE  ~Fits(Append(t, step))
<1>. DEFINE u == Append(t, step)
<1>1. t \in Seq(Steps) /\ u \in Seq(Steps)
  BY DEF WellRun
<1>2. RunStarts(t) \subseteq RunStarts(u)
  BY <1>1, StartsAppended
<1>3. /\ Cardinality(RunStarts(t)) <= Cardinality(RunStarts(u))
      /\ Cardinality(RunStarts(t)) \in Nat /\ Cardinality(RunStarts(u)) \in Nat
  BY <1>1, <1>2, RunsType, FS_Subset
<1>4. \A i \in RunStarts(t): /\ RunLength(t, i) <= RunLength(u, i)
                             /\ RunLength(t, i) \in Nat /\ RunLength(u, i) \in Nat
  BY <1>1, <1>2, LengthAppended, RunsType
<1>. QED BY <1>2, <1>3, <1>4, SequenceAssumption DEF Fits

-----------------------------------------------------------------------------
\* What the entry knows of what was typed: it is overflowed only by what does not fit, and
\* otherwise holds every finished run and the count of the one that goes on.
Tells(e, t) ==
    IF e.dir = 0 THEN RunLengths(t) = e.segs /\ (t = <<>> \/ t[Len(t)] = Press)
    ELSE /\ t # <<>> /\ t[Len(t)] = e.dir
         /\ RunLengths(t) = Append(e.segs, e.dir * e.ticks)

Keeps(e, t) ==
    /\ WellRun(t)
    /\ e.active <=> RunStarts(t) # {}
    /\ IF e.overflow THEN ~Fits(t) ELSE TicksFit(t) /\ Tells(e, t)

\* What does not fit is something.
LEMMA MisfitBegan == ASSUME NEW t, WellRun(t), ~Fits(t) PROVE RunStarts(t) # {}
BY FS_EmptySet, SequenceAssumption DEF Fits

\* commit_segment of the segment that runs: it is the last run, or there was no place for it.
LEMMA CommitTells ==
    ASSUME NEW e \in Entries, Shape(e), NEW t, Keeps(e, t), e.dir # 0
    PROVE  LET f == CommitSegment(e) IN
           /\ f.active = e.active
           /\ f.overflow => ~Fits(t)
           /\ ~f.overflow => /\ ~e.overflow /\ f.dir = 0 /\ f.ticks = 0
                             /\ RunLengths(t) = f.segs
<1>. DEFINE r == e.dir * e.ticks
<1>0. /\ e.dir \in Detents /\ e.ticks # 0 /\ e.ticks \in 0..(MaxTicks + 1)
      /\ e.segs \in Seq(Segments) /\ e.overflow \in BOOLEAN
      /\ MaxSegments \in Nat /\ Len(e.segs) \in Nat
  BY SequenceAssumption DEF Entries, Shape
<1>1. CASE Len(e.segs) >= MaxSegments \/ e.ticks > MaxTicks
  <2>1. CommitSegment(e) = [e EXCEPT !.overflow = TRUE]
    BY <1>0, <1>1 DEF CommitSegment
  <2>2. CommitSegment(e).overflow /\ CommitSegment(e).active = e.active
    BY <2>1 DEF Entries
  <2>3. ~Fits(t)
    <3>1. CASE e.overflow
      BY <3>1 DEF Keeps
    <3>2. CASE ~e.overflow
      <4>1. RunLengths(t) = Append(e.segs, r) /\ Len(e.segs) >= MaxSegments
        BY <1>0, <1>1, <3>2 DEF Keeps, Tells, Shape
      <4>2. r \in Int
        BY <1>0 DEF Detents
      <4>. HIDE DEF r
      <4>3. Len(Append(e.segs, r)) = Len(e.segs) + 1
        BY <1>0
      <4>4. Cardinality(RunStarts(t)) = Len(e.segs) + 1
        BY <4>1, <4>3, LengthsType DEF Keeps
      <4>. QED BY <1>0, <4>1, <4>4 DEF Fits
    <3>. QED BY <3>1, <3>2
  <2>. QED BY <2>2, <2>3
<1>2. CASE ~(Len(e.segs) >= MaxSegments \/ e.ticks > MaxTicks)
  <2>1. CommitSegment(e) = [e EXCEPT !.segs = Append(e.segs, r), !.ticks = 0, !.dir = 0]
    BY <1>0, <1>2 DEF CommitSegment
  <2>. HIDE DEF r
  <2>2. /\ CommitSegment(e).active = e.active /\ CommitSegment(e).overflow = e.overflow
        /\ CommitSegment(e).dir = 0 /\ CommitSegment(e).ticks = 0
        /\ CommitSegment(e).segs = Append(e.segs, r)
    BY <2>1 DEF Entries
  <2>3. e.overflow => ~Fits(t)
    BY DEF Keeps
  <2>4. ~e.overflow => RunLengths(t) = Append(e.segs, r)
    BY DEF Keeps, Tells, r
  <2>. QED BY <2>2, <2>3, <2>4
<1>. QED BY <1>1, <1>2

\* A detent counted after no running segment begins one.
LEMMA CountBegins ==
    ASSUME NEW e \in Entries, Shape(e), NEW t, WellRun(t), NEW d \in Detents,
           t = <<>> \/ t[Len(t)] # d,
           e.overflow => ~Fits(t),
           ~e.overflow => e.dir = 0 /\ e.ticks = 0 /\ TicksFit(t) /\ RunLengths(t) = e.segs
    PROVE  Keeps(CountTick(e, d), Append(t, d))
<1>. DEFINE u == Append(t, d)
            n == IF e.ticks > MaxTicks THEN e.ticks ELSE e.ticks + 1
            o == e.overflow \/ e.ticks + 1 > MaxTicks
            f == CountTick(e, d)
<1>1. /\ WellRun(u) /\ u # <<>> /\ u[Len(u)] = d /\ RunStarts(u) # {}
      /\ RunLengths(u) = Append(RunLengths(t), d) /\ (TicksFit(u) <=> TicksFit(t))
  BY DetentBegins
<1>2. f = [e EXCEPT !.active = TRUE, !.dir = d, !.ticks = n, !.overflow = o]
  BY DEF CountTick, Entries
<1>3. e.overflow \in BOOLEAN /\ MaxTicks \in Nat \ {0}
  BY SequenceAssumption DEF Entries
<1>4. o \in BOOLEAN /\ (e.overflow => o) /\ (~e.overflow => ~o /\ n = 1)
  BY <1>3
<1>. HIDE DEF n, o
<1>5. /\ f.active = TRUE /\ f.dir = d /\ f.ticks = n /\ f.overflow = o /\ f.segs = e.segs
  BY <1>2 DEF Entries
<1>. HIDE DEF f, u
<1>6. CASE e.overflow
  <2>1. ~Fits(u)
    BY <1>6, MisfitStays DEF u, Steps
  <2>. QED BY <1>1, <1>4, <1>5, <1>6, <2>1 DEF Keeps, u, f
<1>7. CASE ~e.overflow
  <2>1. d # 0 /\ d * 1 = d
    BY DEF Detents
  <2>2. Tells(f, u)
    BY <1>1, <1>4, <1>5, <1>7, <2>1 DEF Tells
  <2>. QED BY <1>1, <1>4, <1>5, <1>7, <2>2 DEF Keeps, u, f
<1>. QED BY <1>3, <1>6, <1>7

\* Adding to the last element of a sequence.
AddedToLast(r, d) == [r EXCEPT ![Len(r)] = @ + d]

\* It replaces what was appended last.
LEMMA LastGrows ==
    ASSUME NEW s \in Seq(Int), NEW y \in Int, NEW d \in Int
    PROVE  AddedToLast(Append(s, y), d) = Append(s, y + d)
<1>. DEFINE r == Append(s, y)
            k == Len(s) + 1
            a == Append(s, y + d)
            b == [r EXCEPT ![k] = r[k] + d]
<1>1. y + d \in Int /\ Len(s) \in Nat
  OBVIOUS
<1>2. /\ r \in Seq(Int) /\ Len(r) = k /\ r[k] = y /\ \A i \in 1..Len(s): r[i] = s[i]
      /\ a \in Seq(Int) /\ Len(a) = k /\ a[k] = y + d /\ \A i \in 1..Len(s): a[i] = s[i]
  BY <1>1, AppendProperties
<1>3. /\ b \in Seq(Int) /\ Len(b) = k
      /\ \A i \in 1..k: b[i] = IF i = k THEN y + d ELSE r[i]
  <2>. HIDE DEF r
  <2>1. k \in 1..Len(r) /\ r[k] + d = y + d
    BY <1>1, <1>2
  <2>. QED BY <1>1, <1>2, <2>1, ExceptSeq
<1>. HIDE DEF a, b, r
<1>4. ASSUME NEW i \in 1..k PROVE a[i] = b[i]
  <2>1. CASE i = k
    BY <1>2, <1>3, <2>1
  <2>2. CASE i # k
    <3>1. i \in 1..Len(s)
      BY <1>1, <2>2
    <3>. QED BY <1>2, <1>3, <2>2, <3>1
  <2>. QED BY <2>1, <2>2
<1>5. a = b
  BY <1>2, <1>3, <1>4, SeqEqual
<1>6. AddedToLast(r, d) = b
  BY <1>2 DEF AddedToLast, b
<1>. QED BY <1>5, <1>6 DEF a, r

\* A detent in the direction of the running segment is counted to it.
LEMMA CountContinues ==
    ASSUME NEW e \in Entries, Shape(e), NEW t, Keeps(e, t), NEW d \in Detents, e.dir = d
    PROVE  Keeps(CountTick(e, d), Append(t, d))
<1>. DEFINE u == Append(t, d)
            n == IF e.ticks > MaxTicks THEN e.ticks ELSE e.ticks + 1
            o == e.overflow \/ e.ticks + 1 > MaxTicks
            f == CountTick(e, d)
<1>1. f = [e EXCEPT !.active = TRUE, !.dir = d, !.ticks = n, !.overflow = o]
  BY DEF CountTick, Entries
<1>2. /\ e.overflow \in BOOLEAN /\ MaxTicks \in Nat \ {0} /\ e.ticks \in Nat
      /\ d \in {-1, 1} /\ d # 0 /\ e.segs \in Seq(Segments) /\ d \in Steps
  BY SequenceAssumption DEF Entries, Detents, Steps
<1>3. /\ o \in BOOLEAN /\ (e.overflow => o)
      /\ ~e.overflow => n = e.ticks + 1 /\ (o <=> n > MaxTicks)
  BY <1>2 DEF Shape
<1>. HIDE DEF n, o
<1>4. /\ f.active = TRUE /\ f.dir = d /\ f.ticks = n /\ f.overflow = o /\ f.segs = e.segs
  BY <1>1 DEF Entries
<1>. HIDE DEF f, u
<1>5. CASE e.overflow
  <2>1. ~Fits(t) /\ WellRun(t)
    BY <1>5 DEF Keeps
  <2>2. ~Fits(u)
    BY <1>2, <2>1, MisfitStays DEF u
  <2>3. WellRun(u) /\ RunStarts(u) # {}
    <3>1. WellRun(u)
      BY <1>2, <2>1, DetentBegins, DetentContinues DEF u
    <3>. QED BY <2>2, <3>1, MisfitBegan
  <2>. QED BY <1>3, <1>4, <1>5, <2>2, <2>3 DEF Keeps, u, f
<1>6. CASE ~e.overflow
  <2>1. /\ WellRun(t) /\ TicksFit(t) /\ t # <<>> /\ t[Len(t)] = d
        /\ RunLengths(t) = Append(e.segs, d * e.ticks)
    BY <1>2, <1>6 DEF Keeps, Tells
  <2>. DEFINE r == RunLengths(t)
              c == Len(r)
  <2>2. /\ WellRun(u) /\ u # <<>> /\ u[Len(u)] = d /\ RunStarts(u) # {}
        /\ RunLengths(u) = [r EXCEPT ![c] = @ + d]
    BY <2>1, DetentContinues DEF u
  <2>3. PICK x \in Nat: r[c] = d * x /\ (TicksFit(u) <=> TicksFit(t) /\ x + 1 <= MaxTicks)
    BY <2>1, DetentContinues DEF u
  <2>4. d * e.ticks \in Int /\ d * n = d * e.ticks + d
    BY <1>2, <1>3, <1>6
  <2>5. c = Len(e.segs) + 1 /\ r[c] = d * e.ticks
    <3>. DEFINE y == d * e.ticks
    <3>1. r = Append(e.segs, y)
      BY <2>1
    <3>. HIDE DEF y, r
    <3>2. c = Len(e.segs) + 1 /\ r[c] = y
      BY <1>2, <3>1
    <3>. QED BY <3>2 DEF y
  <2>6. x = e.ticks
    BY <1>2, <2>3, <2>5
  <2>7. RunLengths(u) = Append(e.segs, d * n)
    <3>. DEFINE y == d * e.ticks
                z == d * n
    <3>1. r = Append(e.segs, y) /\ z = y + d
      BY <2>1, <2>4
    <3>. HIDE DEF y, z, r
    <3>2. e.segs \in Seq(Int)
      <4>1. Segments \subseteq Int
        BY <1>2 DEF Segments, Detents
      <4>. QED BY <1>2, <4>1, SeqMonotonic
    <3>3. y \in Int /\ d \in Int /\ c = Len(e.segs) + 1
      BY <1>2, <2>4, <2>5 DEF y
    <3>4. AddedToLast(r, d) = Append(e.segs, z)
      BY <3>1, <3>2, <3>3, LastGrows
    <3>. QED BY <2>2, <3>4 DEF r, z, AddedToLast
  <2>8. TicksFit(u) <=> ~o
    BY <1>2, <1>3, <1>6, <2>1, <2>3, <2>6
  <2>9. CASE o
    <3>1. ~Fits(u)
      BY <2>8, <2>9 DEF Fits, TicksFit
    <3>. QED BY <1>4, <2>2, <2>9, <3>1 DEF Keeps, u, f
  <2>10. CASE ~o
    <3>1. Tells(f, u)
      BY <1>2, <1>4, <2>2, <2>7 DEF Tells
    <3>. QED BY <1>3, <1>4, <2>2, <2>8, <2>10, <3>1 DEF Keeps, u, f
  <2>. QED BY <1>3, <2>9, <2>10
<1>. QED BY <1>2, <1>5, <1>6

\* Every input keeps the entry in step with what was typed.
LEMMA StepKeeps ==
    ASSUME NEW e \in Entries, Shape(e), NEW t, Keeps(e, t), NEW step \in Steps
    PROVE  Keeps(EnterStep(e, step), Append(t, step))
<1>. DEFINE u == Append(t, step)
<1>0. /\ WellRun(t) /\ e.overflow \in BOOLEAN /\ e.active \in BOOLEAN
      /\ e.dir \in Detents \cup {0} /\ (e.dir = 0 <=> e.ticks = 0)
      /\ e.overflow => ~Fits(t)
      /\ ~e.overflow => TicksFit(t) /\ Tells(e, t)
  BY DEF Keeps, Entries, Shape
<1>1. CASE step = Press
  <2>1. /\ WellRun(u) /\ u # <<>> /\ u[Len(u)] = Press
        /\ RunStarts(u) = RunStarts(t) /\ RunLengths(u) = RunLengths(t)
        /\ TicksFit(u) <=> TicksFit(t)
    BY <1>0, <1>1, PressEndsRun
  <2>2. ~Fits(t) => ~Fits(u)
    BY <1>0, MisfitStays
  <2>. HIDE DEF u
  <2>3. CASE ~e.active \/ e.dir = 0
    <3>1. EnterStep(e, step) = e
      BY <1>1, <2>3 DEF EnterStep, PressEntry, CommitSegment
    <3>2. ~e.overflow => e.dir = 0 /\ RunLengths(t) = e.segs
      <4>1. ASSUME ~e.overflow, e.dir # 0 PROVE FALSE
        <5>1. RunStarts(t) = {} /\ RunLengths(t) = Append(e.segs, e.dir * e.ticks)
          BY <1>0, <2>3, <4>1 DEF Keeps, Tells
        <5>2. Len(RunLengths(t)) = 0 /\ e.segs \in Seq(Segments)
          BY <1>0, <5>1, LengthsType, FS_EmptySet DEF Entries
        <5>. QED BY <5>1, <5>2
      <4>. QED BY <1>0, <4>1 DEF Tells
    <3>3. ~e.overflow => TicksFit(u) /\ Tells(e, u)
      BY <1>0, <2>1, <3>2 DEF Tells
    <3>4. Keeps(e, u)
      BY <1>0, <2>1, <2>2, <3>3 DEF Keeps
    <3>. QED BY <3>1, <3>4 DEF u
  <2>4. CASE e.active /\ e.dir # 0
    <3>. DEFINE f == CommitSegment(e)
    <3>1. EnterStep(e, step) = f
      BY <1>1, <2>4 DEF EnterStep, PressEntry
    <3>2. /\ f.active = e.active /\ (f.overflow => ~Fits(t))
          /\ ~f.overflow => ~e.overflow /\ f.dir = 0 /\ f.ticks = 0 /\ RunLengths(t) = f.segs
      BY <2>4, CommitTells
    <3>3. f.overflow \in BOOLEAN
      BY CommitType DEF Entries
    <3>. HIDE DEF f
    <3>4. ~f.overflow => TicksFit(u) /\ Tells(f, u)
      BY <1>0, <2>1, <3>2 DEF Tells
    <3>5. Keeps(f, u)
      <4>1. f.active <=> RunStarts(u) # {}
        BY <2>1, <3>2 DEF Keeps
      <4>. QED BY <2>1, <2>2, <3>2, <3>3, <3>4, <4>1 DEF Keeps
    <3>. QED BY <3>1, <3>5 DEF u
  <2>. QED BY <1>0, <2>3, <2>4
<1>2. CASE step # Press
  <2>0. step \in Detents /\ step # 0
    BY <1>2 DEF Steps, Detents
  <2>1. CASE e.dir = 0
    <3>1. EnterStep(e, step) = CountTick(e, step)
      BY <1>2, <2>1 DEF EnterStep, RotateEntry
    <3>2. CASE e.overflow
      <4>1. CASE t # <<>> /\ t[Len(t)] = step
        <5>1. WellRun(u) /\ RunStarts(u) # {} /\ ~Fits(u)
          BY <1>0, <2>0, <3>2, <4>1, DetentContinues, MisfitStays
        <5>2. CountTick(e, step).overflow /\ CountTick(e, step).active = TRUE
          BY <3>2 DEF CountTick, Entries
        <5>. QED BY <3>1, <5>1, <5>2 DEF Keeps
      <4>2. CASE ~(t # <<>> /\ t[Len(t)] = step)
        BY <1>0, <2>0, <3>1, <3>2, <4>2, CountBegins
      <4>. QED BY <4>1, <4>2
    <3>3. CASE ~e.overflow
      <4>1. RunLengths(t) = e.segs /\ (t = <<>> \/ t[Len(t)] # step)
        BY <1>0, <1>2, <2>1, <3>3 DEF Tells
      <4>. QED BY <1>0, <2>0, <2>1, <3>1, <3>3, <4>1, CountBegins
    <3>. QED BY <1>0, <3>2, <3>3
  <2>2. CASE e.dir = step
    <3>1. EnterStep(e, step) = CountTick(e, step)
      BY <1>2, <2>2 DEF EnterStep, RotateEntry
    <3>. QED BY <2>0, <2>2, <3>1, CountContinues
  <2>3. CASE e.dir # 0 /\ e.dir # step
    <3>. DEFINE f == CommitSegment(e)
    <3>1. EnterStep(e, step) = CountTick(f, step)
      BY <1>2, <2>3 DEF EnterStep, RotateEntry
    <3>2. /\ f.overflow => ~Fits(t)
          /\ ~f.overflow => ~e.overflow /\ f.dir = 0 /\ f.ticks = 0 /\ RunLengths(t) = f.segs
      BY <2>3, CommitTells
    <3>3. f \in Entries /\ Shape(f) /\ f.overflow \in BOOLEAN
      BY CommitType, CommitShape DEF Entries
    <3>. HIDE DEF f
    <3>4. CASE t = <<>> \/ t[Len(t)] # step
      <4>1. ~f.overflow => f.dir = 0 /\ f.ticks = 0 /\ TicksFit(t) /\ RunLengths(t) = f.segs
        BY <1>0, <3>2
      <4>. QED BY <1>0, <2>0, <3>1, <3>2, <3>3, <3>4, <4>1, CountBegins
    <3>5. CASE t # <<>> /\ t[Len(t)] = step
      <4>1. e.overflow
        BY <1>0, <2>3, <3>5 DEF Tells
      <4>2. f.overflow
        BY <3>2, <4>1
      <4>3. WellRun(u) /\ RunStarts(u) # {} /\ ~Fits(u)
        BY <1>0, <2>0, <3>5, <4>1, DetentContinues, MisfitStays
      <4>4. CountTick(f, step).overflow /\ CountTick(f, step).active = TRUE
        BY <3>3, <4>2 DEF CountTick, Entries
      <4>. QED BY <3>1, <4>3, <4>4 DEF Keeps
    <3>. QED BY <3>4, <3>5
  <2>. QED BY <1>0, <2>1, <2>2, <2>3
<1>. QED BY <1>1, <1>2

\* What the entry would be finalized to is what was typed.
LEMMA KeptIsTyped ==
    ASSUME NEW e \in Entries, Shape(e), NEW t, Keeps(e, t)
    PROVE  IF Fits(t) THEN Finalized(e) = RunLengths(t) /\ ~Overflowed(e)
           ELSE Finalized(e) = <<>> /\ Overflowed(e)
<1>. DEFINE f == CommitSegment(e)
<1>0. /\ WellRun(t) /\ e.overflow \in BOOLEAN /\ e.active \in BOOLEAN
      /\ e.dir \in Detents \cup {0} /\ (e.dir = 0 <=> e.ticks = 0) /\ e.ticks \in Nat
      /\ e.segs \in Seq(Segments) /\ Len(e.segs) <= MaxSegments /\ MaxSegments \in Nat
      /\ e.active <=> RunStarts(t) # {}
      /\ MaxTicks \in Nat
  BY SequenceAssumption DEF Keeps, Entries, Shape
<1>1. CASE e.overflow
  <2>1. ~Fits(t) /\ e.active
    BY <1>0, <1>1, MisfitBegan DEF Keeps
  <2>2. f.overflow
    BY <1>0, <1>1, CommitTells DEF CommitSegment
  <2>. QED BY <1>1, <2>1, <2>2 DEF Finalized, Overflowed
<1>2. CASE ~e.overflow /\ e.dir = 0
  <2>1. RunLengths(t) = e.segs /\ TicksFit(t) /\ f = e
    BY <1>2 DEF Keeps, Tells, CommitSegment
  <2>2. Fits(t)
    BY <1>0, <2>1, LengthsType DEF Fits, TicksFit
  <2>3. ~e.active => e.segs = <<>>
    <3>1. ~e.active => Len(RunLengths(t)) = 0
      BY <1>0, LengthsType, FS_EmptySet
    <3>. QED BY <1>0, <2>1, <3>1
  <2>. QED BY <1>0, <1>2, <2>1, <2>2, <2>3 DEF Finalized, Overflowed
<1>3. CASE ~e.overflow /\ e.dir # 0
  <2>. DEFINE r == e.dir * e.ticks
  <2>1. RunLengths(t) = Append(e.segs, r) /\ TicksFit(t)
    BY <1>3 DEF Keeps, Tells
  <2>. HIDE DEF r
  <2>2. Cardinality(RunStarts(t)) = Len(e.segs) + 1 /\ Len(e.segs) \in Nat
    BY <1>0, <2>1, LengthsType
  <2>3. e.active
    <3>1. Cardinality(RunStarts(t)) # 0
      BY <2>2
    <3>2. RunStarts(t) # {}
      BY <3>1, FS_EmptySet
    <3>. QED BY <1>0, <3>2
  <2>4. Fits(t) <=> Len(e.segs) < MaxSegments
    BY <1>0, <2>1, <2>2 DEF Fits, TicksFit
  <2>5. e.ticks <= MaxTicks /\ e.ticks # 0
    BY <1>0, <1>3 DEF Shape
  <2>6. CASE Len(e.segs) < MaxSegments
    <3>1. f = [e EXCEPT !.segs = Append(e.segs, r), !.ticks = 0, !.dir = 0]
      BY <1>0, <1>3, <2>5, <2>6 DEF CommitSegment, r
    <3>2. f.segs = Append(e.segs, r) /\ f.overflow = e.overflow
      BY <3>1 DEF Entries
    <3>. QED BY <1>0, <1>3, <2>1, <2>3, <2>4, <2>6, <3>2 DEF Finalized, Overflowed
  <2>7. CASE Len(e.segs) >= MaxSegments
    <3>1. f = [e EXCEPT !.overflow = TRUE]
      BY <1>0, <1>3, <2>5, <2>7 DEF CommitSegment
    <3>2. f.overflow
      BY <3>1 DEF Entries
    <3>. QED BY <1>0, <1>3, <2>2, <2>3, <2>4, <2>5, <2>7, <3>2 DEF Finalized, Overflowed
  <2>. QED BY <1>0, <2>2, <2>6, <2>7
<1>. QED BY <1>0, <1>1, <1>2, <1>3

\* Every step leaves, ends or extends the attempt together with what was typed.
LEMMA KeepsStep ==
    TypeOK /\ Shape(entry) /\ Keeps(entry, typed) /\ [Next]_vars => Keeps(entry, typed)'
<1>. SUFFICES ASSUME TypeOK, Shape(entry), Keeps(entry, typed), [Next]_vars
              PROVE  Keeps(entry', typed')
  BY DEF Keeps, Tells, TicksFit, WellRun, LastRun
<1>1. \/ UNCHANGED <<entry, typed>>
      \/ entry' = NewEntry /\ typed' = <<>>
      \/ \E step \in Steps: entry' = EnterStep(entry, step) /\ typed' = Append(typed, step)
  BY DEF Next, vars, privVars, history, InputIgnored, Input, TimerExpires, JobDropped,
         OnTimeout, EndAttempt, SetEntry, Reload, Tick
<1>2. Keeps(NewEntry, <<>>)
  BY NoRuns DEF Keeps, Tells, NewEntry
<1>3. entry \in Entries
  BY DEF TypeOK
<1>. QED BY <1>1, <1>2, <1>3, StepKeeps

\* What a pause finalizes is what the user dialled, for every sequence of inputs, every
\* number of segments and every length of them: no press, change of direction or full segment
\* loses, merges or splits a run, and what does not fit is refused as a whole.
THEOREM AttemptsAreTyped == Spec => []AttemptIsWhatWasTyped
<1>1. Init => Shape(entry) /\ Keeps(entry, typed)
  BY NewEntryType, NoRuns DEF Init, Keeps, Tells, NewEntry
<1>2. TypeOK /\ Shape(entry) /\ Keeps(entry, typed) => AttemptIsWhatWasTyped
  BY KeptIsTyped DEF TypeOK, AttemptIsWhatWasTyped
<1>3. TypeOK /\ Shape(entry) /\ Keeps(entry, typed) /\ [Next]_vars
          => Shape(entry)' /\ Keeps(entry, typed)'
  BY ShapeStep, KeepsStep
<1>. QED BY <1>1, <1>2, <1>3, TypeCorrect, PTL DEF Spec

-----------------------------------------------------------------------------
(* The endpoint store.                                                       *)

Places == {"idle", "purge", "copy"} \cup Storing
Caller == [at : Places, slot : Slots \cup {0}, record : Record, purging : BOOLEAN]
Job == [ep : Record, attempt : 1..2]
Runner == [at : {"none", "fire", "done"}, slots : SUBSET Slots, sent : Seq(Slots),
           names : UNION {[S -> Names \cup {None}] : S \in SUBSET Slots}]

TypeInv ==
    /\ table \in [Slots -> Record] /\ nvs \in [Slots -> Record]
    /\ bonds \subseteq Peers /\ enabled \in BOOLEAN
    /\ pc \in [Callers -> Caller]
    /\ chain \in Runner
    /\ workers \subseteq Job /\ IsFiniteSet(workers) /\ Cardinality(workers) <= MaxJobs
    /\ raced \in SUBSET Slots /\ stale \in SUBSET Slots /\ touched \in SUBSET Slots

\* A record fits a slot: that of a webhook or of a listener, or nothing at all.
RecordFits(r, s) == IF r.used THEN (r.peer = None <=> s \in User) ELSE r = Empty

Stores(c, s) == pc[c].at \in Storing /\ pc[c].slot = s

\* What the callers have in hand, and the table, fit their slots.
Fitting ==
    /\ \A s \in Slots : RecordFits(table[s], s)
    /\ \A c \in Callers :
           /\ pc[c].at \in Storing => pc[c].slot \in Slots /\ RecordFits(pc[c].record, pc[c].slot)
           /\ pc[c].at = "copy" => pc[c].slot \in Slots
           /\ pc[c].at = "fill" => pc[c].record.used

\* Two that store one slot were seen; one alone knows what it stores.
OneStores ==
    /\ \A c, d \in Callers : \A s \in Slots :
           Stores(c, s) /\ Stores(d, s) /\ c # d => s \in raced
    /\ \A c \in Callers :
           pc[c].at = "erase" /\ pc[c].slot \notin raced => table[pc[c].slot] = Empty

\* A slot that nobody stores is stored.
Stored ==
    \A s \in Slots \ (raced \cup stale) :
        (\A c \in Callers : ~Stores(c, s)) => nvs[s] = table[s]

Alone(s) == \A t \in Slots : table[t].used /\ table[t].name = table[s].name => t = s

\* What a chain relies on for the slots that were left alone.
ChainRuns ==
    /\ \A c \in Callers : pc[c].at = "fill" => pc[c].slot \in touched
    /\ chain.at = "fire" =>
           /\ Pending # {}
           /\ enabled \/ Slots \subseteq touched
           /\ \A s \in Slots \ touched : table[s].used => s \in chain.slots
           /\ \A s \in chain.slots \ touched : table[s].used /\ Alone(s)
           /\ \A s \in Pending \ touched : chain.names[s] = table[s].name
           /\ \A s \in chain.slots \ touched : \A u \in Pending :
                  chain.names[u] = table[s].name => u = s

\* It has sent to those that are behind it.
Behind == chain.slots \ Pending
Ascending(q, S) == \A i, j \in DOMAIN q : i < j /\ q[i] \in S /\ q[j] \in S => q[i] < q[j]
ChainSent ==
    /\ Pending \subseteq chain.slots
    /\ chain.at # "fire" => Pending = {}
    /\ \A t \in Behind : \A u \in Pending : t < u
    /\ SentTo \ touched = Behind \ touched
    /\ Ascending(chain.sent, Slots \ touched)

ApiInv == TypeInv /\ Fitting /\ OneStores /\ Stored /\ ChainRuns /\ ChainSent

-----------------------------------------------------------------------------
(* Slots and records.                                                      *)

\* A set of numbers up to a bound has a least one, by minimal sets.
LEMMA LeastIn ==
    ASSUME NEW n \in Nat, NEW S \in SUBSET (0 .. n), S # {}
    PROVE  \E s \in S : \A t \in S : s <= t
  <1> DEFINE Below(s) == {t \in 0 .. n : t <= s}
             F == {Below(s) : s \in S}
             R == StrictSubsetOrdering(0 .. n)
             FS == FiniteSubsetsOf(0 .. n)
  <1>1. IsFiniteSet(0 .. n)
    BY FS_Interval
  <1>2. IsWellFoundedOn(R, FS)
    BY <1>1, FS_StrictSubsetOrderingWellFounded
  <1>3. F \subseteq FS
    BY <1>1, FS_Subset DEF FiniteSubsetsOf
  <1>4. F # {}
    OBVIOUS
  <1> HIDE DEF F, R, FS
  <1>5. PICK X \in F : \A Y \in F : ~ (<<Y, X>> \in R)
    BY <1>2, <1>3, <1>4, WFMin
  <1>6. PICK s \in S : X = Below(s)
    BY DEF F
  <1>7. ASSUME NEW t \in S, t < s
        PROVE  FALSE
    <2>1. Below(t) \in F
      BY DEF F
    <2>2. Below(t) \subseteq Below(s) /\ Below(t) # Below(s)
      <3>1. s \in Below(s) /\ s \notin Below(t)
        BY <1>7
      <3>2. Below(t) \subseteq Below(s)
        BY <1>7
      <3> QED BY <3>1, <3>2
    <2>3. <<Below(t), Below(s)>> \in R
      BY <2>2 DEF R, StrictSubsetOrdering
    <2> QED BY <1>5, <1>6, <2>1, <2>3
  <1> QED BY <1>7

\* Slots are numbers, those of the users apart from those of the system.
LEMMA SlotsAreNumbers ==
    /\ Slots \subseteq 0..(UserSlots + SystemSlots) /\ Slots \subseteq Nat
    /\ UserSlots + SystemSlots \in Nat
    /\ \A s \in Slots : s \in System <=> s \notin User
    /\ User \subseteq Slots /\ System \subseteq Slots
    /\ IsFiniteSet(Slots)
    /\ 0 \notin Slots
  <1>1. /\ Slots \subseteq 0..(UserSlots + SystemSlots) /\ UserSlots + SystemSlots \in Nat
        /\ Slots \subseteq Nat /\ 0 \notin Slots
    BY EndpointAssumption DEF Slots, User, System
  <1>2. \A s \in Slots : s \in System <=> s \notin User
    BY EndpointAssumption DEF Slots, User, System
  <1>3. IsFiniteSet(Slots)
    <2>1. IsFiniteSet(0..(UserSlots + SystemSlots))
      BY <1>1, FS_Interval
    <2> QED BY <1>1, <2>1, FS_Subset
  <1> QED BY <1>1, <1>2, <1>3 DEF Slots

\* First takes the least of some slots.
LEMMA FirstIsLeast ==
    ASSUME NEW S \in SUBSET Slots, S # {}
    PROVE  /\ First(S) \in S
           /\ \A t \in S : First(S) <= t
  <1>1. \E s \in S : \A t \in S : s <= t
    BY SlotsAreNumbers, LeastIn
  <1> QED BY <1>1 DEF First

\* The slot found is in the first set unless that is empty.
LEMMA FirstOrIn ==
    ASSUME NEW S \in SUBSET Slots, NEW T \in SUBSET Slots, NEW s \in FirstOr(S, T)
    PROVE  s \in Slots /\ (S # {} => s \in S) /\ (S = {} => s \in T)
  BY FirstIsLeast DEF FirstOr

\* The only candidate is the first.
LEMMA FirstOfOne ==
    ASSUME NEW s \in Slots
    PROVE  FirstOr({s}, {}) = {s} /\ (\A T : FirstOr({s}, T) = {s}) /\ FirstOr({}, {s}) = {s}
  <1>1. First({s}) \in {s}
    BY FirstIsLeast
  <1> QED BY <1>1 DEF FirstOr

\* The empty record.
LEMMA EmptyRecord == Empty \in Record /\ ~Empty.used /\ Empty.peer = None
  BY DEF Empty, Record, Types, Schemes

\* What add makes of a configuration, or of a listener, fits its kind of slot.
LEMMA HeldFits ==
    /\ \A conf \in Configs : /\ Held(conf, None) \in Record /\ Held(conf, None).used
                             /\ Held(conf, None).peer = None
    /\ \A p \in Peers : /\ Held(Listener(p), p) \in Record /\ Held(Listener(p), p).used
                        /\ Held(Listener(p), p).peer = p /\ p # None
  <1>1. ASSUME NEW conf \in Configs
        PROVE  Held(conf, None) \in Record /\ Held(conf, None).used /\ Held(conf, None).peer = None
    <2>1. conf.name \in Names /\ conf.url \in Urls /\ conf.token \in {c.token : c \in Configs}
          /\ conf.type \in Types /\ conf.auth \in Schemes
      BY EndpointAssumption DEF Names, Urls
    <2> QED BY <2>1 DEF Held, Record, Schemes
  <1>2. ASSUME NEW p \in Peers
        PROVE  /\ Held(Listener(p), p) \in Record /\ Held(Listener(p), p).used
               /\ Held(Listener(p), p).peer = p /\ p # None
    <2>1. Label(p) \in Names /\ p \in Urls
      BY DEF Names, Urls
    <2>2. p # None
      BY EndpointAssumption
    <2> QED BY <2>1, <2>2 DEF Held, Listener, Record, Schemes, Types
  <1> QED BY <1>1, <1>2

\* A record stored in part is a record.
LEMMA FrontTypes ==
    ASSUME NEW r \in Record, NEW old \in Record
    PROVE  FrontOf(r, old) \in Record /\ FrontErased(old) \in Record
  BY DEF FrontOf, FrontErased, Record

\* What a boot makes of flash fits, whatever parts of records flash holds (load_all).
LEMMA LoadedFits ==
    ASSUME NEW n \in [Slots -> Record]
    PROVE  /\ Loaded(n) \in [Slots -> Record]
           /\ \A s \in Slots : RecordFits(Loaded(n)[s], s)
  <1>1. ASSUME NEW s \in Slots
        PROVE  Loaded(n)[s] \in Record /\ RecordFits(Loaded(n)[s], s)
    <2>1. CASE n[s].used /\ (s \in System <=> n[s].peer # None)
      <3>1. Loaded(n)[s] = n[s]
        BY <2>1 DEF Loaded
      <3> QED BY <2>1, <3>1, SlotsAreNumbers DEF RecordFits
    <2>2. CASE ~(n[s].used /\ (s \in System <=> n[s].peer # None))
      <3>1. Loaded(n)[s] = Empty
        BY <2>2 DEF Loaded
      <3> QED BY <3>1, EmptyRecord DEF RecordFits
    <2> QED BY <2>1, <2>2
  <1>2. Loaded(n) = [s \in Slots |-> Loaded(n)[s]]
    BY DEF Loaded
  <1> QED BY <1>1, <1>2

\* Where lookups lead.
LEMMA LookupsInTable ==
    ASSUME NEW t, NEW name, NEW bucket \in SUBSET Slots
    PROVE  /\ Used(t, bucket) \subseteq bucket /\ Named(t, bucket, name) \subseteq bucket
           /\ FreeIn(t, bucket) \subseteq bucket /\ OfPeer(t, name) \subseteq System
  BY DEF Used, Named, FreeIn, OfPeer

\* What is found has the name and is in use.
LEMMA FindIn ==
    ASSUME NEW t, NEW name, NEW s \in Find(t, name)
    PROVE  s \in Slots /\ t[s].used /\ t[s].name = name
  <1>1. Named(t, User, name) \subseteq Slots /\ Named(t, System, name) \subseteq Slots
    BY SlotsAreNumbers, LookupsInTable
  <1>2. s \in Slots /\ s \in Named(t, User, name) \cup Named(t, System, name)
    BY <1>1, FirstOrIn DEF Find
  <1> QED BY <1>2 DEF Named, Used

\* A name that only one slot has finds that slot.
LEMMA FindAlone ==
    ASSUME NEW t, NEW s \in Slots, t[s].used,
           \A u \in Slots : t[u].used /\ t[u].name = t[s].name => u = s
    PROVE  Find(t, t[s].name) = {s}
  <1>1. CASE s \in User
    <2>1. Named(t, User, t[s].name) = {s}
      BY <1>1, SlotsAreNumbers DEF Named, Used
    <2> QED BY <2>1, FirstOfOne DEF Find
  <1>2. CASE s \in System
    <2>1. Named(t, System, t[s].name) = {s} /\ Named(t, User, t[s].name) = {}
      BY <1>2, SlotsAreNumbers DEF Named, Used
    <2> QED BY <2>1, FirstOfOne DEF Find
  <1> QED BY <1>1, <1>2 DEF Slots

-----------------------------------------------------------------------------
(* One caller moves.                                                       *)

\* Caller c, and no other, goes on as r.
Becomes(c, r) == pc'[c] = r /\ \A d \in Callers \ {c} : pc'[d] = pc[d]

\* A caller moves, and the others stay where they were.
LEMMA Moves ==
    ASSUME TypeInv, NEW c \in Callers, NEW r \in Caller, pc' = [pc EXCEPT ![c] = r]
    PROVE  pc' \in [Callers -> Caller] /\ Becomes(c, r)
  BY DEF TypeInv, Becomes

\* The places are told apart.
LEMMA PlacesDiffer ==
    ASSUME NEW place
    PROVE  /\ place \in Storing <=> place \in {"clear", "fill", "save", "put", "erase"}
           /\ Idle.at = "idle" /\ Idle \in Caller
  <1>1. Idle \in Caller
    BY EmptyRecord DEF Idle, Caller, Places
  <1> QED BY <1>1 DEF Storing, Idle

\* A caller that stores nothing moves to where it stores nothing.
LEMMA RestKeeps ==
    ASSUME ApiInv, NEW c \in Callers, NEW r \in Caller,
           pc' = [pc EXCEPT ![c] = r],
           pc[c].at \notin Storing, r.at \notin Storing, r.at = "copy" => r.slot \in Slots,
           UNCHANGED <<table, nvs, bonds, enabled, chain, raced, stale, touched>>,
           workers' \subseteq Job /\ IsFiniteSet(workers') /\ Cardinality(workers') <= MaxJobs
    PROVE  ApiInv'
  <1>0. TypeInv /\ Fitting /\ OneStores /\ Stored /\ ChainRuns /\ ChainSent
    BY DEF ApiInv
  <1>1. pc' \in [Callers -> Caller] /\ Becomes(c, r)
    BY <1>0, Moves
  <1>2. TypeInv'
    BY <1>0, <1>1 DEF TypeInv, Runner, Job, Caller
  <1>3. Fitting'
    BY <1>0, <1>1, PlacesDiffer DEF Fitting, Becomes
  <1>4. \A d \in Callers : \A s \in Slots : Stores(d, s)' <=> Stores(d, s)
    BY <1>1 DEF Stores, Becomes
  <1>5. OneStores'
    BY <1>0, <1>1, <1>4, PlacesDiffer DEF OneStores, Becomes
  <1>6. Stored'
    BY <1>0, <1>4 DEF Stored
  <1>7. ChainRuns'
    BY <1>0, <1>1, PlacesDiffer DEF ChainRuns, Becomes, Pending, Alone
  <1>8. ChainSent'
    BY <1>0 DEF ChainSent, Pending, Behind, SentTo, Ascending
  <1> QED BY <1>2, <1>3, <1>5, <1>6, <1>7, <1>8 DEF ApiInv

\* A caller that stores nothing begins to store a slot.
LEMMA BeginKeeps ==
    ASSUME ApiInv, NEW c \in Callers, NEW s \in Slots, NEW r \in Record, NEW purging \in BOOLEAN,
           pc[c].at \notin Storing, RecordFits(r, s), Begin(c, s, r, purging)
    PROVE  ApiInv'
  <1> DEFINE n == [at |-> "clear", slot |-> s, record |-> r, purging |-> purging]
  <1>0. TypeInv /\ Fitting /\ OneStores /\ Stored /\ ChainRuns /\ ChainSent
    BY DEF ApiInv
  <1>1. /\ pc' = [pc EXCEPT ![c] = n]
        /\ raced' = Races(c, s)
        /\ UNCHANGED <<table, nvs, bonds, enabled, chain, workers, stale, touched>>
    BY DEF Begin
  <1>2. n \in Caller /\ n.at = "clear" /\ n.slot = s /\ n.record = r
    BY DEF Caller, Places, Storing
  <1> HIDE DEF n
  <1>3. pc' \in [Callers -> Caller] /\ Becomes(c, n)
    BY <1>0, <1>1, <1>2, Moves
  <1>4. /\ raced \subseteq raced' /\ raced' \subseteq Slots
        /\ (\E d \in Callers \ {c} : Stores(d, s)) => s \in raced'
    BY <1>0, <1>1 DEF Races, TypeInv, Stores
  <1>5. TypeInv'
    BY <1>0, <1>1, <1>3, <1>4 DEF TypeInv, Runner, Job, Caller
  <1>6. Fitting'
    BY <1>0, <1>1, <1>2, <1>3 DEF Fitting, Becomes
  <1>7. /\ \A d \in Callers \ {c} : \A t \in Slots : Stores(d, t)' <=> Stores(d, t)
        /\ \A t \in Slots : Stores(c, t)' <=> t = s
        /\ \A t \in Slots : ~Stores(c, t)
    BY <1>2, <1>3, PlacesDiffer DEF Stores, Becomes
  <1>8. OneStores'
    <2>1. ASSUME NEW d \in Callers, NEW e \in Callers, NEW t \in Slots, Stores(d, t)', Stores(e, t)', d # e
          PROVE  t \in raced'
      <3>1. CASE d = c
        BY <1>4, <1>7, <2>1, <3>1
      <3>2. CASE e = c
        BY <1>4, <1>7, <2>1, <3>2
      <3>3. CASE d # c /\ e # c
        BY <1>0, <1>4, <1>7, <2>1, <3>3 DEF OneStores
      <3> QED BY <3>1, <3>2, <3>3
    <2>2. ASSUME NEW d \in Callers, pc'[d].at = "erase", pc'[d].slot \notin raced'
          PROVE  table'[pc'[d].slot] = Empty
      <3>1. d # c /\ pc'[d] = pc[d]
        BY <1>2, <1>3, <2>2 DEF Becomes
      <3> QED BY <1>0, <1>1, <1>4, <2>2, <3>1 DEF OneStores
    <2> QED BY <2>1, <2>2 DEF OneStores
  <1>9. Stored'
    BY <1>0, <1>1, <1>4, <1>7 DEF Stored
  <1>10. ChainRuns'
    BY <1>0, <1>1, <1>2, <1>3 DEF ChainRuns, Becomes, Pending, Alone
  <1>11. ChainSent'
    BY <1>0, <1>1 DEF ChainSent, Pending, Behind, SentTo, Ascending
  <1> QED BY <1>5, <1>6, <1>8, <1>9, <1>10, <1>11 DEF ApiInv

\* The first steps of the commands keep the invariant.
LEMMA RequestsKeep ==
    ASSUME ApiInv, NEW c \in Callers,
           \/ \E conf \in Configs : Add(c, conf)
           \/ \E name \in Names : UserRemove(c, name)
           \/ \E p \in Peers : SystemAdd(c, p) \/ SystemRemove(c, p)
    PROVE  ApiInv'
  <1>1. pc[c].at \notin Storing
    BY PlacesDiffer DEF Add, UserRemove, SystemAdd, SystemRemove, At
  <1>2. \E s \in Slots, r \in Record : RecordFits(r, s) /\ Begin(c, s, r, FALSE)
    <2>1. ASSUME NEW conf \in Configs, Add(c, conf)  PROVE <1>2
      <3>1. PICK s \in UserSlot(table, conf) : Begin(c, s, Held(conf, None), FALSE)
        BY <2>1 DEF Add, Store
      <3>2. s \in User /\ s \in Slots
        <4>1. Named(table, User, conf.name) \subseteq User /\ FreeIn(table, User) \subseteq User
          BY SlotsAreNumbers, LookupsInTable
        <4> QED BY <4>1, SlotsAreNumbers, FirstOrIn DEF UserSlot
      <3> QED BY <3>1, <3>2, HeldFits DEF RecordFits
    <2>2. ASSUME NEW p \in Peers, SystemAdd(c, p)  PROVE <1>2
      <3>1. PICK s \in SystemSlot(table, p) : Begin(c, s, Held(Listener(p), p), FALSE)
        BY <2>2 DEF SystemAdd, Store
      <3>2. s \in System /\ s \in Slots
        <4>1. OfPeer(table, p) \subseteq System /\ FreeIn(table, System) \subseteq System
          BY SlotsAreNumbers, LookupsInTable
        <4> QED BY <4>1, SlotsAreNumbers, FirstOrIn DEF SystemSlot
      <3> QED BY <3>1, <3>2, HeldFits, SlotsAreNumbers DEF RecordFits
    <2>3. ASSUME NEW name \in Names, UserRemove(c, name)  PROVE <1>2
      <3>1. PICK s \in FirstOr(Named(table, User, name), {}) : Begin(c, s, Empty, FALSE)
        BY <2>3 DEF UserRemove, Store
      <3>2. s \in Slots
        <4>1. Named(table, User, name) \subseteq Slots
          BY SlotsAreNumbers, LookupsInTable
        <4> QED BY <4>1, FirstOrIn
      <3> QED BY <3>1, <3>2, EmptyRecord DEF RecordFits
    <2>4. ASSUME NEW p \in Peers, SystemRemove(c, p)  PROVE <1>2
      <3>1. PICK s \in FirstOr(OfPeer(table, p), {}) : Begin(c, s, Empty, FALSE)
        BY <2>4 DEF SystemRemove, Store
      <3>2. s \in Slots
        <4>1. OfPeer(table, p) \subseteq Slots
          BY SlotsAreNumbers, LookupsInTable
        <4> QED BY <4>1, FirstOrIn
      <3> QED BY <3>1, <3>2, EmptyRecord DEF RecordFits
    <2> QED BY <2>1, <2>2, <2>3, <2>4
  <1> QED BY <1>1, <1>2, BeginKeeps

\* So do the steps of a purge, one listener after the other.
LEMMA PurgeKeeps ==
    ASSUME ApiInv, NEW c \in Callers, Purge(c) \/ PurgeNext(c)
    PROVE  ApiInv'
  <1>0. /\ TypeInv /\ pc[c] \in Caller
        /\ workers \subseteq Job /\ IsFiniteSet(workers) /\ Cardinality(workers) <= MaxJobs
    BY DEF ApiInv, TypeInv
  <1>1. CASE Purge(c)
    <2> DEFINE r == [pc[c] EXCEPT !.at = "purge", !.purging = TRUE]
    <2>1. /\ pc[c].at = "idle" /\ pc' = [pc EXCEPT ![c] = r]
          /\ UNCHANGED <<table, nvs, bonds, enabled, chain, workers, raced, stale, touched>>
      BY <1>0, <1>1 DEF Purge, At, TypeInv
    <2>2. r \in Caller /\ r.at = "purge"
      BY <1>0 DEF Caller, Places
    <2> HIDE DEF r
    <2> QED BY <1>0, <2>1, <2>2, PlacesDiffer, RestKeeps
  <1>2. CASE PurgeNext(c)
    <2> DEFINE listeners == {s \in Used(table, System) : s > pc[c].slot}
    <2>1. pc[c].at = "purge" /\ pc[c].at \notin Storing
      BY <1>2, PlacesDiffer DEF PurgeNext, At
    <2>2. CASE FirstOr(listeners, {}) = {}
      <3>1. /\ pc' = [pc EXCEPT ![c] = Idle]
            /\ UNCHANGED <<table, nvs, bonds, enabled, chain, workers, raced, stale, touched>>
        BY <1>2, <2>2 DEF PurgeNext
      <3> QED BY <1>0, <2>1, <3>1, PlacesDiffer, RestKeeps
    <2>3. CASE FirstOr(listeners, {}) # {}
      <3>1. PICK s \in FirstOr(listeners, {}) : Begin(c, s, Empty, TRUE)
        BY <1>2, <2>3 DEF PurgeNext
      <3>2. s \in Slots
        <4>1. listeners \subseteq Slots
          BY SlotsAreNumbers, LookupsInTable
        <4> QED BY <4>1, FirstOrIn
      <3> QED BY <2>1, <3>1, <3>2, EmptyRecord, BeginKeeps DEF RecordFits
    <2> QED BY <2>2, <2>3
  <1> QED BY <1>1, <1>2

-----------------------------------------------------------------------------
(* A record is cleared, filled and stored.                                 *)

\* Where a caller that stores one slot moves within its store, the others that
\* store it are the same.
LEMMA StoresOn ==
    ASSUME TypeInv, NEW c \in Callers, NEW r \in Caller, Becomes(c, r), r.slot = pc[c].slot,
           pc[c].at \in Storing, r.at \in Storing
    PROVE  \A d \in Callers : \A s \in Slots : Stores(d, s)' <=> Stores(d, s)
  BY DEF Stores, Becomes

\* So does emptying the slot in the table.
LEMMA ClearKeeps ==
    ASSUME ApiInv, NEW c \in Callers, Clear(c)
    PROVE  ApiInv'
  <1> DEFINE s == pc[c].slot
             r == [pc[c] EXCEPT !.at = IF pc[c].record.used THEN "fill" ELSE "save"]
  <1>0. TypeInv /\ Fitting /\ OneStores /\ Stored /\ ChainRuns /\ ChainSent
    BY DEF ApiInv
  <1>1. /\ pc[c].at = "clear" /\ pc[c].at \in Storing /\ pc' = [pc EXCEPT ![c] = r]
        /\ table' = [table EXCEPT ![s] = Empty] /\ touched' = touched \cup {s}
        /\ UNCHANGED <<nvs, bonds, enabled, chain, workers, raced, stale>>
    BY <1>0, PlacesDiffer DEF Clear, At, Go, TypeInv
  <1>2. s \in Slots /\ RecordFits(pc[c].record, s)
    BY <1>0, <1>1 DEF Fitting
  <1>3. /\ r \in Caller /\ r.at \in {"fill", "save"} /\ r.at \in Storing /\ r.slot = s
        /\ r.record = pc[c].record /\ (r.at = "fill" => r.record.used)
    <2>1. pc[c] \in Caller
      BY <1>0 DEF TypeInv
    <2> QED BY <2>1, PlacesDiffer DEF Caller, Places
  <1> HIDE DEF r
  <1>4. pc' \in [Callers -> Caller] /\ Becomes(c, r)
    BY <1>0, <1>1, <1>3, Moves
  <1>5. table' \in [Slots -> Record] /\ table'[s] = Empty /\ \A t \in Slots \ {s} : table'[t] = table[t]
    BY <1>0, <1>1, <1>2, EmptyRecord DEF TypeInv
  <1> HIDE DEF s
  <1>6. TypeInv'
    BY <1>0, <1>1, <1>2, <1>4, <1>5 DEF TypeInv, Runner, Job, Caller
  <1>7. Fitting'
    <2>1. \A t \in Slots : RecordFits(table'[t], t)
      BY <1>0, <1>5, EmptyRecord DEF Fitting, RecordFits
    <2>2. \A d \in Callers : pc'[d].at \in Storing => pc'[d].slot \in Slots /\ RecordFits(pc'[d].record, pc'[d].slot)
      BY <1>0, <1>2, <1>3, <1>4 DEF Fitting, Becomes
    <2>3. \A d \in Callers : (pc'[d].at = "copy" => pc'[d].slot \in Slots) /\ (pc'[d].at = "fill" => pc'[d].record.used)
      BY <1>0, <1>3, <1>4 DEF Fitting, Becomes
    <2> QED BY <2>1, <2>2, <2>3 DEF Fitting
  <1>8. \A d \in Callers : \A t \in Slots : Stores(d, t)' <=> Stores(d, t)
    BY <1>0, <1>1, <1>3, <1>4, StoresOn DEF s
  <1>9. OneStores'
    <2>1. ASSUME NEW d \in Callers, pc'[d].at = "erase", pc'[d].slot \notin raced
          PROVE  table'[pc'[d].slot] = Empty
      <3>1. d # c /\ pc'[d] = pc[d] /\ pc[d].slot \in Slots
        BY <1>0, <1>3, <1>4, <2>1, PlacesDiffer DEF Fitting, Becomes
      <3> QED BY <1>0, <1>5, <2>1, <3>1 DEF OneStores
    <2> QED BY <1>0, <1>1, <1>8, <2>1 DEF OneStores
  <1>10. Stored'
    <2>1. Stores(c, s)
      BY <1>1 DEF Stores, s
    <2> QED BY <1>0, <1>1, <1>2, <1>5, <1>8, <2>1 DEF Stored
  <1>11. ChainRuns'
    <2>1. \A d \in Callers : pc'[d].at = "fill" => pc'[d].slot \in touched'
      BY <1>0, <1>1, <1>3, <1>4 DEF ChainRuns, Becomes
    <2>2. \A t \in Slots \ touched' : table'[t] = table[t] /\ (Alone(t) => Alone(t)')
      BY <1>0, <1>1, <1>5, EmptyRecord DEF Alone
    <2> QED BY <1>0, <1>1, <2>1, <2>2 DEF ChainRuns, Pending, TypeInv, Runner
  <1>12. ChainSent'
    BY <1>0, <1>1 DEF ChainSent, Pending, Behind, SentTo, Ascending
  <1> QED BY <1>6, <1>7, <1>9, <1>10, <1>11, <1>12 DEF ApiInv

\* So does filling it.
LEMMA FillKeeps ==
    ASSUME ApiInv, NEW c \in Callers, Fill(c)
    PROVE  ApiInv'
  <1> DEFINE s == pc[c].slot
             r == [pc[c] EXCEPT !.at = "save"]
  <1>0. TypeInv /\ Fitting /\ OneStores /\ Stored /\ ChainRuns /\ ChainSent
    BY DEF ApiInv
  <1>1. /\ pc[c].at = "fill" /\ pc[c].at \in Storing /\ pc' = [pc EXCEPT ![c] = r]
        /\ table' = [table EXCEPT ![s] = pc[c].record]
        /\ touched' = touched \cup Named(table, Slots, pc[c].record.name)
        /\ UNCHANGED <<nvs, bonds, enabled, chain, workers, raced, stale>>
    BY <1>0, PlacesDiffer DEF Fill, At, Go, TypeInv
  <1>2. s \in Slots /\ RecordFits(pc[c].record, s) /\ pc[c].record.used /\ s \in touched /\ pc[c].record \in Record
    BY <1>0, <1>1 DEF Fitting, ChainRuns, TypeInv, Caller
  <1>3. r \in Caller /\ r.at = "save" /\ r.at \in Storing /\ r.slot = s /\ r.record = pc[c].record
    <2>1. pc[c] \in Caller
      BY <1>0 DEF TypeInv
    <2> QED BY <2>1, PlacesDiffer DEF Caller, Places
  <1> HIDE DEF r
  <1>4. pc' \in [Callers -> Caller] /\ Becomes(c, r)
    BY <1>0, <1>1, <1>3, Moves
  <1>5. /\ table' \in [Slots -> Record] /\ table'[s] = pc[c].record
        /\ \A t \in Slots \ {s} : table'[t] = table[t]
    BY <1>0, <1>1, <1>2 DEF TypeInv
  <1>T. touched \subseteq touched' /\ touched' \subseteq Slots
    BY <1>0, <1>1 DEF Named, Used, TypeInv
  <1> HIDE DEF s
  <1>6. TypeInv'
    BY <1>0, <1>1, <1>T, <1>4, <1>5 DEF TypeInv, Runner, Job, Caller
  <1>7. Fitting'
    <2>1. \A t \in Slots : RecordFits(table'[t], t)
      BY <1>0, <1>2, <1>5 DEF Fitting
    <2>2. \A d \in Callers : pc'[d].at \in Storing => pc'[d].slot \in Slots /\ RecordFits(pc'[d].record, pc'[d].slot)
      BY <1>0, <1>2, <1>3, <1>4 DEF Fitting, Becomes
    <2>3. \A d \in Callers : (pc'[d].at = "copy" => pc'[d].slot \in Slots) /\ (pc'[d].at = "fill" => pc'[d].record.used)
      BY <1>0, <1>3, <1>4 DEF Fitting, Becomes
    <2> QED BY <2>1, <2>2, <2>3 DEF Fitting
  <1>8. \A d \in Callers : \A t \in Slots : Stores(d, t)' <=> Stores(d, t)
    BY <1>0, <1>1, <1>3, <1>4, StoresOn DEF s
  <1>S. Stores(c, s)
    BY <1>1 DEF Stores, s
  <1>9. OneStores'
    <2>1. ASSUME NEW d \in Callers, pc'[d].at = "erase", pc'[d].slot \notin raced
          PROVE  table'[pc'[d].slot] = Empty
      <3>1. d # c /\ pc'[d] = pc[d] /\ pc[d].slot \in Slots /\ Stores(d, pc[d].slot)
        BY <1>0, <1>3, <1>4, <2>1, PlacesDiffer DEF Fitting, Becomes, Stores
      <3>2. pc[d].slot # s
        BY <1>0, <1>2, <1>S, <2>1, <3>1 DEF OneStores
      <3> QED BY <1>0, <1>5, <2>1, <3>1, <3>2 DEF OneStores
    <2> QED BY <1>0, <1>1, <1>8, <2>1 DEF OneStores
  <1>10. Stored'
    BY <1>0, <1>1, <1>2, <1>5, <1>8, <1>S DEF Stored
  <1>11. ChainRuns'
    <2>1. \A d \in Callers : pc'[d].at = "fill" => pc'[d].slot \in touched'
      BY <1>0, <1>T, <1>3, <1>4 DEF ChainRuns, Becomes
    <2>2. \A t \in Slots \ touched' : table'[t] = table[t]
      BY <1>2, <1>T, <1>5
    <2>3. \A t \in Slots \ touched' : table[t].used => table[t].name # pc[c].record.name
      BY <1>1 DEF Named, Used
    <2>4. \A t \in Slots \ touched' : table[t].used /\ Alone(t) => Alone(t)'
      BY <1>5, <2>2, <2>3 DEF Alone
    <2> QED BY <1>0, <1>1, <1>T, <2>1, <2>2, <2>4 DEF ChainRuns, Pending, TypeInv, Runner
  <1>12. ChainSent'
    BY <1>0, <1>1, <1>T DEF ChainSent, Pending, Behind, SentTo, Ascending
  <1> QED BY <1>6, <1>7, <1>9, <1>10, <1>11, <1>12 DEF ApiInv

\* So does the first blob of a store: flash now differs from the table, and its storer is
\* the one who has it in hand.
LEMMA SaveFrontKeeps ==
    ASSUME ApiInv, NEW c \in Callers, SaveFront(c)
    PROVE  ApiInv'
  <1> DEFINE s == pc[c].slot
             r == [pc[c] EXCEPT !.at = IF table[s].used THEN "put" ELSE "erase"]
  <1>0. TypeInv /\ Fitting /\ OneStores /\ Stored /\ ChainRuns /\ ChainSent
    BY DEF ApiInv
  <1>1. /\ pc[c].at = "save" /\ pc[c].at \in Storing
        /\ UNCHANGED <<table, bonds, enabled, chain, workers, raced, stale, touched>>
    BY PlacesDiffer DEF SaveFront, At
  <1>2. s \in Slots /\ RecordFits(pc[c].record, s) /\ pc[c] \in Caller /\ table[s] \in Record /\ nvs[s] \in Record
    BY <1>0, <1>1 DEF Fitting, TypeInv
  <1>3. /\ r \in Caller /\ r.at \in {"put", "erase"} /\ r.at \in Storing /\ r.slot = s
        /\ r.record = pc[c].record /\ (r.at = "erase" => ~table[s].used)
    BY <1>2, PlacesDiffer DEF Caller, Places
  <1>N. pc' = [pc EXCEPT ![c] = r] /\ \E x \in Record : nvs' = [nvs EXCEPT ![s] = x]
    <2>1. CASE table[s].used
      <3>1. nvs' = [nvs EXCEPT ![s] = FrontOf(table[s], nvs[s])] /\ Go(c, "put")
        BY <2>1, <1>0, <1>2 DEF SaveFront, TypeInv
      <3> QED BY <1>0, <1>2, <2>1, <3>1, FrontTypes DEF Go, TypeInv
    <2>2. CASE ~table[s].used
      <3>1. nvs' = [nvs EXCEPT ![s] = FrontErased(nvs[s])] /\ Go(c, "erase")
        BY <2>2, <1>0, <1>2 DEF SaveFront, TypeInv
      <3> QED BY <1>0, <1>2, <2>2, <3>1, FrontTypes DEF Go, TypeInv
    <2> QED BY <2>1, <2>2
  <1> HIDE DEF r
  <1>4. pc' \in [Callers -> Caller] /\ Becomes(c, r)
    BY <1>0, <1>3, <1>N, Moves
  <1>5. nvs' \in [Slots -> Record] /\ \A t \in Slots \ {s} : nvs'[t] = nvs[t]
    BY <1>0, <1>2, <1>N DEF TypeInv
  <1> HIDE DEF s
  <1>6. TypeInv'
    BY <1>0, <1>1, <1>4, <1>5 DEF TypeInv, Runner, Job, Caller
  <1>7. Fitting'
    BY <1>0, <1>1, <1>2, <1>3, <1>4 DEF Fitting, Becomes
  <1>8. \A d \in Callers : \A t \in Slots : Stores(d, t)' <=> Stores(d, t)
    BY <1>0, <1>1, <1>3, <1>4, StoresOn DEF s
  <1>9. OneStores'
    <2>1. table[s].used \/ table[s] = Empty
      BY <1>0, <1>2 DEF Fitting, RecordFits
    <2> QED BY <1>0, <1>1, <1>3, <1>4, <1>8, <2>1 DEF OneStores, Becomes
  <1>10. Stored'
    <2>1. Stores(c, s)
      BY <1>1 DEF Stores, s
    <2> QED BY <1>0, <1>1, <1>5, <1>8, <2>1 DEF Stored
  <1>11. ChainRuns'
    BY <1>0, <1>1, <1>3, <1>4 DEF ChainRuns, Becomes, Pending, Alone
  <1>12. ChainSent'
    BY <1>0, <1>1 DEF ChainSent, Pending, Behind, SentTo, Ascending
  <1> QED BY <1>6, <1>7, <1>9, <1>10, <1>11, <1>12 DEF ApiInv

\* So does its end: flash holds the record of the only storer, or the slot is stale.
LEMMA SaveEndsKeeps ==
    ASSUME ApiInv, NEW c \in Callers, SaveRest(c) \/ SaveFails(c)
    PROVE  ApiInv'
  <1> DEFINE s == pc[c].slot
             r == Then(c)
  <1>0. TypeInv /\ Fitting /\ OneStores /\ Stored /\ ChainRuns /\ ChainSent
    BY DEF ApiInv
  <1>1. /\ pc[c].at \in {"put", "erase", "save"} /\ pc[c].at \in Storing
        /\ pc' = [pc EXCEPT ![c] = r]
        /\ UNCHANGED <<table, bonds, enabled, chain, workers, raced, touched>>
    BY PlacesDiffer DEF SaveRest, SaveFails, At
  <1>2. s \in Slots /\ pc[c] \in Caller /\ table[s] \in Record
    BY <1>0, <1>1 DEF Fitting, TypeInv
  <1>3. r \in Caller /\ r.at \in {"purge", "idle"} /\ r.at \notin Storing
    <2>1. [pc[c] EXCEPT !.at = "purge"] \in Caller /\ [pc[c] EXCEPT !.at = "purge"].at = "purge"
      BY <1>2 DEF Caller, Places
    <2> QED BY <2>1, PlacesDiffer DEF Then
  <1>N. /\ nvs' \in [Slots -> Record] /\ (\A t \in Slots \ {s} : nvs'[t] = nvs[t])
        /\ stale' \in SUBSET Slots
        /\ \A t \in Slots \ {s} : t \in stale' <=> t \in stale
        /\ s \notin raced \cup stale' => nvs'[s] = table[s]
    <2>1. CASE SaveRest(c)
      <3>1. stale' = stale \ {s}
        BY <2>1 DEF SaveRest
      <3>2. CASE pc[c].at = "put"
        <4>1. nvs' = [nvs EXCEPT ![s] = table[s]]
          BY <2>1, <3>2 DEF SaveRest, At
        <4> QED BY <1>0, <1>2, <3>1, <4>1 DEF TypeInv
      <3>3. CASE pc[c].at = "erase"
        <4>1. nvs' = [nvs EXCEPT ![s] = Empty]
          BY <2>1, <3>3 DEF SaveRest, At
        <4>2. s \notin raced => table[s] = Empty
          BY <1>0, <3>3 DEF OneStores
        <4> QED BY <1>0, <1>2, <3>1, <4>1, <4>2, EmptyRecord DEF TypeInv
      <3> QED BY <2>1, <3>2, <3>3 DEF SaveRest, At
    <2>2. CASE SaveFails(c)
      BY <1>0, <1>2, <2>2 DEF SaveFails, TypeInv
    <2> QED BY <2>1, <2>2
  <1> HIDE DEF r, s
  <1>4. pc' \in [Callers -> Caller] /\ Becomes(c, r)
    BY <1>0, <1>1, <1>3, Moves
  <1>6. TypeInv'
    BY <1>0, <1>1, <1>4, <1>N DEF TypeInv, Runner, Job, Caller
  <1>7. Fitting'
    BY <1>0, <1>1, <1>3, <1>4 DEF Fitting, Becomes
  <1>8. /\ \A d \in Callers \ {c} : \A t \in Slots : Stores(d, t)' <=> Stores(d, t)
        /\ \A t \in Slots : ~Stores(c, t)'
        /\ \A t \in Slots : Stores(c, t) <=> t = s
    BY <1>1, <1>3, <1>4 DEF Stores, Becomes, s
  <1>9. OneStores'
    BY <1>0, <1>1, <1>3, <1>4, <1>8 DEF OneStores, Becomes
  <1>10. Stored'
    <2> SUFFICES ASSUME NEW t \in Slots \ (raced \cup stale'), \A d \in Callers : ~Stores(d, t)'
                 PROVE  nvs'[t] = table[t]
      BY <1>1 DEF Stored
    <2>1. CASE t = s
      BY <1>N, <2>1
    <2>2. CASE t # s
      BY <1>0, <1>8, <1>N, <2>2 DEF Stored
    <2> QED BY <2>1, <2>2
  <1>11. ChainRuns'
    BY <1>0, <1>1, <1>3, <1>4 DEF ChainRuns, Becomes, Pending, Alone
  <1>12. ChainSent'
    BY <1>0, <1>1 DEF ChainSent, Pending, Behind, SentTo, Ascending
  <1> QED BY <1>6, <1>7, <1>9, <1>10, <1>11, <1>12 DEF ApiInv

-----------------------------------------------------------------------------
(* Requests.                                                               *)

JobsFit(J) == J \subseteq Job /\ IsFiniteSet(J) /\ Cardinality(J) <= MaxJobs

\* A task is created only below the limit.
LEMMA SpawnFits ==
    ASSUME JobsFit(workers), NEW r \in Record, Spawn(r)
    PROVE  JobsFit(workers')
  <1> DEFINE j == [ep |-> r, attempt |-> 1]
  <1>1. CASE Cardinality(workers) < MaxJobs
    <2>1. workers' = workers \cup {j} /\ j \in Job
      BY <1>1 DEF Spawn, Job
    <2> HIDE DEF j
    <2>2. /\ IsFiniteSet(workers') /\ Cardinality(workers) \in Nat
          /\ Cardinality(workers') = Cardinality(workers) \/ Cardinality(workers') = Cardinality(workers) + 1
      BY <2>1, FS_AddElement, FS_CardinalityType DEF JobsFit
    <2>3. Cardinality(workers') <= MaxJobs
      BY <1>1, <2>2, CallsAssumption
    <2> QED BY <2>1, <2>2, <2>3 DEF JobsFit
  <1>2. CASE ~(Cardinality(workers) < MaxJobs)
    BY <1>2 DEF Spawn, JobsFit
  <1> QED BY <1>1, <1>2

\* A send that ends or is tried again makes no more tasks.
LEMMA JobStepsFit ==
    ASSUME JobsFit(workers), NEW j \in workers, JobEnds(j) \/ JobRetries(j)
    PROVE  JobsFit(workers')
  <1>1. /\ IsFiniteSet(workers \ {j}) /\ Cardinality(workers \ {j}) = Cardinality(workers) - 1
        /\ Cardinality(workers) \in Nat
    BY FS_RemoveElement, FS_CardinalityType DEF JobsFit
  <1>2. CASE JobEnds(j)
    <2>1. workers' = workers \ {j}
      BY <1>2 DEF JobEnds
    <2>2. Cardinality(workers') <= MaxJobs
      BY <1>1, <2>1, CallsAssumption DEF JobsFit
    <2> QED BY <1>1, <2>1, <2>2 DEF JobsFit
  <1>3. CASE JobRetries(j)
    <2> DEFINE k == [j EXCEPT !.attempt = 2]
    <2>1. workers' = (workers \ {j}) \cup {k}
      BY <1>3 DEF JobRetries
    <2>2. k \in Job
      BY DEF JobsFit, Job
    <2> HIDE DEF k
    <2>3. IsFiniteSet(workers') /\ Cardinality(workers') <= Cardinality(workers)
      BY <1>1, <2>1, FS_AddElement
    <2>4. Cardinality(workers') <= MaxJobs
      <3>1. Cardinality(workers') \in Nat
        BY <2>3, FS_CardinalityType
      <3> QED BY <1>1, <2>3, <3>1, CallsAssumption DEF JobsFit
    <2> QED BY <2>1, <2>2, <2>3, <2>4 DEF JobsFit
  <1> QED BY <1>2, <1>3

\* Single sends keep the invariant: they read the table and create a task.
LEMMA SendKeeps ==
    ASSUME ApiInv, NEW c \in Callers, Copy(c) \/ \E name \in Names : Send(c, name)
    PROVE  ApiInv'
  <1>0. TypeInv /\ Fitting /\ pc[c] \in Caller
    BY DEF ApiInv, TypeInv
  <1>1. CASE \E name \in Names : Send(c, name)
    <2> PICK name \in Names : Send(c, name)
      BY <1>1
    <2> PICK s \in Find(table, name) :
            pc' = [pc EXCEPT ![c] = [at |-> "copy", slot |-> s, record |-> table[s], purging |-> FALSE]]
      BY DEF Send
    <2> DEFINE r == [at |-> "copy", slot |-> s, record |-> table[s], purging |-> FALSE]
    <2>1. s \in Slots
      BY FindIn
    <2>2. r \in Caller /\ r.at = "copy" /\ r.slot = s
      BY <1>0, <2>1 DEF Caller, Places, TypeInv
    <2>3. /\ pc[c].at = "idle" /\ pc' = [pc EXCEPT ![c] = r]
          /\ UNCHANGED <<table, nvs, bonds, enabled, chain, workers, raced, stale, touched>>
      BY DEF Send, At
    <2> HIDE DEF r
    <2>4. workers' \subseteq Job /\ IsFiniteSet(workers') /\ Cardinality(workers') <= MaxJobs
      BY <1>0, <2>3 DEF TypeInv
    <2> QED BY <2>1, <2>2, <2>3, <2>4, PlacesDiffer, RestKeeps
  <1>2. CASE Copy(c)
    <2> DEFINE r == [pc[c].record EXCEPT !.token = table[pc[c].slot].token]
    <2>1. /\ pc[c].at = "copy" /\ pc' = [pc EXCEPT ![c] = Idle] /\ Spawn(r)
          /\ UNCHANGED <<table, nvs, bonds, enabled, chain, raced, stale, touched>>
      BY <1>2 DEF Copy, At
    <2>2. pc[c].slot \in Slots
      BY <1>0, <2>1 DEF Fitting
    <2>3. r \in Record
      <3>1. pc[c].record \in Record /\ table[pc[c].slot] \in Record
        BY <1>0, <2>2 DEF Caller, TypeInv
      <3> QED BY <3>1 DEF Record
    <2> HIDE DEF r
    <2>4. JobsFit(workers')
      BY <1>0, <2>1, <2>3, SpawnFits DEF TypeInv, JobsFit
    <2> QED BY <2>1, <2>4, PlacesDiffer, RestKeeps DEF JobsFit
  <1> QED BY <1>1, <1>2

-----------------------------------------------------------------------------
(* The chain.                                                              *)

\* What is not about the chain depends on neither the chain nor the workers.
LEMMA StoresAsBefore ==
    ASSUME ApiInv, UNCHANGED <<table, nvs, pc, raced, stale>>
    PROVE  Fitting' /\ OneStores' /\ Stored'
  BY DEF ApiInv, Fitting, OneStores, Stored, Stores

\* The start of a chain fixes its slots and their names.
LEMMA ChainRunKeeps ==
    ASSUME ApiInv, ChainRun
    PROVE  ApiInv'
  <1> DEFINE U == Used(table, Slots)
             N == [s \in U |-> table[s].name]
             C == [at |-> "fire", slots |-> U, sent |-> <<>>, names |-> N]
  <1>0. TypeInv /\ Fitting /\ OneStores /\ Stored /\ ChainRuns /\ ChainSent
    BY DEF ApiInv
  <1>1. /\ enabled /\ U # {} /\ chain' = C
        /\ touched' = {s \in Slots : (\E d \in Callers : At(d, "fill") /\ pc[d].slot = s)
                                     \/ Cardinality(Named(table, Slots, table[s].name)) > 1}
        /\ UNCHANGED <<table, nvs, bonds, enabled, pc, workers, raced, stale>>
    BY DEF ChainRun
  <1>2. U \subseteq Slots /\ N \in [U -> Names \cup {None}] /\ <<>> \in Seq(Slots)
    BY <1>0 DEF Used, TypeInv, Record
  <1>3. C \in Runner /\ C.names = N /\ C.slots = U /\ C.sent = <<>> /\ C.at = "fire" /\ DOMAIN N = U
    BY <1>2 DEF Runner
  <1>4. \A s \in U : N[s] = table[s].name
    OBVIOUS
  <1>5. \A s \in U : s \in Slots /\ table[s].used
    BY DEF Used
  <1>6. ASSUME NEW s \in U, s \notin touched'
        PROVE  Alone(s)
    <2> SUFFICES ASSUME NEW t \in Slots, table[t].used, table[t].name = table[s].name, t # s  PROVE FALSE
      BY DEF Alone
    <2> DEFINE S == Named(table, Slots, table[s].name)
    <2>1. S \subseteq Slots /\ {s, t} \subseteq S
      BY <1>5 DEF Named, Used
    <2>2. ~(Cardinality(S) > 1)
      BY <1>1, <1>5, <1>6
    <2> HIDE DEF S
    <2>3. IsFiniteSet(S) /\ Cardinality(S) \in Nat
      BY <2>1, SlotsAreNumbers, FS_Subset, FS_CardinalityType
    <2>4. Cardinality({s, t}) <= Cardinality(S)
      BY <2>1, <2>3, FS_Subset
    <2>5. Cardinality({s, t}) = 2
      <3>1. IsFiniteSet({s}) /\ Cardinality({s}) = 1 /\ t \notin {s} /\ {s, t} = {s} \cup {t}
        BY FS_Singleton
      <3>2. Cardinality({s} \cup {t}) = Cardinality({s}) + 1
        BY <3>1, FS_AddElement
      <3> QED BY <3>1, <3>2
    <2> QED BY <2>2, <2>3, <2>4, <2>5
  <1>7. TypeInv'
    BY <1>0, <1>1, <1>3 DEF TypeInv
  <1>8. U = {s \in Slots : table[s].used}
    BY DEF Used
  <1> HIDE DEF U, N, C
  <1>9. Pending' = U /\ chain'.slots = U /\ chain'.names = N /\ chain'.at = "fire" /\ chain'.sent = <<>>
    BY <1>1, <1>3 DEF Pending
  <1>10. ChainRuns'
    <2>1. \A c \in Callers : pc'[c].at = "fill" => pc'[c].slot \in touched'
      BY <1>0, <1>1 DEF Fitting, At, Storing
    <2>2. \A s \in Slots : Alone(s)' <=> Alone(s)
      BY <1>1 DEF Alone
    <2>3. \A s \in chain'.slots \ touched' : \A u \in Pending' : chain'.names[u] = table'[s].name => u = s
      BY <1>1, <1>4, <1>5, <1>6, <1>9 DEF Alone
    <2> QED BY <1>1, <1>4, <1>5, <1>6, <1>8, <1>9, <2>1, <2>2, <2>3 DEF ChainRuns
  <1>11. ChainSent'
    BY <1>9 DEF ChainSent, Behind, SentTo, Ascending
  <1> QED BY <1>1, <1>7, <1>10, <1>11, StoresAsBefore DEF ApiInv

\* A sequence that has grown by one.
LEMMA GrownBy ==
    ASSUME NEW q \in Seq(Slots), NEW f \in Slots
    PROVE  /\ q \o <<f>> \in Seq(Slots)
           /\ Len(q \o <<f>>) = Len(q) + 1
           /\ \A i \in 1..Len(q) : (q \o <<f>>)[i] = q[i]
           /\ (q \o <<f>>)[Len(q) + 1] = f
           /\ {(q \o <<f>>)[i] : i \in DOMAIN (q \o <<f>>)} = {q[i] : i \in DOMAIN q} \cup {f}
  <1> DEFINE g == Append(q, f)
  <1>1. g = q \o <<f>>
    BY AppendIsConcat
  <1>2. /\ g \in Seq(Slots) /\ Len(g) = Len(q) + 1
        /\ \A i \in 1..Len(q) : g[i] = q[i]
        /\ g[Len(q) + 1] = f
    BY AppendProperties
  <1> HIDE DEF g
  <1>3. DOMAIN q = 1..Len(q) /\ DOMAIN g = 1..(Len(q) + 1) /\ Len(q) \in Nat
    BY <1>2
  <1>4. {g[i] : i \in DOMAIN g} = {q[i] : i \in DOMAIN q} \cup {f}
    <2>1. \A i \in DOMAIN q : i \in DOMAIN g /\ g[i] = q[i]
      BY <1>2, <1>3
    <2>2. \A i \in DOMAIN g : i \in DOMAIN q \/ i = Len(q) + 1
      BY <1>3
    <2>3. Len(q) + 1 \in DOMAIN g
      BY <1>3
    <2> QED BY <1>2, <2>1, <2>2, <2>3
  <1> QED BY <1>1, <1>2, <1>4

\* A chain's sends stay in ascending order with one more behind them all.
LEMMA GrownAscending ==
    ASSUME NEW q \in Seq(Slots), NEW f \in Slots, NEW S \in SUBSET Slots, Ascending(q, S),
           f \in S => \A t \in {q[i] : i \in DOMAIN q} \cap S : t < f
    PROVE  Ascending(q \o <<f>>, S)
  <1> DEFINE g == q \o <<f>>
  <1>1. /\ g \in Seq(Slots) /\ Len(g) = Len(q) + 1
        /\ \A i \in 1..Len(q) : g[i] = q[i]
        /\ g[Len(q) + 1] = f
    BY GrownBy
  <1> HIDE DEF g
  <1>2. DOMAIN q = 1..Len(q) /\ DOMAIN g = 1..(Len(q) + 1) /\ Len(q) \in Nat
    BY <1>1
  <1> SUFFICES ASSUME NEW i \in DOMAIN g, NEW j \in DOMAIN g, i < j, g[i] \in S, g[j] \in S
               PROVE  g[i] < g[j]
    BY DEF Ascending, g
  <1>3. i \in DOMAIN q /\ g[i] = q[i]
    BY <1>1, <1>2
  <1>4. CASE j \in DOMAIN q
    BY <1>1, <1>2, <1>3, <1>4 DEF Ascending
  <1>5. CASE j = Len(q) + 1
    BY <1>1, <1>3, <1>5
  <1> QED BY <1>2, <1>4, <1>5

\* What a step of the chain sends to: the endpoint the name was taken from, when it
\* was left alone, and otherwise at most one that was not.
LEMMA ChainSendsTo ==
    ASSUME ApiInv, ChainFires
    PROVE  LET p == First(Pending) IN
           /\ p \in Pending /\ p \in Slots /\ \A u \in Pending : p <= u
           /\ \/ /\ p \in touched /\ chain' = Fired(<<>>) /\ workers' = workers
              \/ \E f \in Slots : /\ chain' = Fired(<<f>>) /\ Spawn(table[f])
                                  /\ f = p \/ (f \in touched /\ p \in touched)
  <1> DEFINE p == First(Pending)
  <1>0. TypeInv /\ ChainRuns /\ ChainSent
    BY DEF ApiInv
  <1>1. chain.at = "fire" /\ Pending # {} /\ Pending \subseteq chain.slots /\ chain.slots \subseteq Slots
    BY <1>0 DEF ChainFires, ChainRuns, ChainSent, TypeInv, Runner
  <1>2. p \in Pending /\ \A u \in Pending : p <= u
    BY <1>1, FirstIsLeast
  <1>3. NextName = chain.names[p]
    BY DEF NextName
  <1> HIDE DEF p
  <1>4. p \in Slots /\ p \in chain.slots
    BY <1>1, <1>2
  <1>5. p \notin touched => enabled /\ Find(table, NextName) = {p}
    <2> SUFFICES ASSUME p \notin touched PROVE enabled /\ Find(table, NextName) = {p}
      OBVIOUS
    <2>1. table[p].used /\ Alone(p) /\ NextName = table[p].name /\ enabled
      BY <1>0, <1>1, <1>2, <1>3, <1>4 DEF ChainRuns
    <2> QED BY <1>4, <2>1, FindAlone DEF Alone
  <1>6. p \in touched => \A f \in Find(table, NextName) : f \in touched
    <2> SUFFICES ASSUME p \in touched, NEW f \in Find(table, NextName), f \notin touched PROVE FALSE
      OBVIOUS
    <2>1. f \in Slots /\ table[f].used /\ table[f].name = NextName
      BY FindIn
    <2>2. f \in chain.slots
      BY <1>0, <1>1, <2>1 DEF ChainRuns
    <2> QED BY <1>0, <1>1, <1>2, <1>3, <2>1, <2>2 DEF ChainRuns
  <1>7. CASE Find(table, NextName) = {} \/ ~enabled
    <2>1. chain' = Fired(<<>>) /\ workers' = workers
      BY <1>7 DEF ChainFires
    <2>2. p \in touched
      BY <1>5, <1>7
    <2> QED BY <1>2, <1>4, <2>1, <2>2 DEF p
  <1>8. CASE ~(Find(table, NextName) = {} \/ ~enabled)
    <2>1. PICK f \in Find(table, NextName) : chain' = Fired(<<f>>) /\ Spawn(table[f])
      BY <1>8 DEF ChainFires
    <2>2. f \in Slots
      BY FindIn
    <2>3. f = p \/ (f \in touched /\ p \in touched)
      BY <1>5, <1>6
    <2> QED BY <1>2, <1>4, <2>1, <2>2, <2>3 DEF p
  <1> QED BY <1>7, <1>8

\* What a send of the chain leaves: its first slot is done, the rest is as it was.
LEMMA FiredIs ==
    ASSUME TypeInv, NEW q \in Seq(Slots), Pending # {}, Pending \subseteq chain.slots
    PROVE  LET p == First(Pending) C == Fired(q) rest == Pending \ {p} IN
           /\ C.slots = chain.slots /\ C.sent = chain.sent \o q
           /\ C.at = (IF rest = {} THEN "done" ELSE "fire")
           /\ DOMAIN C.names = rest
           /\ \A s \in rest : C.names[s] = chain.names[s]
           /\ chain.sent \o q \in Seq(Slots)
           /\ C \in Runner
  <1> DEFINE p == First(Pending)
             rest == Pending \ {p}
             N == [s \in rest |-> chain.names[s]]
             a == IF rest = {} THEN "done" ELSE "fire"
             sent == chain.sent \o q
  <1>1. chain \in Runner
    BY DEF TypeInv
  <1>2. Fired(q) = [chain EXCEPT !.names = N, !.sent = sent, !.at = a]
    BY <1>1 DEF Fired, Runner
  <1>3. sent \in Seq(Slots)
    <2>1. chain.sent \in Seq(Slots)
      BY <1>1 DEF Runner
    <2> QED BY <2>1, ConcatProperties
  <1>4. PICK S \in SUBSET Slots : chain.names \in [S -> Names \cup {None}]
    BY <1>1 DEF Runner
  <1>5. rest \subseteq S
    BY <1>4 DEF Pending
  <1>6. N \in [rest -> Names \cup {None}] /\ rest \in SUBSET Slots /\ DOMAIN N = rest
    BY <1>4, <1>5
  <1>7. \A s \in rest : N[s] = chain.names[s]
    OBVIOUS
  <1>8. a \in {"done", "fire"}
    OBVIOUS
  <1> HIDE DEF N, a, sent
  <1>9. /\ Fired(q).slots = chain.slots /\ Fired(q).sent = sent /\ Fired(q).at = a /\ Fired(q).names = N
        /\ Fired(q) \in Runner
    <2>1. N \in UNION {[T -> Names \cup {None}] : T \in SUBSET Slots}
      BY <1>6
    <2> HIDE DEF rest
    <2> QED BY <1>1, <1>2, <1>3, <1>8, <2>1 DEF Runner
  <1> QED BY <1>3, <1>6, <1>7, <1>9 DEF a, sent

\* The chain sends to its first slot, found by name: it is the slot meant, unless it was
\* touched; or the name is gone and so was the slot touched.
LEMMA ChainFiresKeeps ==
    ASSUME ApiInv, ChainFires
    PROVE  ApiInv'
  <1> DEFINE p == First(Pending)
             rest == Pending \ {p}
  <1>0. TypeInv /\ Fitting /\ OneStores /\ Stored /\ ChainRuns /\ ChainSent
    BY DEF ApiInv
  <1>1. /\ chain.at = "fire" /\ Pending # {} /\ Pending \subseteq chain.slots /\ chain.slots \subseteq Slots
        /\ chain.sent \in Seq(Slots)
        /\ UNCHANGED <<table, nvs, bonds, enabled, pc, raced, stale, touched>>
    BY <1>0 DEF ChainFires, ChainRuns, ChainSent, TypeInv, Runner
  <1>2. /\ p \in Pending /\ p \in Slots /\ \A u \in Pending : p <= u
        /\ \/ /\ p \in touched /\ chain' = Fired(<<>>) /\ workers' = workers
           \/ \E f \in Slots : /\ chain' = Fired(<<f>>) /\ Spawn(table[f])
                               /\ f = p \/ (f \in touched /\ p \in touched)
    BY ChainSendsTo
  <1>3. JobsFit(workers')
    <2>1. JobsFit(workers)
      BY <1>0 DEF TypeInv, JobsFit
    <2>2. \A f \in Slots : table[f] \in Record
      BY <1>0 DEF TypeInv
    <2> QED BY <1>2, <2>1, <2>2, SpawnFits
  \* What is sent: nothing, or the one.
  <1>4. /\ chain' \in Runner /\ chain'.slots = chain.slots
        /\ chain'.at = (IF rest = {} THEN "done" ELSE "fire")
        /\ Pending' = rest /\ \A s \in rest : chain'.names[s] = chain.names[s]
    <2>1. <<>> \in Seq(Slots) /\ \A f \in Slots : <<f>> \in Seq(Slots)
      OBVIOUS
    <2>2. PICK q \in Seq(Slots) : chain' = Fired(q)
      BY <1>2, <2>1
    <2>3. /\ Fired(q) \in Runner /\ Fired(q).slots = chain.slots
          /\ Fired(q).at = (IF rest = {} THEN "done" ELSE "fire")
          /\ DOMAIN Fired(q).names = rest
          /\ \A s \in rest : Fired(q).names[s] = chain.names[s]
      BY <1>0, <1>1, FiredIs
    <2> HIDE DEF p, rest
    <2> QED BY <2>2, <2>3 DEF Pending
  <1>5. SentTo' \ touched = (SentTo \cup {p}) \ touched
    <2>1. CASE p \in touched /\ chain' = Fired(<<>>)
      <3>1. chain'.sent = chain.sent \o <<>>
        <4>1. <<>> \in Seq(Slots)
          OBVIOUS
        <4>2. Fired(<<>>).sent = chain.sent \o <<>>
          BY <1>0, <1>1, <4>1, FiredIs
        <4> QED BY <2>1, <4>2
      <3>2. chain'.sent = chain.sent
        BY <1>1, <3>1, ConcatEmptySeq
      <3> QED BY <2>1, <3>2 DEF SentTo
    <2>2. ASSUME NEW f \in Slots, chain' = Fired(<<f>>), f = p \/ (f \in touched /\ p \in touched)
          PROVE  SentTo' \ touched = (SentTo \cup {p}) \ touched
      <3>1. <<f>> \in Seq(Slots)
        OBVIOUS
      <3>2. chain'.sent = chain.sent \o <<f>>
        BY <1>0, <1>1, <2>2, <3>1, FiredIs
      <3>3. SentTo' = SentTo \cup {f}
        <4> DEFINE g == chain.sent \o <<f>>
        <4>1. {g[i] : i \in DOMAIN g} = {chain.sent[i] : i \in DOMAIN chain.sent} \cup {f}
          BY <1>1, GrownBy
        <4> HIDE DEF g
        <4>2. chain'.sent = g
          BY <3>2 DEF g
        <4> QED BY <4>1, <4>2 DEF SentTo
      <3> QED BY <2>2, <3>3
    <2> QED BY <1>2, <2>1, <2>2
  <1>6. Ascending(chain'.sent, Slots \ touched)
    <2>1. CASE p \in touched /\ chain' = Fired(<<>>)
      <3>1. chain'.sent = chain.sent \o <<>>
        <4>1. <<>> \in Seq(Slots)
          OBVIOUS
        <4>2. Fired(<<>>).sent = chain.sent \o <<>>
          BY <1>0, <1>1, <4>1, FiredIs
        <4> QED BY <2>1, <4>2
      <3>2. chain'.sent = chain.sent
        BY <1>1, <3>1, ConcatEmptySeq
      <3> QED BY <1>0, <3>2 DEF ChainSent
    <2>2. ASSUME NEW f \in Slots, chain' = Fired(<<f>>), f = p \/ (f \in touched /\ p \in touched)
          PROVE  Ascending(chain'.sent, Slots \ touched)
      <3>1. <<f>> \in Seq(Slots)
        OBVIOUS
      <3>2. chain'.sent = chain.sent \o <<f>>
        BY <1>0, <1>1, <2>2, <3>1, FiredIs
      <3>3. f \in Slots \ touched => \A t \in SentTo \cap (Slots \ touched) : t < f
        <4> SUFFICES ASSUME f \notin touched, NEW t \in SentTo, t \notin touched PROVE t < f
          OBVIOUS
        <4>1. f = p
          BY <2>2
        <4>2. t \in Behind
          BY <1>0 DEF ChainSent
        <4> QED BY <1>0, <1>2, <4>1, <4>2 DEF ChainSent
      <3>4. Ascending(chain.sent, Slots \ touched)
        BY <1>0 DEF ChainSent
      <3> QED BY <1>1, <3>2, <3>3, <3>4, GrownAscending DEF SentTo
    <2> QED BY <1>2, <2>1, <2>2
  <1>7. TypeInv'
    BY <1>0, <1>1, <1>3, <1>4 DEF TypeInv, JobsFit
  <1>8. ChainRuns'
    <2>1. \A s \in Slots : Alone(s)' <=> Alone(s)
      BY <1>1 DEF Alone
    <2>2. \A c \in Callers : pc'[c].at = "fill" => pc'[c].slot \in touched'
      BY <1>0, <1>1 DEF ChainRuns
    <2>3. chain'.at = "fire" => rest # {}
      BY <1>4
    <2> HIDE DEF p
    <2> QED BY <1>0, <1>1, <1>4, <2>1, <2>2, <2>3 DEF ChainRuns
  <1>9. ChainSent'
    <2>1. Behind' = Behind \cup {p}
      BY <1>1, <1>2, <1>4 DEF Behind
    <2>2. \A t \in Behind' : \A u \in Pending' : t < u
      <3>1. ASSUME NEW u \in Pending'  PROVE p < u
        <4>1. u \in Pending /\ u # p /\ u \in Nat /\ p \in Nat
          BY <1>1, <1>2, <1>4, <3>1, SlotsAreNumbers
        <4> QED BY <1>2, <4>1
      <3> QED BY <1>0, <1>4, <2>1, <3>1 DEF ChainSent
    <2>3. SentTo' \ touched' = Behind' \ touched'
      BY <1>0, <1>1, <1>5, <2>1 DEF ChainSent
    <2>4. Pending' \subseteq chain'.slots /\ (chain'.at # "fire" => Pending' = {})
      BY <1>1, <1>4
    <2>5. Ascending(chain'.sent, Slots \ touched')
      BY <1>1, <1>6
    <2> QED BY <2>2, <2>3, <2>4, <2>5 DEF ChainSent
  <1> QED BY <1>1, <1>7, <1>8, <1>9, StoresAsBefore DEF ApiInv

-----------------------------------------------------------------------------
(* From outside.                                                           *)

\* The ends and the retries of sends keep the invariant.
LEMMA JobsKeep ==
    ASSUME ApiInv, NEW j \in workers, JobEnds(j) \/ JobRetries(j)
    PROVE  ApiInv'
  <1>1. UNCHANGED <<table, nvs, bonds, enabled, pc, chain, raced, stale, touched>>
    BY DEF JobEnds, JobRetries
  <1>2. JobsFit(workers')
    BY JobStepsFit DEF ApiInv, TypeInv, JobsFit
  <1>3. TypeInv'
    BY <1>1, <1>2 DEF ApiInv, TypeInv, JobsFit
  <1>4. ChainRuns' /\ ChainSent'
    BY <1>1 DEF ApiInv, ChainRuns, ChainSent, Pending, Behind, SentTo, Alone
  <1> QED BY <1>1, <1>3, <1>4, StoresAsBefore DEF ApiInv

\* So do the switch of the endpoints and the end of a bond.
LEMMA BondsKeep ==
    ASSUME ApiInv, Switch \/ \E p \in Peers : Unpair(p)
    PROVE  ApiInv'
  <1>0. TypeInv /\ Fitting /\ OneStores /\ Stored /\ ChainRuns /\ ChainSent
    BY DEF ApiInv
  <1>1. /\ UNCHANGED <<table, nvs, pc, chain, workers, raced, stale>>
        /\ bonds' \subseteq Peers /\ enabled' \in BOOLEAN
        /\ \/ touched' = touched /\ enabled' = enabled
           \/ touched' = Slots
    BY <1>0 DEF Switch, Unpair, SetEnabledAll, TypeInv
  <1>2. TypeInv'
    BY <1>0, <1>1 DEF TypeInv
  <1>3. ChainRuns'
    <2>1. Pending \subseteq Slots /\ chain.slots \subseteq Slots
      BY <1>0 DEF ChainSent, TypeInv, Runner
    <2> QED BY <1>0, <1>1, <2>1 DEF ChainRuns, Pending, Alone, Fitting, Storing
  <1>4. ChainSent'
    <2>1. SentTo \subseteq Slots /\ Behind \subseteq Slots
      BY <1>0 DEF SentTo, Behind, TypeInv, Runner
    <2> QED BY <1>0, <1>1, <2>1 DEF ChainSent, Pending, Behind, SentTo, Ascending
  <1> QED BY <1>1, <1>2, <1>3, <1>4, StoresAsBefore DEF ApiInv

\* So does a factory reset, of table and flash.
LEMMA FactoryResetKeeps ==
    ASSUME ApiInv, FactoryReset
    PROVE  ApiInv'
  <1>0. TypeInv /\ Fitting /\ OneStores /\ Stored /\ ChainRuns /\ ChainSent
    BY DEF ApiInv
  <1>1. /\ nvs' = [s \in Slots |-> Empty] /\ table' = nvs'
        /\ bonds' = {} /\ enabled' = TRUE
        /\ raced' = raced \cup {pc[c].slot : c \in {d \in Callers : pc[d].at \in Storing}}
        /\ stale' = {} /\ touched' = Slots
        /\ UNCHANGED <<pc, chain, workers>>
    BY DEF FactoryReset
  <1>2. raced \subseteq raced' /\ raced' \subseteq Slots /\ \A c \in Callers : \A s \in Slots : Stores(c, s) => s \in raced'
    BY <1>0, <1>1 DEF Fitting, TypeInv, Stores
  <1>3. TypeInv'
    BY <1>0, <1>1, <1>2, EmptyRecord DEF TypeInv
  <1>4. Fitting'
    BY <1>0, <1>1, EmptyRecord DEF Fitting, RecordFits
  <1>5. OneStores' /\ Stored'
    <2>1. \A c \in Callers : \A s \in Slots : Stores(c, s)' <=> Stores(c, s)
      BY <1>1 DEF Stores
    <2>2. OneStores'
      BY <1>0, <1>1, <1>2, <2>1 DEF OneStores, Fitting, Storing
    <2> QED BY <1>1, <2>2 DEF Stored
  <1>6. ChainRuns'
    <2>1. Pending \subseteq Slots /\ chain.slots \subseteq Slots
      BY <1>0 DEF ChainSent, TypeInv, Runner
    <2> QED BY <1>0, <1>1, <2>1 DEF ChainRuns, Pending, Fitting, Storing
  <1>7. ChainSent'
    <2>1. SentTo \subseteq Slots /\ Behind \subseteq Slots
      BY <1>0 DEF SentTo, Behind, TypeInv, Runner
    <2> QED BY <1>0, <1>1, <2>1 DEF ChainSent, Pending, Behind, SentTo, Ascending
  <1> QED BY <1>3, <1>4, <1>5, <1>6, <1>7 DEF ApiInv

\* Nothing runs, and what is in the table fits.
AtRest ==
    /\ pc = [c \in Callers |-> Idle]
    /\ chain = NoChain /\ workers = {}
    /\ \A s \in Slots : RecordFits(table[s], s)

\* At rest the invariant asks that table and flash agree.
LEMMA RestHolds ==
    ASSUME AtRest, raced \in SUBSET Slots, stale \in SUBSET Slots, touched \in SUBSET Slots,
           table \in [Slots -> Record], nvs \in [Slots -> Record], bonds \subseteq Peers, enabled \in BOOLEAN,
           \A s \in Slots \ (raced \cup stale) : nvs[s] = table[s]
    PROVE  ApiInv
  <1>1. \A c \in Callers : pc[c] = Idle /\ pc[c].at = "idle"
    BY DEF AtRest, Idle
  <1>2. chain.at = "none" /\ chain.slots = {} /\ chain.sent = <<>> /\ chain.names = <<>>
    BY DEF AtRest, NoChain
  <1>3. DOMAIN <<>> = {} /\ Pending = {} /\ <<>> \in [{} -> Names \cup {None}]
    BY <1>2 DEF Pending
  <1>4. chain \in Runner
    <2>1. <<>> \in UNION {[S -> Names \cup {None}] : S \in SUBSET Slots}
      BY <1>3
    <2>2. <<>> \in Seq(Slots)
      OBVIOUS
    <2> QED BY <2>1, <2>2 DEF AtRest, NoChain, Runner
  <1>5. IsFiniteSet(workers) /\ Cardinality(workers) <= MaxJobs
    <2>1. workers = {} /\ Cardinality({}) = 0 /\ IsFiniteSet({})
      BY FS_EmptySet DEF AtRest
    <2> QED BY <2>1, CallsAssumption
  <1>6. TypeInv
    BY <1>4, <1>5, PlacesDiffer DEF TypeInv, AtRest
  <1>7. Fitting
    BY <1>1, PlacesDiffer DEF Fitting, AtRest
  <1>8. OneStores /\ Stored
    BY <1>1, PlacesDiffer DEF OneStores, Stored, Stores
  <1>9. ChainRuns /\ ChainSent
    BY <1>1, <1>2, <1>3 DEF ChainRuns, ChainSent, Behind, SentTo, Ascending
  <1> QED BY <1>6, <1>7, <1>8, <1>9 DEF ApiInv

\* A device with empty flash, at its first boot, is at rest.
LEMMA ApiInitially == ApiInit => ApiInv
  <1> SUFFICES ASSUME ApiInit PROVE ApiInv
    OBVIOUS
  <1>1. AtRest
    BY EmptyRecord DEF ApiInit, AtRest, RecordFits
  <1>2. /\ table \in [Slots -> Record] /\ nvs = table /\ raced = {} /\ stale = {} /\ touched = {}
        /\ bonds \subseteq Peers /\ enabled \in BOOLEAN
    BY EmptyRecord DEF ApiInit
  <1> QED BY <1>1, <1>2, RestHolds

\* A restart loads the table from flash, whatever was under way.
LEMMA RebootKeeps ==
    ASSUME ApiInv, Reboot
    PROVE  ApiInv'
  <1>1. /\ table' = Loaded(nvs) /\ pc' = [c \in Callers |-> Idle] /\ chain' = NoChain /\ workers' = {}
        /\ raced' = {} /\ touched' = {} /\ stale' = {s \in Slots : Loaded(nvs)[s] # nvs[s]}
        /\ UNCHANGED <<nvs, bonds, enabled>>
    BY DEF Reboot
  <1>2. nvs \in [Slots -> Record] /\ bonds \subseteq Peers /\ enabled \in BOOLEAN
    BY DEF ApiInv, TypeInv
  <1>3. Loaded(nvs) \in [Slots -> Record] /\ \A s \in Slots : RecordFits(Loaded(nvs)[s], s)
    BY <1>2, LoadedFits
  <1>4. AtRest'
    BY <1>1, <1>3 DEF AtRest
  <1>5. \A s \in Slots \ (raced' \cup stale') : nvs'[s] = table'[s]
    BY <1>1
  <1>6. /\ raced' \in SUBSET Slots /\ stale' \in SUBSET Slots /\ touched' \in SUBSET Slots
        /\ table' \in [Slots -> Record] /\ nvs' \in [Slots -> Record] /\ bonds' \subseteq Peers /\ enabled' \in BOOLEAN
    BY <1>1, <1>2, <1>3
  <1>7. (AtRest /\ raced \in SUBSET Slots /\ stale \in SUBSET Slots /\ touched \in SUBSET Slots
         /\ table \in [Slots -> Record] /\ nvs \in [Slots -> Record] /\ bonds \subseteq Peers /\ enabled \in BOOLEAN
         /\ (\A s \in Slots \ (raced \cup stale) : nvs[s] = table[s]) => ApiInv)'
    BY RestHolds, PTL
  <1> QED BY <1>4, <1>5, <1>6, <1>7

-----------------------------------------------------------------------------
\* The invariant is inductive.
LEMMA ApiStepKeeps == ApiInv /\ [ApiNext]_apiVars => ApiInv'
  <1> SUFFICES ASSUME ApiInv, [ApiNext]_apiVars PROVE ApiInv'
    OBVIOUS
  <1>1. ASSUME NEW c \in Callers, Commands(c)  PROVE ApiInv'
    BY <1>1, RequestsKeep, PurgeKeeps, SendKeeps DEF Commands
  <1>2. ASSUME NEW c \in Callers, StoreSteps(c) \/ SaveFails(c)  PROVE ApiInv'
    BY <1>2, PurgeKeeps, ClearKeeps, FillKeeps, SaveFrontKeeps, SaveEndsKeeps, SendKeeps DEF StoreSteps
  <1>3. CASE \E j \in workers : JobEnds(j) \/ JobRetries(j)
    BY <1>3, JobsKeep
  <1>4. CASE ChainRun \/ ChainFires
    BY <1>4, ChainRunKeeps, ChainFiresKeeps
  <1>5. CASE Switch \/ FactoryReset \/ Reboot \/ \E p \in Peers : Unpair(p)
    BY <1>5, BondsKeep, FactoryResetKeeps, RebootKeeps
  <1>6. CASE UNCHANGED apiVars
    <2>1. UNCHANGED <<table, nvs, bonds, enabled, pc, chain, workers, raced, stale, touched>>
      BY <1>6 DEF apiVars
    <2>2. TypeInv' /\ ChainRuns' /\ ChainSent'
      BY <2>1 DEF ApiInv, TypeInv, ChainRuns, ChainSent, Pending, Behind, SentTo, Alone
    <2> QED BY <2>1, <2>2, StoresAsBefore DEF ApiInv
  <1> QED BY <1>1, <1>2, <1>3, <1>4, <1>5, <1>6 DEF ApiNext

\* The table, the flash, what the callers have in hand, the chain and the jobs stay in
\* step as ApiInv says, through every command, purge, failed write and restart.
THEOREM ApiInvariant == ApiSpec => []ApiInv
  BY ApiInitially, ApiStepKeeps, PTL DEF ApiSpec

\* The endpoint store keeps its types for any names and peers: a webhook is in a slot of
\* the user, a listener in one of the system, and no more sends wait than there are
\* tasks for.
THEOREM ApiTypes == ApiSpec => []ApiTypeOK
  <1>1. ASSUME ApiInv PROVE ApiTypeOK
    <2>1. TypeInv /\ Fitting
      BY <1>1 DEF ApiInv
    <2>2. \A s \in User : s \in Slots /\ s \in User
      BY SlotsAreNumbers
    <2>3. \A s \in User : table[s].peer = None
      BY <2>1, <2>2, EmptyRecord DEF Fitting, RecordFits
    <2>4. \A s \in Used(table, System) : table[s].peer # None
      <3>1. \A s \in System : s \in Slots /\ s \notin User
        BY SlotsAreNumbers
      <3> QED BY <2>1, <3>1 DEF Used, Fitting, RecordFits
    <2> QED BY <2>1, <2>3, <2>4 DEF ApiTypeOK, TypeInv, Caller, Job
  <1> QED BY <1>1, ApiInvariant, PTL

\* sk_api.c stores a record in the table and then in flash, field by field: with nobody
\* under way in a slot, no failed write and no two callers in it at a time, the flash
\* holds what the table holds.
THEOREM HeldIsStored == ApiSpec => []StoredAsHeld
  <1>1. ApiInv => StoredAsHeld
    BY DEF ApiInv, Stored, StoredAsHeld, Stores
  <1> QED BY <1>1, ApiInvariant, PTL

\* chain_runner looks each endpoint up by the name it had when the chain was
\* started: every slot of the chain that nobody touched since is sent to, once and in the
\* order of the slots.
THEOREM ChainsReach == ApiSpec => []ChainReaches
  <1>1. ASSUME ApiInv PROVE ChainReaches
    <2> SUFFICES ASSUME chain.at = "done"
                 PROVE  /\ SentTo \ touched = chain.slots \ touched
                        /\ \A i, j \in DOMAIN chain.sent :
                               i < j /\ {chain.sent[i], chain.sent[j]} \cap touched = {}
                                   => chain.sent[i] < chain.sent[j]
      BY DEF ChainReaches, Steady
    <2>1. ChainSent /\ chain \in Runner
      BY <1>1 DEF ApiInv, TypeInv
    <2>2. Behind = chain.slots
      BY <2>1 DEF ChainSent, Behind
    <2>3. \A i \in DOMAIN chain.sent : chain.sent[i] \in Slots
      BY <2>1 DEF Runner
    <2> QED BY <2>1, <2>2, <2>3 DEF ChainSent, Ascending
  <1> QED BY <1>1, ApiInvariant, PTL
=============================================================================
