---------------------------- MODULE SafeSequence ----------------------------
(***************************************************************************)
(* The sequence a user dials on the knob (sd_sequence.c): detents to the    *)
(* right (1) and to the left (-1) and button presses accumulate into        *)
(* signed segments, and a pause finalizes the attempt.                     *)
(*                                                                         *)
(* RunLengths is the reference: the runs of equal detents in what was       *)
(* typed, a press or a change of direction ending a run.                   *)
(***************************************************************************)
EXTENDS Integers, Sequences, FiniteSets

CONSTANTS
    MaxSegments,  \* SD_SEQ_MAX_SET_SEGMENTS
    MaxTicks      \* SD_SEQ_MAX_TICKS

ASSUME SequenceAssumption == MaxSegments \in Nat \ {0} /\ MaxTicks \in Nat \ {0}

Press == 0
Detents == {-1, 1}
Steps == Detents \union {Press}

Segments == {d * n: d \in Detents, n \in 1..MaxTicks}

\* sd_seq_input_t.  cur_ticks counts on after an overflow, where only its
\* being above MaxTicks is asked: it stops at MaxTicks + 1.
Entries ==
    [segs: Seq(Segments), dir: Detents \union {0}, ticks: 0..(MaxTicks + 1),
     active: BOOLEAN, overflow: BOOLEAN]

\* sd_seq_input_init.
NewEntry ==
    [segs |-> <<>>, dir |-> 0, ticks |-> 0, active |-> FALSE, overflow |-> FALSE]

\* A mutation: the count of detents is not compared with its limit.
CommitLongSegment(e) ==
    IF e.dir = 0 \/ e.ticks = 0 THEN e
    ELSE IF Len(e.segs) >= MaxSegments
    THEN [e EXCEPT !.overflow = TRUE]
    ELSE [e EXCEPT !.segs = Append(@, e.dir * e.ticks), !.ticks = 0, !.dir = 0]

\* commit_segment.
CommitSegment(e) ==
    IF e.dir = 0 \/ e.ticks = 0 THEN e
    ELSE IF Len(e.segs) >= MaxSegments \/ e.ticks > MaxTicks
    THEN [e EXCEPT !.overflow = TRUE]
    ELSE [e EXCEPT !.segs = Append(@, e.dir * e.ticks), !.ticks = 0, !.dir = 0]

\* One more detent on the running segment.
CountTick(e, d) ==
    [e EXCEPT !.active = TRUE, !.dir = d,
              !.ticks = IF @ > MaxTicks THEN @ ELSE @ + 1,
              !.overflow = @ \/ e.ticks + 1 > MaxTicks]

\* sd_seq_input_rotate.
RotateEntry(e, d) ==
    CountTick(IF e.dir # 0 /\ d # e.dir THEN CommitSegment(e) ELSE e, d)

\* A mutation: a press does not end the running segment.
PressIgnored(e) == e

\* sd_seq_input_button.
PressEntry(e) == IF e.active THEN CommitSegment(e) ELSE e

EnterStep(e, step) == IF step = Press THEN PressEntry(e) ELSE RotateEntry(e, step)

\* sd_seq_input_overflowed: asked before finalize.
Overflowed(e) ==
    /\ e.active
    /\ e.overflow \/ (e.dir # 0 /\ e.ticks > 0 /\ Len(e.segs) >= MaxSegments)

\* sd_seq_input_finalize's attempt; the empty sequence stands for "false".
Finalized(e) ==
    LET c == CommitSegment(e)
    IN  IF e.active /\ ~c.overflow THEN c.segs ELSE <<>>

-----------------------------------------------------------------------------
(* Reference.                                                              *)

\* Where the runs of detents begin, and how long the run from i is.
RunStarts(typed) ==
    {i \in 1..Len(typed): typed[i] # Press /\ (i > 1 => typed[i - 1] # typed[i])}

RunLength(typed, i) ==
    Cardinality({k \in i..Len(typed): \A m \in i..k: typed[m] = typed[i]})

\* The runs in order: the k-th start is the one with k starts up to it.
RunLengths(typed) ==
    LET starts == RunStarts(typed)
        start(k) == CHOOSE i \in starts: Cardinality({j \in starts: j <= i}) = k
    IN  [k \in 1..Cardinality(starts) |->
            typed[start(k)] * RunLength(typed, start(k))]

\* The attempt can be told apart from a longer one.
Fits(typed) ==
    /\ Cardinality(RunStarts(typed)) <= MaxSegments
    /\ \A i \in RunStarts(typed): RunLength(typed, i) <= MaxTicks
=============================================================================
