----------------------------- MODULE DetentQueue -----------------------------
(***************************************************************************)
(* What the encoder promises to its task (sd_encoder.c): a queue of detents *)
(* of bounded capacity between one producer and one consumer.  A detent is  *)
(* accepted while there is room and dropped otherwise; the consumer is given *)
(* the oldest, keeps its place while it works on it, and lets it go.        *)
(***************************************************************************)
EXTENDS Naturals, Sequences

CONSTANTS
    Directions,  \* the detents
    Capacity,    \* how many are held at most, the one in work included
    NoEvent      \* no detent

VARIABLES
    owed,   \* the detents accepted and not given out, oldest first
    given   \* the detent the consumer works on, or NoEvent

queueVars == <<owed, given>>

Init == owed = <<>> /\ given = NoEvent

InUse == Len(owed) + IF given = NoEvent THEN 0 ELSE 1

\* The producer adds a detent.
Accept(d) ==
    /\ InUse < Capacity
    /\ owed' = Append(owed, d)
    /\ UNCHANGED given

\* The consumer is given the oldest.
Deliver ==
    /\ given = NoEvent /\ owed # <<>>
    /\ given' = Head(owed)
    /\ owed' = Tail(owed)

\* ... and lets it go.
Done ==
    /\ given # NoEvent
    /\ given' = NoEvent
    /\ UNCHANGED owed

Next == (\E d \in Directions: Accept(d)) \/ Deliver \/ Done

Safety == Init /\ [][Next]_queueVars

\* A detent that waits is given to a consumer that is free.
Progress == (given = NoEvent /\ owed # <<>>) ~> (given # NoEvent)
=============================================================================
