--------------------- MODULE JobQueue_Protocols_proofs ----------------------
(***************************************************************************)
(* Proofs about the queue of jobs and about what carries a job out, the    *)
(* protocols.                                                              *)
(*                                                                         *)
(* The job blocks are owned as test_release's comment promises, for any    *)
(* number of tasks, blocks and queue places: BlocksOwned holds.  The       *)
(* argument separates where the blocks are from what they hold.  A block is*)
(* HeldSomewhere when the queue or a task's variable points to it; every   *)
(* operation moves a block between two places, lets one go or brings one   *)
(* in, and the lemmas of the first part say what that does to it.  The     *)
(* second part settles the heap's account: a block is allocated exactly    *)
(* when it is held or waited for, and a TEST counts these references.      *)
(*                                                                         *)
(* The third part is about the MQTT session, for any slots and topics, and *)
(* about the mapping of values, for any ranges: SessionShared, SendsMapped.*)
(***************************************************************************)
EXTENDS JobQueue, Protocols, FiniteSetTheorems, SequenceTheorems, TLAPS


\* The queue or a task's variable points to block b.
HeldSomewhere(b) == InQueue(b) \/ InHand(b)

Ref == Blocks \union {NoBlock}

BlockType == [type: Types \union {"free"}, refs: 0..2, done: BOOLEAN,
              result: {"none", "ran", "no_mem"}]

-----------------------------------------------------------------------------
(* Where the blocks are.                                                   *)

\* A queue that names no block twice, and what it names.
Distinct(q) == \A i, k \in 1..Len(q): q[i] = q[k] => i = k
In(q, b) == \E i \in 1..Len(q): q[i] = b

\* xQueueReceive: the head leaves a queue without repetitions, nothing else does.
LEMMA TailFacts ==
    ASSUME NEW q \in Seq(Blocks), q # <<>>, Distinct(q)
    PROVE  /\ Tail(q) \in Seq(Blocks) /\ Len(Tail(q)) = Len(q) - 1
           /\ Head(q) \in Blocks /\ In(q, Head(q))
           /\ Distinct(Tail(q))
           /\ \A b: In(Tail(q), b) <=> In(q, b) /\ b # Head(q)
<1>1. /\ Tail(q) \in Seq(Blocks) /\ Len(Tail(q)) = Len(q) - 1
      /\ Head(q) = q[1] /\ Len(q) \in Nat /\ Len(q) > 0
      /\ \A i \in 1..Len(Tail(q)): Tail(q)[i] = q[i + 1]
  BY HeadTailProperties
<1>2. Head(q) \in Blocks /\ In(q, Head(q))
  BY <1>1 DEF In
<1>3. Distinct(Tail(q))
  BY <1>1 DEF Distinct
<1>4. ASSUME NEW b, In(Tail(q), b) PROVE In(q, b) /\ b # Head(q)
  BY <1>1, <1>4 DEF In, Distinct
<1>5. ASSUME NEW b, In(q, b), b # Head(q) PROVE In(Tail(q), b)
  <2>1. PICK i \in 1..Len(q): q[i] = b
    BY <1>5 DEF In
  <2>2. i - 1 \in 1..Len(Tail(q)) /\ Tail(q)[i - 1] = b
    BY <1>1, <1>5, <2>1
  <2>. QED BY <2>2 DEF In
<1>. QED BY <1>1, <1>2, <1>3, <1>4, <1>5

\* xQueueSend: a block that is not in the queue yet joins it.
LEMMA AppendFacts ==
    ASSUME NEW q \in Seq(Blocks), NEW b \in Blocks, Distinct(q), ~In(q, b)
    PROVE  /\ Append(q, b) \in Seq(Blocks) /\ Len(Append(q, b)) = Len(q) + 1
           /\ Distinct(Append(q, b))
           /\ \A c: In(Append(q, b), c) <=> In(q, c) \/ c = b
<1>1. /\ Append(q, b) \in Seq(Blocks) /\ Len(Append(q, b)) = Len(q) + 1
      /\ Len(q) \in Nat
      /\ \A i \in 1..Len(q): Append(q, b)[i] = q[i]
      /\ Append(q, b)[Len(q) + 1] = b
  BY AppendProperties
<1>. DEFINE a == Append(q, b)
<1>2. /\ Len(a) = Len(q) + 1 /\ Len(q) \in Nat /\ a[Len(q) + 1] = b
      /\ \A i \in 1..Len(q): a[i] = q[i]
  BY <1>1
<1>. HIDE DEF a
<1>3. Distinct(a)
  BY <1>2 DEF Distinct, In
<1>4. ASSUME NEW c, In(a, c) PROVE In(q, c) \/ c = b
  BY <1>2, <1>4 DEF In
<1>5. ASSUME NEW c, In(q, c) \/ c = b PROVE In(a, c)
  BY <1>2, <1>5 DEF In
<1>. QED BY <1>1, <1>3, <1>4, <1>5 DEF a

\* SingleOwner, in the words of the two lemmas above.
Apart ==
    /\ Distinct(queue)
    /\ \A t \in Tasks: ~In(queue, hand[t]) /\ ~In(queue, other[t])
    /\ \A t, u \in Tasks:
        /\ hand[t] = hand[u] => t = u \/ hand[t] = NoBlock
        /\ other[t] = other[u] => t = u \/ other[t] = NoBlock
        /\ hand[t] = other[u] => hand[t] = NoBlock

Places ==
    /\ queue \in Seq(Blocks)
    /\ hand \in [Tasks -> Ref] /\ other \in [Tasks -> Ref]
    /\ Apart

\* The two forms say the same.
LEMMA ApartIsSingleOwner == Apart <=> SingleOwner
BY DEF Apart, SingleOwner, Distinct, In

\* A task with an empty hand takes the oldest job: no block changes its status.
LEMMA TakeToHand ==
    ASSUME Places, NEW t \in Tasks, queue # <<>>, hand[t] = NoBlock,
           queue' = Tail(queue), hand' = [hand EXCEPT ![t] = Head(queue)],
           other' = other
    PROVE  Places' /\ \A b \in Blocks: HeldSomewhere(b)' <=> HeldSomewhere(b)
<1>. USE JobQueueAssumption
<1>1. /\ queue' \in Seq(Blocks) /\ Distinct(queue')
      /\ Head(queue) \in Blocks /\ In(queue, Head(queue))
      /\ \A b: In(queue', b) <=> In(queue, b) /\ b # Head(queue)
  BY TailFacts DEF Places, Apart
<1>. DEFINE h == Head(queue)
<1>2. h \in Blocks /\ h # NoBlock /\ In(queue, h) /\ hand' = [hand EXCEPT ![t] = h]
      /\ \A b: In(queue', b) <=> In(queue, b) /\ b # h
  BY <1>1
<1>. HIDE DEF h
<1>3. Places'
  BY <1>1, <1>2 DEF Places, Apart, Ref
<1>4. ASSUME NEW b \in Blocks PROVE HeldSomewhere(b)' <=> HeldSomewhere(b)
  <2>1. InHand(b)' <=> InHand(b) \/ b = h
    BY <1>2 DEF InHand, Places, Ref
  <2>2. InQueue(b)' <=> InQueue(b) /\ b # h
    BY <1>2 DEF InQueue, In
  <2>3. InQueue(h)
    BY <1>2 DEF InQueue, In
  <2>. QED BY <2>1, <2>2, <2>3 DEF HeldSomewhere
<1>. QED BY <1>3, <1>4

\* The same, taken out as the other job.
LEMMA TakeToOther ==
    ASSUME Places, NEW t \in Tasks, queue # <<>>, other[t] = NoBlock,
           queue' = Tail(queue), other' = [other EXCEPT ![t] = Head(queue)],
           hand' = hand
    PROVE  Places' /\ \A b \in Blocks: HeldSomewhere(b)' <=> HeldSomewhere(b)
<1>. USE JobQueueAssumption
<1>1. /\ queue' \in Seq(Blocks) /\ Distinct(queue')
      /\ Head(queue) \in Blocks /\ In(queue, Head(queue))
      /\ \A b: In(queue', b) <=> In(queue, b) /\ b # Head(queue)
  BY TailFacts DEF Places, Apart
<1>. DEFINE h == Head(queue)
<1>2. h \in Blocks /\ h # NoBlock /\ In(queue, h) /\ other' = [other EXCEPT ![t] = h]
      /\ \A b: In(queue', b) <=> In(queue, b) /\ b # h
  BY <1>1
<1>. HIDE DEF h
<1>3. Places'
  BY <1>1, <1>2 DEF Places, Apart, Ref
<1>4. ASSUME NEW b \in Blocks PROVE HeldSomewhere(b)' <=> HeldSomewhere(b)
  <2>1. InHand(b)' <=> InHand(b) \/ b = h
    BY <1>2 DEF InHand, Places, Ref
  <2>2. InQueue(b)' <=> InQueue(b) /\ b # h
    BY <1>2 DEF InQueue, In
  <2>3. InQueue(h)
    BY <1>2 DEF InQueue, In
  <2>. QED BY <2>1, <2>2, <2>3 DEF HeldSomewhere
<1>. QED BY <1>3, <1>4

\* The oldest job leaves the queue for good: it is held no more.
LEMMA DropHead ==
    ASSUME Places, queue # <<>>, queue' = Tail(queue), UNCHANGED <<hand, other>>
    PROVE  /\ Places'
           /\ Head(queue) \in Blocks /\ InQueue(Head(queue)) /\ ~InHand(Head(queue))
           /\ \A b \in Blocks: HeldSomewhere(b)' <=> HeldSomewhere(b) /\ b # Head(queue)
<1>1. /\ queue' \in Seq(Blocks) /\ Distinct(queue')
      /\ Head(queue) \in Blocks /\ In(queue, Head(queue))
      /\ \A b: In(queue', b) <=> In(queue, b) /\ b # Head(queue)
  BY TailFacts DEF Places, Apart
<1>. DEFINE h == Head(queue)
<1>2. h \in Blocks /\ In(queue, h)
      /\ \A b: In(queue', b) <=> In(queue, b) /\ b # h
  BY <1>1
<1>0. h = Head(queue)
  OBVIOUS
<1>. HIDE DEF h
<1>3. Places'
  BY <1>1, <1>2 DEF Places, Apart, Ref
<1>4. InQueue(h) /\ ~InHand(h)
  BY <1>2 DEF InQueue, In, InHand, Places, Apart
<1>5. ASSUME NEW b \in Blocks PROVE HeldSomewhere(b)' <=> HeldSomewhere(b) /\ b # h
  <2>1. InHand(b)' <=> InHand(b)
    BY DEF InHand
  <2>2. InQueue(b)' <=> InQueue(b) /\ b # h
    BY <1>2 DEF InQueue, In
  <2>. QED BY <1>4, <2>1, <2>2 DEF HeldSomewhere
<1>. QED BY <1>0, <1>2, <1>3, <1>4, <1>5

\* A task sends the job in its hand: no block changes its status.
LEMMA SendFromHand ==
    ASSUME Places, NEW t \in Tasks, hand[t] # NoBlock,
           queue' = Append(queue, hand[t]), hand' = [hand EXCEPT ![t] = NoBlock],
           other' = other
    PROVE  Places' /\ (\A b \in Blocks: HeldSomewhere(b)' <=> HeldSomewhere(b)) /\ Len(queue') = Len(queue) + 1
<1>. USE JobQueueAssumption
<1>. DEFINE h == hand[t]
<1>1. h \in Blocks /\ h # NoBlock /\ ~In(queue, h)
  BY DEF Places, Apart, Ref
<1>2. /\ queue' \in Seq(Blocks) /\ Distinct(queue') /\ Len(queue') = Len(queue) + 1
      /\ \A b: In(queue', b) <=> In(queue, b) \/ b = h
  BY <1>1, AppendFacts DEF Places, Apart
<1>3. /\ \A u \in Tasks \ {t}: hand'[u] = hand[u]
      /\ hand'[t] = NoBlock
      /\ hand' \in [Tasks -> Ref]
  BY DEF Places, Ref
<1>4. Apart'
  <2>1. \A u \in Tasks: u # t => hand[u] # h
    BY <1>1 DEF Places, Apart
  <2>2. \A u \in Tasks: other[u] # h
    BY <1>1 DEF Places, Apart
  <2>3. \A u \in Tasks: ~In(queue', hand'[u]) /\ ~In(queue', other'[u])
    BY <1>1, <1>2, <1>3, <2>1, <2>2 DEF Places, Apart, Ref, In
  <2>4. \A u, v \in Tasks:
          /\ hand'[u] = hand'[v] => u = v \/ hand'[u] = NoBlock
          /\ other'[u] = other'[v] => u = v \/ other'[u] = NoBlock
          /\ hand'[u] = other'[v] => hand'[u] = NoBlock
    BY <1>3 DEF Places, Apart
  <2>. QED BY <1>2, <2>3, <2>4 DEF Apart
<1>5. ASSUME NEW b \in Blocks PROVE HeldSomewhere(b)' <=> HeldSomewhere(b)
  <2>1. InHand(b)' <=> InHand(b) /\ b # h
    BY <1>1, <1>3 DEF InHand, Places, Apart, Ref
  <2>2. InQueue(b)' <=> InQueue(b) \/ b = h
    BY <1>2 DEF InQueue, In
  <2>3. InHand(h)
    BY DEF InHand
  <2>. QED BY <2>1, <2>2, <2>3 DEF HeldSomewhere
<1>. QED BY <1>2, <1>3, <1>4, <1>5 DEF Places

\* The same, from the other job.
LEMMA SendFromOther ==
    ASSUME Places, NEW t \in Tasks, other[t] # NoBlock,
           queue' = Append(queue, other[t]), other' = [other EXCEPT ![t] = NoBlock],
           hand' = hand
    PROVE  Places' /\ (\A b \in Blocks: HeldSomewhere(b)' <=> HeldSomewhere(b)) /\ Len(queue') = Len(queue) + 1
<1>. USE JobQueueAssumption
<1>. DEFINE h == other[t]
<1>1. h \in Blocks /\ h # NoBlock /\ ~In(queue, h)
  BY DEF Places, Apart, Ref
<1>2. /\ queue' \in Seq(Blocks) /\ Distinct(queue') /\ Len(queue') = Len(queue) + 1
      /\ \A b: In(queue', b) <=> In(queue, b) \/ b = h
  BY <1>1, AppendFacts DEF Places, Apart
<1>3. /\ \A u \in Tasks \ {t}: other'[u] = other[u]
      /\ other'[t] = NoBlock
      /\ other' \in [Tasks -> Ref]
  BY DEF Places, Ref
<1>4. Apart'
  <2>1. \A u \in Tasks: u # t => other[u] # h
    BY <1>1 DEF Places, Apart
  <2>2. \A u \in Tasks: hand[u] # h
    BY <1>1 DEF Places, Apart
  <2>3. \A u \in Tasks: ~In(queue', hand'[u]) /\ ~In(queue', other'[u])
    BY <1>1, <1>2, <1>3, <2>1, <2>2 DEF Places, Apart, Ref, In
  <2>4. \A u, v \in Tasks:
          /\ hand'[u] = hand'[v] => u = v \/ hand'[u] = NoBlock
          /\ other'[u] = other'[v] => u = v \/ other'[u] = NoBlock
          /\ hand'[u] = other'[v] => hand'[u] = NoBlock
    BY <1>3 DEF Places, Apart
  <2>. QED BY <1>2, <2>3, <2>4 DEF Apart
<1>5. ASSUME NEW b \in Blocks PROVE HeldSomewhere(b)' <=> HeldSomewhere(b)
  <2>1. InHand(b)' <=> InHand(b) /\ b # h
    BY <1>1, <1>3 DEF InHand, Places, Apart, Ref
  <2>2. InQueue(b)' <=> InQueue(b) \/ b = h
    BY <1>2 DEF InQueue, In
  <2>3. InHand(h)
    BY DEF InHand
  <2>. QED BY <2>1, <2>2, <2>3 DEF HeldSomewhere
<1>. QED BY <1>2, <1>3, <1>4, <1>5 DEF Places

\* A task lets go of the job in its hand.
LEMMA LetGoHand ==
    ASSUME Places, NEW t \in Tasks, hand[t] # NoBlock,
           hand' = [hand EXCEPT ![t] = NoBlock], UNCHANGED <<queue, other>>
    PROVE  /\ Places' /\ hand[t] \in Blocks /\ HeldSomewhere(hand[t])
           /\ \A b \in Blocks: HeldSomewhere(b)' <=> HeldSomewhere(b) /\ b # hand[t]
<1>. USE JobQueueAssumption
<1>1. /\ \A u \in Tasks \ {t}: hand'[u] = hand[u]
      /\ hand'[t] = NoBlock
      /\ hand' \in [Tasks -> Ref]
  BY DEF Places, Ref
<1>2. Apart'
  <2>1. \A u \in Tasks: ~In(queue', hand'[u]) /\ ~In(queue', other'[u])
    BY <1>1 DEF Places, Apart, In
  <2>2. \A u, v \in Tasks:
          /\ hand'[u] = hand'[v] => u = v \/ hand'[u] = NoBlock
          /\ other'[u] = other'[v] => u = v \/ other'[u] = NoBlock
          /\ hand'[u] = other'[v] => hand'[u] = NoBlock
    BY <1>1 DEF Places, Apart
  <2>. QED BY <2>1, <2>2 DEF Places, Apart
<1>3. hand[t] \in Blocks /\ InHand(hand[t]) /\ ~InQueue(hand[t])
  BY DEF Places, Apart, Ref, InHand, InQueue, In
<1>4. ASSUME NEW b \in Blocks PROVE HeldSomewhere(b)' <=> HeldSomewhere(b) /\ b # hand[t]
  <2>1. InHand(b)' <=> InHand(b) /\ b # hand[t]
    BY <1>1 DEF InHand, Places, Apart, Ref
  <2>2. InQueue(b)' <=> InQueue(b)
    BY DEF InQueue
  <2>. QED BY <1>3, <2>1, <2>2 DEF HeldSomewhere
<1>. QED BY <1>1, <1>2, <1>3, <1>4 DEF Places, HeldSomewhere

\* A task lets go of its other job.
LEMMA LetGoOther ==
    ASSUME Places, NEW t \in Tasks, other[t] # NoBlock,
           other' = [other EXCEPT ![t] = NoBlock], UNCHANGED <<queue, hand>>
    PROVE  /\ Places' /\ other[t] \in Blocks /\ HeldSomewhere(other[t])
           /\ \A b \in Blocks: HeldSomewhere(b)' <=> HeldSomewhere(b) /\ b # other[t]
<1>. USE JobQueueAssumption
<1>1. /\ \A u \in Tasks \ {t}: other'[u] = other[u]
      /\ other'[t] = NoBlock
      /\ other' \in [Tasks -> Ref]
  BY DEF Places, Ref
<1>2. Apart'
  <2>1. \A u \in Tasks: ~In(queue', hand'[u]) /\ ~In(queue', other'[u])
    BY <1>1 DEF Places, Apart, In
  <2>2. \A u, v \in Tasks:
          /\ hand'[u] = hand'[v] => u = v \/ hand'[u] = NoBlock
          /\ other'[u] = other'[v] => u = v \/ other'[u] = NoBlock
          /\ hand'[u] = other'[v] => hand'[u] = NoBlock
    BY <1>1 DEF Places, Apart
  <2>. QED BY <2>1, <2>2 DEF Places, Apart
<1>3. other[t] \in Blocks /\ InHand(other[t]) /\ ~InQueue(other[t])
  BY DEF Places, Apart, Ref, InHand, InQueue, In
<1>4. ASSUME NEW b \in Blocks PROVE HeldSomewhere(b)' <=> HeldSomewhere(b) /\ b # other[t]
  <2>1. InHand(b)' <=> InHand(b) /\ b # other[t]
    BY <1>1 DEF InHand, Places, Apart, Ref
  <2>2. InQueue(b)' <=> InQueue(b)
    BY DEF InQueue
  <2>. QED BY <1>3, <2>1, <2>2 DEF HeldSomewhere
<1>. QED BY <1>1, <1>2, <1>3, <1>4 DEF Places, HeldSomewhere

\* The job in hand is done with and the carried one, if any, takes its place.
LEMMA NextInHand ==
    ASSUME Places, NEW t \in Tasks, hand[t] # NoBlock,
           hand' = [hand EXCEPT ![t] = other[t]],
           other' = [other EXCEPT ![t] = NoBlock], queue' = queue
    PROVE  /\ Places' /\ hand[t] \in Blocks /\ HeldSomewhere(hand[t])
           /\ \A b \in Blocks: HeldSomewhere(b)' <=> HeldSomewhere(b) /\ b # hand[t]
<1>. USE JobQueueAssumption
<1>1. /\ \A u \in Tasks \ {t}: hand'[u] = hand[u] /\ other'[u] = other[u]
      /\ hand'[t] = other[t] /\ other'[t] = NoBlock
      /\ hand' \in [Tasks -> Ref] /\ other' \in [Tasks -> Ref]
  BY DEF Places, Ref
<1>2. Apart'
  <2>1. \A u \in Tasks: ~In(queue', hand'[u]) /\ ~In(queue', other'[u])
    BY <1>1 DEF Places, Apart, In
  <2>2. \A u, v \in Tasks:
          /\ hand'[u] = hand'[v] => u = v \/ hand'[u] = NoBlock
          /\ other'[u] = other'[v] => u = v \/ other'[u] = NoBlock
          /\ hand'[u] = other'[v] => hand'[u] = NoBlock
    BY <1>1 DEF Places, Apart
  <2>. QED BY <2>1, <2>2 DEF Places, Apart
<1>3. hand[t] \in Blocks /\ InHand(hand[t]) /\ ~InQueue(hand[t])
  BY DEF Places, Apart, Ref, InHand, InQueue, In
<1>4. ASSUME NEW b \in Blocks PROVE HeldSomewhere(b)' <=> HeldSomewhere(b) /\ b # hand[t]
  <2>1. InHand(b)' <=> InHand(b) /\ b # hand[t]
    BY <1>1 DEF InHand, Places, Apart, Ref
  <2>2. InQueue(b)' <=> InQueue(b)
    BY DEF InQueue
  <2>. QED BY <1>3, <2>1, <2>2 DEF HeldSomewhere
<1>. QED BY <1>1, <1>2, <1>3, <1>4 DEF Places, HeldSomewhere

\* The oldest job replaces the one in hand, as in the drain loop.
LEMMA ReplaceHand ==
    ASSUME Places, NEW t \in Tasks, queue # <<>>, hand[t] # NoBlock,
           queue' = Tail(queue), hand' = [hand EXCEPT ![t] = Head(queue)],
           other' = other
    PROVE  /\ Places' /\ hand[t] \in Blocks /\ HeldSomewhere(hand[t]) /\ Head(queue) # hand[t]
           /\ \A b \in Blocks: HeldSomewhere(b)' <=> HeldSomewhere(b) /\ b # hand[t]
<1>. USE JobQueueAssumption
<1>1. /\ queue' \in Seq(Blocks) /\ Distinct(queue')
      /\ Head(queue) \in Blocks /\ In(queue, Head(queue))
      /\ \A b: In(queue', b) <=> In(queue, b) /\ b # Head(queue)
  BY TailFacts DEF Places, Apart
<1>. DEFINE h == Head(queue)
<1>2. h \in Blocks /\ h # NoBlock /\ In(queue, h) /\ h = Head(queue)
      /\ \A b: In(queue', b) <=> In(queue, b) /\ b # h
  BY <1>1
<1>3. /\ \A u \in Tasks \ {t}: hand'[u] = hand[u]
      /\ hand'[t] = h
      /\ hand' \in [Tasks -> Ref]
  BY <1>2 DEF Places, Ref
<1>. HIDE DEF h
<1>4. Apart'
  <2>1. \A u \in Tasks: ~In(queue', hand'[u]) /\ ~In(queue', other'[u])
    BY <1>2, <1>3 DEF Places, Apart
  <2>2. \A u, v \in Tasks:
          /\ hand'[u] = hand'[v] => u = v \/ hand'[u] = NoBlock
          /\ other'[u] = other'[v] => u = v \/ other'[u] = NoBlock
          /\ hand'[u] = other'[v] => hand'[u] = NoBlock
    BY <1>2, <1>3 DEF Places, Apart
  <2>. QED BY <1>1, <2>1, <2>2 DEF Apart
<1>5. /\ hand[t] \in Blocks /\ InHand(hand[t]) /\ ~InQueue(hand[t])
      /\ hand[t] # h /\ InQueue(h)
  BY <1>2 DEF Places, Apart, Ref, InHand, InQueue, In
<1>6. ASSUME NEW b \in Blocks PROVE HeldSomewhere(b)' <=> HeldSomewhere(b) /\ b # hand[t]
  <2>1. InHand(b)' <=> (InHand(b) /\ b # hand[t]) \/ b = h
    <3>1. \A u \in Tasks: other[u] # hand[t] /\ (u # t => hand[u] # hand[t])
      BY <1>5 DEF Places, Apart, Ref
    <3>. QED BY <1>3, <1>5, <3>1 DEF InHand
  <2>2. InQueue(b)' <=> InQueue(b) /\ b # h
    BY <1>2 DEF InQueue, In
  <2>. QED BY <1>5, <2>1, <2>2 DEF HeldSomewhere
<1>. QED BY <1>1, <1>2, <1>3, <1>4, <1>5, <1>6 DEF Places, HeldSomewhere

\* A new block comes into an empty hand.
LEMMA MakeInHand ==
    ASSUME Places, NEW t \in Tasks, hand[t] = NoBlock, NEW n \in Blocks, ~HeldSomewhere(n),
           hand' = [hand EXCEPT ![t] = n], UNCHANGED <<queue, other>>
    PROVE  Places' /\ \A b \in Blocks: HeldSomewhere(b)' <=> HeldSomewhere(b) \/ b = n
<1>. USE JobQueueAssumption
<1>1. /\ \A u \in Tasks \ {t}: hand'[u] = hand[u]
      /\ hand'[t] = n /\ n # NoBlock
      /\ hand' \in [Tasks -> Ref]
  BY DEF Places, Ref
<1>2. ~In(queue, n) /\ \A u \in Tasks: hand[u] # n /\ other[u] # n
  BY DEF HeldSomewhere, InQueue, InHand, In
<1>3. Apart'
  <2>1. \A u \in Tasks: ~In(queue', hand'[u]) /\ ~In(queue', other'[u])
    BY <1>1, <1>2 DEF Places, Apart
  <2>2. \A u, v \in Tasks:
          /\ hand'[u] = hand'[v] => u = v \/ hand'[u] = NoBlock
          /\ other'[u] = other'[v] => u = v \/ other'[u] = NoBlock
          /\ hand'[u] = other'[v] => hand'[u] = NoBlock
    BY <1>1, <1>2 DEF Places, Apart
  <2>. QED BY <2>1, <2>2 DEF Places, Apart
<1>4. ASSUME NEW b \in Blocks PROVE HeldSomewhere(b)' <=> HeldSomewhere(b) \/ b = n
  <2>1. InHand(b)' <=> InHand(b) \/ b = n
    BY <1>1 DEF InHand
  <2>2. InQueue(b)' <=> InQueue(b)
    BY DEF InQueue
  <2>. QED BY <2>1, <2>2 DEF HeldSomewhere
<1>. QED BY <1>1, <1>3, <1>4 DEF Places

-----------------------------------------------------------------------------
(* What the blocks hold.                                                   *)

\* One reference, if there is one.
One(p) == IF p THEN 1 ELSE 0

\* The account of block b: allocated exactly when something points to it, and,
\* if it is a TEST, with as many references as sides.
Account(b) ==
    /\ block[b] # FreeBlock <=> HeldSomewhere(b) \/ Waited(b)
    /\ block[b].type = "TEST" => block[b].refs = One(HeldSomewhere(b)) + One(Waited(b))
    /\ Waited(b) => block[b].type = "TEST"
    /\ block[b].type = "free" => block[b] = FreeBlock
    /\ block[b].done => block[b].result # "none"

Heap ==
    /\ block \in [Blocks -> BlockType]
    /\ \A b \in Blocks: Account(b)

\* What a step leaves to those who still point to a block.
OthersKept ==
    /\ \A c \in Blocks: HeldSomewhere(c) /\ HeldSomewhere(c)' => block'[c].type = block[c].type
    /\ \A c \in Blocks: Waited(c) /\ Waited(c)' /\ block[c].result # "none"
                            => block'[c].result # "none"

\* No reference moves and no block changes.
LEMMA HeapUnchanged ==
    ASSUME Heap, block' = block, \A b \in Blocks: HeldSomewhere(b)' <=> HeldSomewhere(b),
           \A b \in Blocks: Waited(b)' <=> Waited(b)
    PROVE  Heap' /\ OthersKept
BY DEF Heap, Account, OthersKept, BlockType, One

\* An answer changes nothing but the result and the semaphore of its block.
LEMMA HeapAnswer ==
    ASSUME Heap, NEW n \in Blocks, NEW r \in {"ran", "no_mem"}, Answer(n, r),
           block[n].type = "TEST",
           \A b \in Blocks: HeldSomewhere(b)' <=> HeldSomewhere(b),
           \A b \in Blocks: Waited(b)' <=> Waited(b)
    PROVE  Heap' /\ OthersKept /\ block'[n].type = "TEST"
<1>. DEFINE x == [block[n] EXCEPT !.result = r, !.done = TRUE]
<1>1. block' = [block EXCEPT ![n] = x]
  BY DEF Answer, Heap
<1>2. /\ x \in BlockType /\ x.type = "TEST" /\ x.refs = block[n].refs
      /\ x.result # "none" /\ x # FreeBlock
  BY DEF Heap, BlockType, FreeBlock
<1>3. block[n] # FreeBlock
  BY DEF FreeBlock
<1>. HIDE DEF x
<1>4. /\ block' \in [Blocks -> BlockType] /\ block'[n] = x
      /\ \A c \in Blocks \ {n}: block'[c] = block[c]
  BY <1>1, <1>2 DEF Heap
<1>5. ASSUME NEW c \in Blocks PROVE Account(c)'
  <2>1. CASE c = n
    BY <1>2, <1>3, <1>4, <2>1 DEF Heap, Account, One
  <2>2. CASE c # n
    BY <1>4, <2>2 DEF Heap, Account, One
  <2>. QED BY <2>1, <2>2
<1>. QED BY <1>2, <1>4, <1>5 DEF Heap, OthersKept

\* The semaphore is taken: the answer stays.
LEMMA HeapTaken ==
    ASSUME Heap, NEW n \in Blocks, block' = [block EXCEPT ![n].done = FALSE],
           block[n].type = "TEST",
           \A b \in Blocks: HeldSomewhere(b)' <=> HeldSomewhere(b),
           \A b \in Blocks: Waited(b)' <=> Waited(b)
    PROVE  Heap' /\ OthersKept /\ block'[n].result = block[n].result
<1>. DEFINE x == [block[n] EXCEPT !.done = FALSE]
<1>1. block' = [block EXCEPT ![n] = x]
  BY DEF Heap
<1>2. /\ x \in BlockType /\ x.type = "TEST" /\ x.refs = block[n].refs
      /\ x.result = block[n].result /\ x # FreeBlock /\ x.done = FALSE
  BY DEF Heap, BlockType, FreeBlock
<1>3. block[n] # FreeBlock
  BY DEF FreeBlock
<1>. HIDE DEF x
<1>4. /\ block' \in [Blocks -> BlockType] /\ block'[n] = x
      /\ \A c \in Blocks \ {n}: block'[c] = block[c]
  BY <1>1, <1>2 DEF Heap
<1>5. ASSUME NEW c \in Blocks PROVE Account(c)'
  <2>1. CASE c = n
    BY <1>2, <1>3, <1>4, <2>1 DEF Heap, Account, One
  <2>2. CASE c # n
    BY <1>4, <2>2 DEF Heap, Account, One
  <2>. QED BY <2>1, <2>2
<1>. QED BY <1>2, <1>4, <1>5 DEF Heap, OthersKept

\* A job that is not a TEST is freed by the one place that holds it.
LEMMA HeapFree ==
    ASSUME Heap, NEW n \in Blocks, Free(n), HeldSomewhere(n), block[n].type # "TEST",
           \A b \in Blocks: HeldSomewhere(b)' <=> HeldSomewhere(b) /\ b # n,
           \A b \in Blocks: Waited(b)' <=> Waited(b)
    PROVE  Heap' /\ OthersKept
<1>1. FreeBlock \in BlockType /\ FreeBlock.type = "free" /\ FreeBlock.done = FALSE
  BY DEF BlockType, FreeBlock
<1>2. /\ block' \in [Blocks -> BlockType] /\ block'[n] = FreeBlock
      /\ \A c \in Blocks \ {n}: block'[c] = block[c]
  BY <1>1 DEF Heap, Free
<1>3. ASSUME NEW c \in Blocks PROVE Account(c)'
  <2>1. CASE c = n
    BY <1>1, <1>2, <2>1 DEF Heap, Account, One
  <2>2. CASE c # n
    BY <1>2, <2>2 DEF Heap, Account, One
  <2>. QED BY <2>1, <2>2
<1>4. OthersKept
  BY <1>2 DEF Heap, Account, OthersKept
<1>. QED BY <1>2, <1>3, <1>4 DEF Heap

\* test_release by the place that held a TEST: the waiter's copy survives.
LEMMA HeapRelease ==
    ASSUME Heap, NEW n \in Blocks, Release(n), HeldSomewhere(n), block[n].type = "TEST",
           \A b \in Blocks: HeldSomewhere(b)' <=> HeldSomewhere(b) /\ b # n,
           \A b \in Blocks: Waited(b)' <=> Waited(b)
    PROVE  Heap' /\ OthersKept
<1>1. FreeBlock \in BlockType /\ FreeBlock.type = "free" /\ FreeBlock.done = FALSE
  BY DEF BlockType, FreeBlock
<1>2. CASE Waited(n)
  <2>. DEFINE x == [block[n] EXCEPT !.refs = @ - 1]
  <2>1. block[n].refs = 2
    BY <1>2 DEF Heap, Account, One
  <2>2. block' = [block EXCEPT ![n] = x]
    BY <2>1 DEF Release, Heap
  <2>3. /\ x \in BlockType /\ x.type = "TEST" /\ x.refs = 1 /\ x # FreeBlock
        /\ x.result = block[n].result /\ x.done = block[n].done
    BY <2>1 DEF Heap, BlockType, FreeBlock
  <2>. HIDE DEF x
  <2>4. /\ block' \in [Blocks -> BlockType] /\ block'[n] = x
        /\ \A c \in Blocks \ {n}: block'[c] = block[c]
    BY <2>2, <2>3 DEF Heap
  <2>5. ASSUME NEW c \in Blocks PROVE Account(c)'
    <3>1. CASE c = n
      BY <1>2, <2>3, <2>4, <3>1 DEF Heap, Account, One
    <3>2. CASE c # n
      BY <2>4, <3>2 DEF Heap, Account, One
    <3>. QED BY <3>1, <3>2
  <2>. QED BY <2>3, <2>4, <2>5 DEF Heap, OthersKept
<1>3. CASE ~Waited(n)
  <2>1. block[n].refs = 1
    BY <1>3 DEF Heap, Account, One
  <2>2. /\ block' \in [Blocks -> BlockType] /\ block'[n] = FreeBlock
        /\ \A c \in Blocks \ {n}: block'[c] = block[c]
    BY <1>1, <2>1 DEF Heap, Release, Free
  <2>3. ASSUME NEW c \in Blocks PROVE Account(c)'
    <3>1. CASE c = n
      BY <1>1, <1>3, <2>2, <3>1 DEF Heap, Account, One
    <3>2. CASE c # n
      BY <2>2, <3>2 DEF Heap, Account, One
    <3>. QED BY <3>1, <3>2
  <2>4. OthersKept
    BY <1>3, <2>2 DEF Heap, Account, OthersKept
  <2>. QED BY <2>2, <2>3, <2>4 DEF Heap
<1>. QED BY <1>2, <1>3

\* test_release by the waiter: the job stays with the place that holds it.
LEMMA HeapLeave ==
    ASSUME Heap, NEW n \in Blocks, Release(n), Waited(n),
           \A b \in Blocks: HeldSomewhere(b)' <=> HeldSomewhere(b),
           \A b \in Blocks: Waited(b)' <=> Waited(b) /\ b # n
    PROVE  Heap' /\ OthersKept
<1>0. FreeBlock \in BlockType /\ FreeBlock.type = "free" /\ FreeBlock.done = FALSE
  BY DEF BlockType, FreeBlock
<1>1. block[n].type = "TEST"
  BY DEF Heap, Account
<1>2. CASE HeldSomewhere(n)
  <2>. DEFINE x == [block[n] EXCEPT !.refs = @ - 1]
  <2>1. block[n].refs = 2
    BY <1>1, <1>2 DEF Heap, Account, One
  <2>2. block' = [block EXCEPT ![n] = x]
    BY <2>1 DEF Release, Heap
  <2>3. /\ x \in BlockType /\ x.type = "TEST" /\ x.refs = 1 /\ x # FreeBlock
        /\ x.result = block[n].result /\ x.done = block[n].done
    BY <1>1, <2>1 DEF Heap, BlockType, FreeBlock
  <2>. HIDE DEF x
  <2>4. /\ block' \in [Blocks -> BlockType] /\ block'[n] = x
        /\ \A c \in Blocks \ {n}: block'[c] = block[c]
    BY <2>2, <2>3 DEF Heap
  <2>5. ASSUME NEW c \in Blocks PROVE Account(c)'
    <3>1. CASE c = n
      BY <1>2, <2>3, <2>4, <3>1 DEF Heap, Account, One
    <3>2. CASE c # n
      BY <2>4, <3>2 DEF Heap, Account, One
    <3>. QED BY <3>1, <3>2
  <2>. QED BY <1>1, <2>3, <2>4, <2>5 DEF Heap, OthersKept
<1>3. CASE ~HeldSomewhere(n)
  <2>1. block[n].refs = 1
    BY <1>1, <1>3 DEF Heap, Account, One
  <2>2. /\ block' \in [Blocks -> BlockType] /\ block'[n] = FreeBlock
        /\ \A c \in Blocks \ {n}: block'[c] = block[c]
    BY <1>0, <2>1 DEF Heap, Release, Free
  <2>3. ASSUME NEW c \in Blocks PROVE Account(c)'
    <3>1. CASE c = n
      BY <1>0, <1>3, <2>2, <3>1 DEF Heap, Account, One
    <3>2. CASE c # n
      BY <2>2, <3>2 DEF Heap, Account, One
    <3>. QED BY <3>1, <3>2
  <2>4. OthersKept
    BY <1>3, <2>2 DEF Heap, Account, OthersKept
  <2>. QED BY <2>2, <2>3, <2>4 DEF Heap
<1>. QED BY <1>2, <1>3

\* make_job: a block no one points to is held by its maker, and waited for by
\* it when it is a TEST.
LEMMA HeapMade ==
    ASSUME Heap, NEW n \in Blocks, NEW ty \in Types, block[n] = FreeBlock,
           block' = [block EXCEPT ![n] = NewBlock(ty)],
           \A b \in Blocks: HeldSomewhere(b)' <=> HeldSomewhere(b) \/ b = n,
           \A b \in Blocks: Waited(b)' <=> Waited(b) \/ (b = n /\ ty = "TEST")
    PROVE  Heap' /\ OthersKept /\ block'[n].type = ty
<1>. DEFINE x == NewBlock(ty)
<1>1. /\ x \in BlockType /\ x.type = ty /\ x.refs = (IF ty = "TEST" THEN 2 ELSE 0)
      /\ x.done = FALSE /\ x # FreeBlock /\ ty # "free"
  BY DEF NewBlock, BlockType, FreeBlock, Types, Sends
<1>. HIDE DEF x
<1>2. /\ block' \in [Blocks -> BlockType] /\ block'[n] = x
      /\ \A c \in Blocks \ {n}: block'[c] = block[c]
  BY <1>1 DEF Heap, x
<1>3. ~HeldSomewhere(n) /\ ~Waited(n)
  BY DEF Heap, Account
<1>4. ASSUME NEW c \in Blocks PROVE Account(c)'
  <2>1. CASE c = n
    BY <1>1, <1>2, <1>3, <2>1 DEF Heap, Account, One
  <2>2. CASE c # n
    BY <1>2, <2>2 DEF Heap, Account, One
  <2>. QED BY <2>1, <2>2
<1>5. OthersKept
  BY <1>2, <1>3 DEF Heap, OthersKept
<1>. QED BY <1>1, <1>2, <1>4, <1>5 DEF Heap

-----------------------------------------------------------------------------
(* The inductive invariant.                                                *)

Enqueues == {"send", "take", "putback", "drop", "unref", "giveup", "unrefnew"}
HoldsOld == {"putback", "drop", "unref"}
Waits == {"wait", "answered", "timedout"}

\* A producer points to a job exactly while enqueue_job runs, and waits for a
\* TEST of its own making only.
ProducerOK(t) ==
    /\ pc[t] \in {"idle"} \union Enqueues \union Waits
    /\ hand[t] # NoBlock <=> pc[t] \in Enqueues
    /\ other[t] # NoBlock <=> pc[t] \in HoldsOld
    /\ pc[t] = "idle" => test[t] = NoBlock
    /\ pc[t] \in Waits => test[t] # NoBlock
    /\ hand[t] # NoBlock /\ test[t] # NoBlock => hand[t] = test[t]
    /\ hand[t] # NoBlock /\ block[hand[t]].type = "TEST" => test[t] = hand[t]
    /\ pc[t] = "unref" => block[other[t]].type = "TEST"
    /\ pc[t] = "unrefnew" => block[hand[t]].type = "TEST"
    /\ pc[t] = "answered" => block[test[t]].result # "none"

CmdOK ==
    /\ pc[SdCmd] \in {"idle", "drain", "dispatch", "unref"}
    /\ hand[SdCmd] # NoBlock <=> pc[SdCmd] # "idle"
    /\ pc[SdCmd] \in {"idle", "drain"} => other[SdCmd] = NoBlock
    /\ pc[SdCmd] = "drain" => block[hand[SdCmd]].type = "VALUE"
    /\ pc[SdCmd] = "unref" => block[hand[SdCmd]].type = "TEST"

Waiters ==
    \A t, u \in Producers: test[t] = test[u] => t = u \/ test[t] = NoBlock

Control ==
    /\ Len(queue) <= QueueLen
    /\ pc \in [Tasks -> {"idle", "send", "take", "putback", "drop", "unref", "giveup",
                         "unrefnew", "wait", "answered", "timedout", "drain",
                         "dispatch"}]
    /\ round \in [Producers -> 0..1]
    /\ test \in [Producers -> Ref]
    /\ made \in 0..MaxJobs

IInv ==
    /\ Places /\ Heap /\ Control /\ Waiters /\ CmdOK
    /\ \A t \in Producers: ProducerOK(t)

\* Who did not take the step still points to what it pointed to.
LEMMA Frame ==
    ASSUME IInv, Places', Heap', OthersKept, NEW t \in Tasks,
           \A u \in Tasks \ {t}:
              pc'[u] = pc[u] /\ hand'[u] = hand[u] /\ other'[u] = other[u],
           \A u \in Producers \ {t}: test'[u] = test[u],
           t \in Producers => ProducerOK(t)',
           t = SdCmd => CmdOK'
    PROVE  CmdOK' /\ \A u \in Producers: ProducerOK(u)'
<1>. USE JobQueueAssumption DEF Tasks
<1>1. ASSUME NEW u \in Tasks, hand[u] # NoBlock
      PROVE  hand[u] \in Blocks /\ HeldSomewhere(hand[u])
  BY <1>1 DEF IInv, Places, Ref, HeldSomewhere, InHand
<1>2. ASSUME NEW u \in Tasks, other[u] # NoBlock
      PROVE  other[u] \in Blocks /\ HeldSomewhere(other[u])
  BY <1>2 DEF IInv, Places, Ref, HeldSomewhere, InHand
<1>3. ASSUME NEW u \in Tasks \ {t}, hand[u] # NoBlock
      PROVE  block'[hand[u]].type = block[hand[u]].type
  <2>1. HeldSomewhere(hand[u])'
    BY <1>3 DEF HeldSomewhere, InHand
  <2>. QED BY <1>1, <1>3, <2>1 DEF OthersKept
<1>4. ASSUME NEW u \in Tasks \ {t}, other[u] # NoBlock
      PROVE  block'[other[u]].type = block[other[u]].type
  <2>1. HeldSomewhere(other[u])'
    BY <1>4 DEF HeldSomewhere, InHand
  <2>. QED BY <1>2, <1>4, <2>1 DEF OthersKept
<1>5. ASSUME NEW u \in Producers \ {t}, pc[u] = "answered"
      PROVE  block'[test[u]].result # "none"
  <2>1. test[u] \in Blocks /\ block[test[u]].result # "none"
    BY <1>5 DEF IInv, ProducerOK, Control, Ref, Waits
  <2>2. Waited(test[u]) /\ Waited(test[u])'
    BY <1>5 DEF Waited
  <2>. QED BY <2>1, <2>2 DEF OthersKept
<1>6. CmdOK'
  BY <1>3 DEF IInv, CmdOK
<1>7. ASSUME NEW u \in Producers PROVE ProducerOK(u)'
  <2>1. CASE u = t
    BY <2>1
  <2>2. CASE u # t
    BY <1>3, <1>4, <1>5, <2>2 DEF IInv, ProducerOK, Enqueues, HoldsOld, Waits
  <2>. QED BY <2>1, <2>2
<1>. QED BY <1>6, <1>7

-----------------------------------------------------------------------------
(* Every step keeps it.                                                    *)

\* The producers' steps, one by one.
LEMMA ProducerStep ==
    ASSUME IInv, NEW t \in Producers, Producer(t)
    PROVE  IInv'
<1>. USE JobQueueAssumption DEF Tasks
<1>0. /\ t \in Tasks /\ t # SdCmd /\ ProducerOK(t)
      /\ Places /\ Heap /\ Control /\ Waiters
  BY DEF IInv
<1>1. ASSUME NEW n \in Blocks, NEW ty \in Types, MakeJob(t, n, ty) PROVE IInv'
  <2>1. /\ hand[t] = NoBlock /\ other[t] = NoBlock /\ test[t] = NoBlock
        /\ pc[t] = "idle" /\ block[n] = FreeBlock
    BY <1>0, <1>1 DEF MakeJob, ProducerOK, Enqueues, HoldsOld
  <2>2. ~HeldSomewhere(n) /\ ~Waited(n)
    BY <1>0, <2>1 DEF Heap, Account
  <2>3. Places' /\ \A b \in Blocks: HeldSomewhere(b)' <=> HeldSomewhere(b) \/ b = n
    BY <1>0, <1>1, <2>1, <2>2, MakeInHand DEF MakeJob
  <2>4. /\ \A u \in Producers \ {t}: test'[u] = test[u]
        /\ test'[t] = IF ty = "TEST" THEN n ELSE NoBlock
        /\ test' \in [Producers -> Ref]
    BY <1>0, <1>1 DEF MakeJob, Control, Ref
  <2>5. \A b \in Blocks: Waited(b)' <=> Waited(b) \/ (b = n /\ ty = "TEST")
    BY <2>1, <2>4 DEF Waited
  <2>6. Heap' /\ OthersKept /\ block'[n].type = ty
    BY <1>0, <1>1, <2>1, <2>3, <2>5, HeapMade DEF MakeJob
  <2>7. Waiters'
    BY <1>0, <2>2, <2>4 DEF Waiters, Waited
  <2>8. Control'
    BY <1>0, <1>1, <2>4 DEF MakeJob, Control, Goto
  <2>9. ProducerOK(t)'
    <3>1. pc'[t] = "send" /\ hand'[t] = n /\ other'[t] = NoBlock
      BY <1>0, <1>1, <2>1 DEF MakeJob, Goto, Places, Control
    <3>. QED BY <2>4, <2>6, <3>1 DEF ProducerOK, Enqueues, HoldsOld, Waits
  <2>10. CmdOK' /\ \A u \in Producers: ProducerOK(u)'
    <3>1. \A u \in Tasks \ {t}:
              pc'[u] = pc[u] /\ hand'[u] = hand[u] /\ other'[u] = other[u]
      BY <1>0, <1>1 DEF MakeJob, Goto, Places, Control
    <3>. QED BY <1>0, <2>3, <2>4, <2>6, <2>9, <3>1, Frame
  <2>. QED BY <2>3, <2>6, <2>7, <2>8, <2>10 DEF IInv
\* Nothing but the counters of the tasks moves.
<1>2. ASSUME UNCHANGED <<block, queue, hand, other, test, made>>,
             \A u \in Tasks \ {t}: pc'[u] = pc[u],
             Control', ProducerOK(t)'
      PROVE  IInv'
  <2>1. Places' /\ Waiters'
    BY <1>0, <1>2 DEF Places, Apart, Waiters
  <2>2. \A b \in Blocks: (HeldSomewhere(b)' <=> HeldSomewhere(b)) /\ (Waited(b)' <=> Waited(b))
    BY <1>2 DEF HeldSomewhere, InHand, InQueue, Waited
  <2>3. Heap' /\ OthersKept
    BY <1>0, <1>2, <2>2, HeapUnchanged
  <2>4. CmdOK' /\ \A u \in Producers: ProducerOK(u)'
    BY <1>0, <1>2, <2>1, <2>3, Frame
  <2>. QED BY <1>2, <2>1, <2>3, <2>4 DEF IInv
<1>3. ASSUME Send(t) PROVE IInv'
  <2>1. /\ pc[t] = "send" /\ hand[t] # NoBlock /\ other[t] = NoBlock
        /\ hand[t] \in Blocks
    BY <1>0, <1>3 DEF Send, ProducerOK, Enqueues, HoldsOld, Places, Ref
  <2>2. CASE Len(queue) < QueueLen
    <3>1. /\ Places' /\ (\A b \in Blocks: HeldSomewhere(b)' <=> HeldSomewhere(b))
          /\ Len(queue') = Len(queue) + 1
      BY <1>0, <1>3, <2>1, <2>2, SendFromHand DEF Send
    <3>2. (\A b \in Blocks: Waited(b)' <=> Waited(b)) /\ Waiters' /\ block' = block
      BY <1>0, <1>3 DEF Send, Waited, Waiters
    <3>3. Heap' /\ OthersKept
      BY <1>0, <3>1, <3>2, HeapUnchanged
    <3>4. Len(queue) \in Nat
      BY <1>0 DEF Places
    <3>5. /\ \A u \in Tasks \ {t}:
              pc'[u] = pc[u] /\ hand'[u] = hand[u] /\ other'[u] = other[u]
          /\ pc'[t] = (IF test[t] = NoBlock THEN "idle" ELSE "wait")
          /\ hand'[t] = NoBlock /\ other'[t] = NoBlock /\ test' = test
      BY <1>0, <1>3, <2>1, <2>2 DEF Send, Goto, Places, Control
    <3>6. Control'
      BY <1>0, <1>3, <2>2, <3>1, <3>4 DEF Send, Control, Goto
    <3>7. ProducerOK(t)'
      BY <3>5 DEF ProducerOK, Enqueues, HoldsOld, Waits
    <3>8. CmdOK' /\ \A u \in Producers: ProducerOK(u)'
      BY <1>0, <3>1, <3>3, <3>5, <3>7, Frame
    <3>. QED BY <3>1, <3>2, <3>3, <3>6, <3>8 DEF IInv
  <2>3. CASE ~(Len(queue) < QueueLen)
    <3>1. Goto(t, "take") /\ UNCHANGED <<block, queue, hand, other, round, test, made>>
      BY <1>3, <2>3 DEF Send
    <3>2. pc'[t] = "take" /\ (\A u \in Tasks \ {t}: pc'[u] = pc[u]) /\ Control'
      BY <1>0, <3>1 DEF Goto, Control
    <3>3. ProducerOK(t)'
      BY <1>0, <2>1, <3>1, <3>2 DEF ProducerOK, Enqueues, HoldsOld, Waits
    <3>. QED BY <1>2, <3>1, <3>2, <3>3
  <2>. QED BY <2>2, <2>3
\* The end of a round, wherever the job went.
<1>4. ASSUME NextRound(t)
      PROVE  /\ pc'[t] \in {"send", "giveup"}
             /\ \A u \in Tasks \ {t}: pc'[u] = pc[u]
             /\ pc' \in [Tasks -> {"idle", "send", "take", "putback", "drop", "unref",
                           "giveup", "unrefnew", "wait", "answered", "timedout", "drain",
                           "dispatch"}]
             /\ round' \in [Producers -> 0..1]
  BY <1>0, <1>4 DEF NextRound, Goto, Control
<1>5. ASSUME TakeNothing(t) PROVE IInv'
  <2>1. pc[t] = "take" /\ NextRound(t) /\ UNCHANGED <<block, queue, hand, other, test, made>>
    BY <1>5 DEF TakeNothing
  <2>2. Control'
    BY <1>0, <1>4, <2>1 DEF Control
  <2>3. ProducerOK(t)'
    BY <1>0, <1>4, <2>1 DEF ProducerOK, Enqueues, HoldsOld, Waits
  <2>. QED BY <1>2, <1>4, <2>1, <2>2, <2>3
<1>6. ASSUME EvictSend(t) PROVE IInv'
  <2>. DEFINE h == Head(queue)
  <2>1. /\ pc[t] = "take" /\ queue # <<>> /\ block[h].type \in Sends
        /\ queue' = Tail(queue) /\ Free(h) /\ NextRound(t)
        /\ UNCHANGED <<hand, other, test, made>>
    BY <1>6 DEF EvictSend
  <2>2. /\ Places' /\ h \in Blocks /\ InQueue(h) /\ ~InHand(h)
        /\ \A b \in Blocks: HeldSomewhere(b)' <=> HeldSomewhere(b) /\ b # h
    BY <1>0, <2>1, DropHead
  <2>3. Len(queue') <= QueueLen
    BY <1>0, <2>1, HeadTailProperties DEF Places, Control
  <2>. HIDE DEF h
  <2>4. (\A b \in Blocks: Waited(b)' <=> Waited(b)) /\ Waiters'
    BY <1>0, <2>1 DEF Waited, Waiters
  <2>5. HeldSomewhere(h) /\ block[h].type # "TEST"
    BY <2>1, <2>2 DEF HeldSomewhere, Sends
  <2>6. Heap' /\ OthersKept
    BY <1>0, <2>1, <2>2, <2>4, <2>5, HeapFree
  <2>7. Control'
    BY <1>0, <1>4, <2>1, <2>3 DEF Control
  <2>8. ProducerOK(t)'
    <3>1. hand[t] # NoBlock /\ other[t] = NoBlock /\ hand[t] \in Blocks
      BY <1>0, <2>1 DEF ProducerOK, Enqueues, HoldsOld, Places, Ref
    <3>2. HeldSomewhere(hand[t]) /\ HeldSomewhere(hand[t])'
      BY <1>0, <2>1, <3>1 DEF HeldSomewhere, InHand
    <3>3. block'[hand[t]].type = block[hand[t]].type
      BY <2>1, <2>6, <3>1, <3>2 DEF OthersKept
    <3>. QED BY <1>0, <1>4, <2>1, <3>1, <3>3 DEF ProducerOK, Enqueues, HoldsOld, Waits
  <2>9. CmdOK' /\ \A u \in Producers: ProducerOK(u)'
    BY <1>0, <1>4, <2>1, <2>2, <2>6, <2>8, Frame
  <2>. QED BY <2>2, <2>4, <2>6, <2>7, <2>9 DEF IInv
<1>7. ASSUME TakeOther(t) PROVE IInv'
  <2>1. /\ pc[t] = "take" /\ queue # <<>> /\ queue' = Tail(queue)
        /\ other' = [other EXCEPT ![t] = Head(queue)] /\ Goto(t, "putback")
        /\ UNCHANGED <<block, hand, round, test, made>>
    BY <1>7 DEF TakeOther
  <2>2. hand[t] # NoBlock /\ other[t] = NoBlock
    BY <1>0, <2>1 DEF ProducerOK, Enqueues, HoldsOld
  <2>3. Places' /\ (\A b \in Blocks: HeldSomewhere(b)' <=> HeldSomewhere(b)) /\ hand' = hand
    BY <1>0, <2>1, <2>2, TakeToOther
  <2>4. (\A b \in Blocks: Waited(b)' <=> Waited(b)) /\ Waiters'
    BY <1>0, <2>1 DEF Waited, Waiters
  <2>5. Heap' /\ OthersKept
    BY <1>0, <2>1, <2>3, <2>4, HeapUnchanged
  <2>6. Head(queue) \in Blocks
    BY <1>0, <2>1, HeadTailProperties DEF Places
  <2>7. /\ \A u \in Tasks \ {t}:
              pc'[u] = pc[u] /\ hand'[u] = hand[u] /\ other'[u] = other[u]
        /\ pc'[t] = "putback" /\ other'[t] # NoBlock
    BY <1>0, <2>1, <2>6 DEF Goto, Places, Control
  <2>8. Control'
    BY <1>0, <2>1, HeadTailProperties DEF Control, Goto, Places
  <2>9. ProducerOK(t)'
    BY <1>0, <2>1, <2>2, <2>7 DEF ProducerOK, Enqueues, HoldsOld, Waits
  <2>10. CmdOK' /\ \A u \in Producers: ProducerOK(u)'
    BY <1>0, <2>1, <2>3, <2>5, <2>7, <2>9, Frame
  <2>. QED BY <2>3, <2>4, <2>5, <2>8, <2>10 DEF IInv
<1>8. ASSUME PutBack(t) PROVE IInv'
  <2>1. /\ pc[t] = "putback" /\ hand[t] # NoBlock /\ other[t] # NoBlock
    BY <1>0, <1>8 DEF PutBack, ProducerOK, Enqueues, HoldsOld
  <2>2. CASE Len(queue) < QueueLen
    <3>1. /\ queue' = Append(queue, other[t]) /\ other' = [other EXCEPT ![t] = NoBlock]
          /\ NextRound(t) /\ UNCHANGED <<block, hand, test, made>>
      BY <1>8, <2>2 DEF PutBack
    <3>2. /\ Places' /\ (\A b \in Blocks: HeldSomewhere(b)' <=> HeldSomewhere(b))
          /\ Len(queue') = Len(queue) + 1
      BY <1>0, <2>1, <3>1, SendFromOther
    <3>3. (\A b \in Blocks: Waited(b)' <=> Waited(b)) /\ Waiters'
      BY <1>0, <3>1 DEF Waited, Waiters
    <3>4. Heap' /\ OthersKept
      BY <1>0, <3>1, <3>2, <3>3, HeapUnchanged
    <3>5. Len(queue) \in Nat
      BY <1>0 DEF Places
    <3>6. Control'
      BY <1>0, <1>4, <2>2, <3>1, <3>2, <3>5 DEF Control
    <3>7. /\ \A u \in Tasks \ {t}:
              pc'[u] = pc[u] /\ hand'[u] = hand[u] /\ other'[u] = other[u]
          /\ other'[t] = NoBlock
      BY <1>0, <1>4, <3>1 DEF Places
    <3>8. ProducerOK(t)'
      BY <1>0, <1>4, <2>1, <3>1, <3>7 DEF ProducerOK, Enqueues, HoldsOld, Waits
    <3>9. CmdOK' /\ \A u \in Producers: ProducerOK(u)'
      BY <1>0, <3>1, <3>2, <3>4, <3>7, <3>8, Frame
    <3>. QED BY <3>2, <3>3, <3>4, <3>6, <3>9 DEF IInv
  <2>3. CASE ~(Len(queue) < QueueLen)
    <3>1. Goto(t, "drop") /\ UNCHANGED <<block, queue, hand, other, round, test, made>>
      BY <1>8, <2>3 DEF PutBack
    <3>2. pc'[t] = "drop" /\ (\A u \in Tasks \ {t}: pc'[u] = pc[u]) /\ Control'
      BY <1>0, <3>1 DEF Goto, Control
    <3>3. ProducerOK(t)'
      BY <1>0, <2>1, <3>1, <3>2 DEF ProducerOK, Enqueues, HoldsOld, Waits
    <3>. QED BY <1>2, <3>1, <3>2, <3>3
  <2>. QED BY <2>2, <2>3
\* An answer to a TEST that stays where it is.
<1>9. ASSUME NEW n \in Blocks, NEW r \in {"ran", "no_mem"}, Answer(n, r),
             block[n].type = "TEST",
             UNCHANGED <<queue, hand, other, round, test, made>>
      PROVE  /\ Places' /\ Heap' /\ OthersKept /\ Waiters' /\ block'[n].type = "TEST"
             /\ \A b \in Blocks: HeldSomewhere(b) => block'[b].type = block[b].type
  <2>1. Places' /\ Waiters'
    BY <1>0, <1>9 DEF Places, Apart, Waiters
  <2>2. \A b \in Blocks: (HeldSomewhere(b)' <=> HeldSomewhere(b)) /\ (Waited(b)' <=> Waited(b))
    BY <1>9 DEF HeldSomewhere, InHand, InQueue, Waited
  <2>3. Heap' /\ OthersKept /\ block'[n].type = "TEST"
    BY <1>0, <1>9, <2>2, HeapAnswer
  <2>. QED BY <2>1, <2>2, <2>3 DEF OthersKept
<1>10. ASSUME AnswerOld(t) PROVE IInv'
  <2>1. /\ pc[t] = "drop" /\ block[other[t]].type = "TEST" /\ Answer(other[t], "no_mem")
        /\ Goto(t, "unref") /\ UNCHANGED <<queue, hand, other, round, test, made>>
    BY <1>10 DEF AnswerOld
  <2>2. hand[t] \in Blocks /\ other[t] \in Blocks /\ hand[t] # NoBlock /\ other[t] # NoBlock
    BY <1>0, <2>1 DEF ProducerOK, Enqueues, HoldsOld, Places, Ref
  <2>3. /\ Places' /\ Heap' /\ OthersKept /\ Waiters' /\ block'[other[t]].type = "TEST"
        /\ \A b \in Blocks: HeldSomewhere(b) => block'[b].type = block[b].type
    BY <1>9, <2>1, <2>2
  <2>4. block'[hand[t]].type = block[hand[t]].type
    BY <1>0, <2>2, <2>3 DEF HeldSomewhere, InHand
  <2>5. pc'[t] = "unref" /\ (\A u \in Tasks \ {t}: pc'[u] = pc[u]) /\ Control'
    BY <1>0, <2>1 DEF Goto, Control
  <2>6. ProducerOK(t)'
    BY <1>0, <2>1, <2>2, <2>3, <2>4, <2>5 DEF ProducerOK, Enqueues, HoldsOld, Waits
  <2>7. CmdOK' /\ \A u \in Producers: ProducerOK(u)'
    BY <1>0, <2>1, <2>3, <2>5, <2>6, Frame
  <2>. QED BY <2>3, <2>5, <2>7 DEF IInv
<1>11. ASSUME AnswerNew(t) PROVE IInv'
  <2>1. /\ pc[t] = "giveup" /\ block[hand[t]].type = "TEST" /\ Answer(hand[t], "no_mem")
        /\ Goto(t, "unrefnew") /\ UNCHANGED <<queue, hand, other, round, test, made>>
    BY <1>11 DEF AnswerNew
  <2>2. hand[t] \in Blocks /\ hand[t] # NoBlock /\ other[t] = NoBlock
    BY <1>0, <2>1 DEF ProducerOK, Enqueues, HoldsOld, Places, Ref
  <2>3. /\ Places' /\ Heap' /\ OthersKept /\ Waiters' /\ block'[hand[t]].type = "TEST"
    BY <1>9, <2>1, <2>2
  <2>4. pc'[t] = "unrefnew" /\ (\A u \in Tasks \ {t}: pc'[u] = pc[u]) /\ Control'
    BY <1>0, <2>1 DEF Goto, Control
  <2>5. ProducerOK(t)'
    BY <1>0, <2>1, <2>2, <2>3, <2>4 DEF ProducerOK, Enqueues, HoldsOld, Waits
  <2>6. CmdOK' /\ \A u \in Producers: ProducerOK(u)'
    BY <1>0, <2>1, <2>3, <2>4, <2>5, Frame
  <2>. QED BY <2>3, <2>4, <2>6 DEF IInv
\* The old job goes and another round begins.
<1>12. ASSUME LetGoOfOld(t), pc[t] \in {"drop", "unref"},
              Places', Heap', OthersKept
       PROVE  IInv'
  <2>1. /\ other' = [other EXCEPT ![t] = NoBlock] /\ NextRound(t)
        /\ UNCHANGED <<queue, hand, test, made>>
    BY <1>12 DEF LetGoOfOld
  <2>2. hand[t] \in Blocks /\ hand[t] # NoBlock
    BY <1>0, <1>12 DEF ProducerOK, Enqueues, Places, Ref
  <2>3. block'[hand[t]].type = block[hand[t]].type
    BY <1>12, <2>1, <2>2, <1>0 DEF HeldSomewhere, InHand, OthersKept
  <2>4. Control' /\ Waiters'
    BY <1>0, <1>4, <2>1 DEF Control, Waiters
  <2>5. /\ \A u \in Tasks \ {t}:
              pc'[u] = pc[u] /\ hand'[u] = hand[u] /\ other'[u] = other[u]
        /\ other'[t] = NoBlock
    BY <1>0, <1>4, <2>1 DEF Places
  <2>6. ProducerOK(t)'
    BY <1>0, <1>4, <2>1, <2>2, <2>3, <2>5 DEF ProducerOK, Enqueues, HoldsOld, Waits
  <2>7. CmdOK' /\ \A u \in Producers: ProducerOK(u)'
    BY <1>0, <1>12, <2>1, <2>5, <2>6, Frame
  <2>. QED BY <1>12, <2>4, <2>7 DEF IInv
<1>13. ASSUME DropOld(t) PROVE IInv'
  <2>1. /\ pc[t] = "drop" /\ block[other[t]].type # "TEST" /\ Free(other[t])
        /\ LetGoOfOld(t)
    BY <1>13 DEF DropOld
  <2>2. /\ other' = [other EXCEPT ![t] = NoBlock] /\ UNCHANGED <<queue, hand, test>>
        /\ other[t] # NoBlock
    BY <1>0, <2>1 DEF LetGoOfOld, ProducerOK, HoldsOld
  <2>3. /\ Places' /\ other[t] \in Blocks /\ HeldSomewhere(other[t])
        /\ \A b \in Blocks: HeldSomewhere(b)' <=> HeldSomewhere(b) /\ b # other[t]
    BY <1>0, <2>2, LetGoOther
  <2>4. \A b \in Blocks: Waited(b)' <=> Waited(b)
    BY <2>2 DEF Waited
  <2>5. Heap' /\ OthersKept
    BY <1>0, <2>1, <2>3, <2>4, HeapFree
  <2>. QED BY <1>12, <2>1, <2>3, <2>5
<1>14. ASSUME UnrefOld(t) PROVE IInv'
  <2>1. pc[t] = "unref" /\ Release(other[t]) /\ LetGoOfOld(t)
    BY <1>14 DEF UnrefOld
  <2>2. /\ other' = [other EXCEPT ![t] = NoBlock] /\ UNCHANGED <<queue, hand, test>>
        /\ other[t] # NoBlock /\ block[other[t]].type = "TEST"
    BY <1>0, <2>1 DEF LetGoOfOld, ProducerOK, HoldsOld
  <2>3. /\ Places' /\ other[t] \in Blocks /\ HeldSomewhere(other[t])
        /\ \A b \in Blocks: HeldSomewhere(b)' <=> HeldSomewhere(b) /\ b # other[t]
    BY <1>0, <2>2, LetGoOther
  <2>4. \A b \in Blocks: Waited(b)' <=> Waited(b)
    BY <2>2 DEF Waited
  <2>5. Heap' /\ OthersKept
    BY <1>0, <2>1, <2>2, <2>3, <2>4, HeapRelease
  <2>. QED BY <1>12, <2>1, <2>3, <2>5
\* The new job goes.
<1>15. ASSUME NEW l \in {"idle", "wait"}, LetGoOfNew(t, l), pc[t] \in {"giveup", "unrefnew"},
              Places', Heap', OthersKept, l = "idle" <=> test[t] = NoBlock
       PROVE  IInv'
  <2>1. /\ hand' = [hand EXCEPT ![t] = NoBlock] /\ Goto(t, l)
        /\ UNCHANGED <<queue, other, round, test, made>>
    BY <1>15 DEF LetGoOfNew
  <2>2. other[t] = NoBlock
    BY <1>0, <1>15 DEF ProducerOK, HoldsOld
  <2>3. Control' /\ Waiters'
    BY <1>0, <2>1 DEF Control, Waiters, Goto
  <2>4. /\ \A u \in Tasks \ {t}:
              pc'[u] = pc[u] /\ hand'[u] = hand[u] /\ other'[u] = other[u]
        /\ hand'[t] = NoBlock /\ pc'[t] = l
    BY <1>0, <2>1 DEF Places, Control, Goto
  <2>5. ProducerOK(t)'
    BY <1>15, <2>1, <2>2, <2>4 DEF ProducerOK, Enqueues, HoldsOld, Waits
  <2>6. CmdOK' /\ \A u \in Producers: ProducerOK(u)'
    BY <1>0, <1>15, <2>1, <2>4, <2>5, Frame
  <2>. QED BY <1>15, <2>3, <2>6 DEF IInv
<1>16. ASSUME DropNew(t) PROVE IInv'
  <2>1. /\ pc[t] = "giveup" /\ block[hand[t]].type # "TEST" /\ Free(hand[t])
        /\ LetGoOfNew(t, "idle")
    BY <1>16 DEF DropNew
  <2>2. /\ hand' = [hand EXCEPT ![t] = NoBlock] /\ UNCHANGED <<queue, other, test>>
        /\ hand[t] # NoBlock
    BY <1>0, <2>1 DEF LetGoOfNew, ProducerOK, Enqueues
  <2>3. /\ Places' /\ hand[t] \in Blocks /\ HeldSomewhere(hand[t])
        /\ \A b \in Blocks: HeldSomewhere(b)' <=> HeldSomewhere(b) /\ b # hand[t]
    BY <1>0, <2>2, LetGoHand
  <2>4. \A b \in Blocks: Waited(b)' <=> Waited(b)
    BY <2>2 DEF Waited
  <2>5. Heap' /\ OthersKept
    BY <1>0, <2>1, <2>3, <2>4, HeapFree
  <2>6. test[t] = NoBlock
    <3>1. SUFFICES ASSUME test[t] # NoBlock PROVE FALSE
      OBVIOUS
    <3>2. hand[t] = test[t] /\ Waited(hand[t])
      BY <1>0, <2>2, <3>1 DEF ProducerOK, Waited
    <3>. QED BY <1>0, <2>1, <2>3, <3>2 DEF Heap, Account
  <2>. QED BY <1>15, <2>1, <2>3, <2>5, <2>6
<1>17. ASSUME UnrefNew(t) PROVE IInv'
  <2>1. pc[t] = "unrefnew" /\ Release(hand[t]) /\ LetGoOfNew(t, "wait")
    BY <1>17 DEF UnrefNew
  <2>2. /\ hand' = [hand EXCEPT ![t] = NoBlock] /\ UNCHANGED <<queue, other, test>>
        /\ hand[t] # NoBlock /\ block[hand[t]].type = "TEST" /\ test[t] # NoBlock
    BY <1>0, <2>1 DEF LetGoOfNew, ProducerOK, Enqueues
  <2>3. /\ Places' /\ hand[t] \in Blocks /\ HeldSomewhere(hand[t])
        /\ \A b \in Blocks: HeldSomewhere(b)' <=> HeldSomewhere(b) /\ b # hand[t]
    BY <1>0, <2>2, LetGoHand
  <2>4. \A b \in Blocks: Waited(b)' <=> Waited(b)
    BY <2>2 DEF Waited
  <2>5. Heap' /\ OthersKept
    BY <1>0, <2>1, <2>2, <2>3, <2>4, HeapRelease
  <2>. QED BY <1>15, <2>1, <2>2, <2>3, <2>5
\* A waiter is in no place of its own.
<1>18. ASSUME pc[t] \in Waits
       PROVE  /\ hand[t] = NoBlock /\ other[t] = NoBlock
              /\ test[t] \in Blocks /\ test[t] # NoBlock /\ Waited(test[t])
              /\ block[test[t]].type = "TEST"
  <2>1. hand[t] = NoBlock /\ other[t] = NoBlock /\ test[t] # NoBlock /\ test[t] \in Blocks
    BY <1>0, <1>18 DEF ProducerOK, Enqueues, HoldsOld, Waits, Control, Ref
  <2>2. Waited(test[t])
    BY DEF Waited
  <2>. QED BY <1>0, <2>1, <2>2 DEF Heap, Account
<1>19. ASSUME TakeDone(t) PROVE IInv'
  <2>1. /\ pc[t] = "wait" /\ block[test[t]].done
        /\ block' = [block EXCEPT ![test[t]].done = FALSE] /\ Goto(t, "answered")
        /\ UNCHANGED <<queue, hand, other, round, test, made>>
    BY <1>19 DEF TakeDone
  <2>2. /\ hand[t] = NoBlock /\ other[t] = NoBlock
        /\ test[t] \in Blocks /\ test[t] # NoBlock /\ block[test[t]].type = "TEST"
    BY <1>18, <2>1 DEF Waits
  <2>3. block[test[t]].result # "none"
    BY <1>0, <2>1, <2>2 DEF Heap, Account
  <2>4. \A b \in Blocks: (HeldSomewhere(b)' <=> HeldSomewhere(b)) /\ (Waited(b)' <=> Waited(b))
    BY <2>1 DEF HeldSomewhere, InHand, InQueue, Waited
  <2>5. Heap' /\ OthersKept /\ block'[test[t]].result = block[test[t]].result
    BY <1>0, <2>1, <2>2, <2>4, HeapTaken
  <2>6. Places' /\ Waiters'
    BY <1>0, <2>1 DEF Places, Apart, Waiters
  <2>7. pc'[t] = "answered" /\ (\A u \in Tasks \ {t}: pc'[u] = pc[u]) /\ Control'
    BY <1>0, <2>1 DEF Goto, Control
  <2>8. ProducerOK(t)'
    BY <2>1, <2>2, <2>3, <2>5, <2>7 DEF ProducerOK, Enqueues, HoldsOld, Waits
  <2>9. CmdOK' /\ \A u \in Producers: ProducerOK(u)'
    BY <1>0, <2>1, <2>5, <2>6, <2>7, <2>8, Frame
  <2>. QED BY <2>5, <2>6, <2>7, <2>9 DEF IInv
<1>20. ASSUME TimeOut(t) PROVE IInv'
  <2>1. /\ pc[t] = "wait" /\ Goto(t, "timedout")
        /\ UNCHANGED <<block, queue, hand, other, round, test, made>>
    BY <1>20 DEF TimeOut
  <2>2. hand[t] = NoBlock /\ other[t] = NoBlock /\ test[t] # NoBlock
    BY <1>18, <2>1 DEF Waits
  <2>3. pc'[t] = "timedout" /\ (\A u \in Tasks \ {t}: pc'[u] = pc[u]) /\ Control'
    BY <1>0, <2>1 DEF Goto, Control
  <2>4. ProducerOK(t)'
    BY <2>1, <2>2, <2>3 DEF ProducerOK, Enqueues, HoldsOld, Waits
  <2>. QED BY <1>2, <2>1, <2>3, <2>4
<1>21. ASSUME LeaveTest(t) PROVE IInv'
  <2>1. /\ pc[t] \in {"answered", "timedout"} /\ Release(test[t])
        /\ test' = [test EXCEPT ![t] = NoBlock] /\ Goto(t, "idle")
        /\ UNCHANGED <<queue, hand, other, round, made>>
    BY <1>21 DEF LeaveTest
  <2>2. /\ hand[t] = NoBlock /\ other[t] = NoBlock
        /\ test[t] \in Blocks /\ test[t] # NoBlock /\ Waited(test[t])
    BY <1>18, <2>1 DEF Waits
  <2>3. /\ \A u \in Producers \ {t}: test'[u] = test[u]
        /\ test'[t] = NoBlock /\ test' \in [Producers -> Ref]
    BY <1>0, <2>1 DEF Control, Ref
  <2>4. \A b \in Blocks: Waited(b)' <=> Waited(b) /\ b # test[t]
    BY <1>0, <2>2, <2>3 DEF Waited, Waiters
  <2>5. \A b \in Blocks: HeldSomewhere(b)' <=> HeldSomewhere(b)
    BY <2>1 DEF HeldSomewhere, InHand, InQueue
  <2>6. Heap' /\ OthersKept
    BY <1>0, <2>1, <2>2, <2>4, <2>5, HeapLeave
  <2>7. Places' /\ Waiters'
    BY <1>0, <2>1, <2>3 DEF Places, Apart, Waiters
  <2>8. pc'[t] = "idle" /\ (\A u \in Tasks \ {t}: pc'[u] = pc[u]) /\ Control'
    BY <1>0, <2>1, <2>3 DEF Goto, Control
  <2>9. ProducerOK(t)'
    BY <2>1, <2>2, <2>3, <2>8 DEF ProducerOK, Enqueues, HoldsOld, Waits
  <2>10. CmdOK' /\ \A u \in Producers: ProducerOK(u)'
    BY <1>0, <2>1, <2>3, <2>6, <2>7, <2>8, <2>9, Frame
  <2>. QED BY <2>6, <2>7, <2>8, <2>10 DEF IInv
<1>. QED
  BY <1>1, <1>3, <1>5, <1>6, <1>7, <1>8, <1>10, <1>11, <1>13, <1>14, <1>16, <1>17,
     <1>19, <1>20, <1>21 DEF Producer, Enqueuing

\* The steps of sd_cmd.
LEMMA CmdStep ==
    ASSUME IInv, Cmd
    PROVE  IInv'
<1>. USE JobQueueAssumption DEF Tasks
<1>0. /\ SdCmd \in Tasks /\ SdCmd \notin Producers /\ CmdOK
      /\ Places /\ Heap /\ Control /\ Waiters
  BY DEF IInv
\* What is left to show of a step that changes only sd_cmd's own variables.
<1>1. ASSUME UNCHANGED <<round, test, made>>, Places', Heap', OthersKept,
             Len(queue') <= QueueLen,
             pc' \in [Tasks -> {"idle", "send", "take", "putback", "drop", "unref",
                           "giveup", "unrefnew", "wait", "answered", "timedout", "drain",
                           "dispatch"}],
             \A u \in Producers:
                pc'[u] = pc[u] /\ hand'[u] = hand[u] /\ other'[u] = other[u],
             CmdOK'
      PROVE  IInv'
  <2>1. Control' /\ Waiters'
    BY <1>0, <1>1 DEF Control, Waiters
  <2>2. CmdOK' /\ \A u \in Producers: ProducerOK(u)'
    BY <1>0, <1>1, Frame
  <2>. QED BY <1>1, <2>1, <2>2 DEF IInv
<1>2. ASSUME test' = test PROVE \A b \in Blocks: Waited(b)' <=> Waited(b)
  BY <1>2 DEF Waited
<1>3. queue # <<>> => Head(queue) \in Blocks /\ Len(Tail(queue)) <= QueueLen
  BY <1>0, HeadTailProperties DEF Places, Control
<1>4. ASSUME Receive PROVE IInv'
  <2>. DEFINE h == Head(queue)
  <2>1. /\ pc[SdCmd] = "idle" /\ queue # <<>> /\ queue' = Tail(queue)
        /\ hand' = [hand EXCEPT ![SdCmd] = h] /\ Goto(SdCmd, CmdPc(h))
        /\ UNCHANGED <<block, other, round, test, made>>
    BY <1>4 DEF Receive
  <2>2. hand[SdCmd] = NoBlock /\ other[SdCmd] = NoBlock /\ h \in Blocks /\ h # NoBlock
    BY <1>0, <1>3, <2>1 DEF CmdOK
  <2>3. Places' /\ (\A b \in Blocks: HeldSomewhere(b)' <=> HeldSomewhere(b))
    BY <1>0, <2>1, <2>2, TakeToHand
  <2>4. Heap' /\ OthersKept
    BY <1>0, <1>2, <2>1, <2>3, HeapUnchanged
  <2>5. /\ CmdPc(h) \in {"drain", "dispatch"}
        /\ CmdPc(h) = "drain" => block[h].type = "VALUE"
    BY <2>2 DEF CmdPc
  <2>. HIDE DEF h
  <2>6. /\ \A u \in Producers:
              pc'[u] = pc[u] /\ hand'[u] = hand[u] /\ other'[u] = other[u]
        /\ pc'[SdCmd] = CmdPc(h) /\ hand'[SdCmd] = h /\ other'[SdCmd] = NoBlock
        /\ pc' \in [Tasks -> {"idle", "send", "take", "putback", "drop", "unref",
                           "giveup", "unrefnew", "wait", "answered", "timedout", "drain",
                           "dispatch"}]
    BY <1>0, <2>1, <2>2, <2>5 DEF Goto, Control, Places
  <2>7. CmdOK'
    BY <2>1, <2>2, <2>5, <2>6 DEF CmdOK
  <2>. QED BY <1>1, <1>3, <2>1, <2>3, <2>4, <2>6, <2>7
<1>5. ASSUME Merge PROVE IInv'
  <2>. DEFINE h == Head(queue)
  <2>1. /\ pc[SdCmd] = "drain" /\ queue # <<>> /\ queue' = Tail(queue)
        /\ Free(hand[SdCmd]) /\ hand' = [hand EXCEPT ![SdCmd] = h]
        /\ block[h].type = "VALUE"
        /\ UNCHANGED <<pc, other, round, test, made>>
    BY <1>5 DEF Merge
  <2>2. hand[SdCmd] # NoBlock /\ other[SdCmd] = NoBlock /\ h \in Blocks /\ h # NoBlock
    BY <1>0, <1>3, <2>1 DEF CmdOK
  <2>3. /\ Places' /\ hand[SdCmd] \in Blocks /\ HeldSomewhere(hand[SdCmd]) /\ h # hand[SdCmd]
        /\ \A b \in Blocks: HeldSomewhere(b)' <=> HeldSomewhere(b) /\ b # hand[SdCmd]
    BY <1>0, <2>1, <2>2, ReplaceHand
  <2>4. block[hand[SdCmd]].type # "TEST"
    BY <1>0, <2>1 DEF IInv, CmdOK
  <2>5. Heap' /\ OthersKept
    BY <1>0, <1>2, <2>1, <2>3, <2>4, HeapFree
  <2>. HIDE DEF h
  <2>6. /\ \A u \in Producers:
              pc'[u] = pc[u] /\ hand'[u] = hand[u] /\ other'[u] = other[u]
        /\ pc'[SdCmd] = "drain" /\ hand'[SdCmd] = h /\ other'[SdCmd] = NoBlock
    BY <1>0, <2>1, <2>2 DEF Control, Places
  <2>7. CmdOK'
    <3>1. block'[h] = block[h]
      BY <1>0, <2>1, <2>2, <2>3 DEF Free, Heap
    <3>. QED BY <2>1, <2>2, <2>6, <3>1 DEF CmdOK
  <2>. QED BY <1>0, <1>1, <1>3, <2>1, <2>3, <2>5, <2>6, <2>7 DEF Control
<1>6. ASSUME Carry PROVE IInv'
  <2>. DEFINE h == Head(queue)
  <2>1. /\ pc[SdCmd] = "drain" /\ queue # <<>> /\ queue' = Tail(queue)
        /\ other' = [other EXCEPT ![SdCmd] = h] /\ Goto(SdCmd, "dispatch")
        /\ UNCHANGED <<block, hand, round, test, made>>
    BY <1>6 DEF Carry
  <2>2. hand[SdCmd] # NoBlock /\ other[SdCmd] = NoBlock
    BY <1>0, <2>1 DEF CmdOK
  <2>3. Places' /\ (\A b \in Blocks: HeldSomewhere(b)' <=> HeldSomewhere(b))
    BY <1>0, <2>1, <2>2, TakeToOther
  <2>4. Heap' /\ OthersKept
    BY <1>0, <1>2, <2>1, <2>3, HeapUnchanged
  <2>. HIDE DEF h
  <2>5. /\ \A u \in Producers:
              pc'[u] = pc[u] /\ hand'[u] = hand[u] /\ other'[u] = other[u]
        /\ pc'[SdCmd] = "dispatch" /\ hand'[SdCmd] = hand[SdCmd]
        /\ pc' \in [Tasks -> {"idle", "send", "take", "putback", "drop", "unref",
                           "giveup", "unrefnew", "wait", "answered", "timedout", "drain",
                           "dispatch"}]
    BY <1>0, <2>1 DEF Goto, Control, Places
  <2>6. CmdOK'
    BY <2>2, <2>5 DEF CmdOK
  <2>. QED BY <1>1, <1>3, <2>1, <2>3, <2>4, <2>5, <2>6
<1>7. ASSUME Window PROVE IInv'
  <2>1. /\ pc[SdCmd] = "drain" /\ Goto(SdCmd, "dispatch")
        /\ UNCHANGED <<block, queue, hand, other, round, test, made>>
    BY <1>7 DEF Window
  <2>2. Places' /\ \A b \in Blocks: HeldSomewhere(b)' <=> HeldSomewhere(b)
    BY <1>0, <2>1 DEF Places, Apart, HeldSomewhere, InHand, InQueue
  <2>3. Heap' /\ OthersKept
    BY <1>0, <1>2, <2>1, <2>2, HeapUnchanged
  <2>4. /\ \A u \in Producers: pc'[u] = pc[u]
        /\ pc'[SdCmd] = "dispatch"
        /\ pc' \in [Tasks -> {"idle", "send", "take", "putback", "drop", "unref",
                           "giveup", "unrefnew", "wait", "answered", "timedout", "drain",
                           "dispatch"}]
    BY <1>0, <2>1 DEF Goto, Control
  <2>5. CmdOK'
    BY <1>0, <2>1, <2>4 DEF CmdOK
  <2>. QED BY <1>0, <1>1, <2>1, <2>2, <2>3, <2>4, <2>5 DEF Control
<1>8. ASSUME RunTest PROVE IInv'
  <2>1. /\ pc[SdCmd] = "dispatch" /\ block[hand[SdCmd]].type = "TEST"
        /\ Answer(hand[SdCmd], "ran") /\ Goto(SdCmd, "unref")
        /\ UNCHANGED <<queue, hand, other, round, test, made>>
    BY <1>8 DEF RunTest
  <2>2. hand[SdCmd] \in Blocks /\ hand[SdCmd] # NoBlock
    BY <1>0, <2>1 DEF CmdOK, Places, Ref
  <2>3. Places' /\ \A b \in Blocks: HeldSomewhere(b)' <=> HeldSomewhere(b)
    BY <1>0, <2>1 DEF Places, Apart, HeldSomewhere, InHand, InQueue
  <2>4. Heap' /\ OthersKept /\ block'[hand[SdCmd]].type = "TEST"
    BY <1>0, <1>2, <2>1, <2>2, <2>3, HeapAnswer
  <2>5. /\ \A u \in Producers: pc'[u] = pc[u]
        /\ pc'[SdCmd] = "unref"
        /\ pc' \in [Tasks -> {"idle", "send", "take", "putback", "drop", "unref",
                           "giveup", "unrefnew", "wait", "answered", "timedout", "drain",
                           "dispatch"}]
    BY <1>0, <2>1 DEF Goto, Control
  <2>6. CmdOK'
    BY <2>1, <2>2, <2>4, <2>5 DEF CmdOK
  <2>. QED BY <1>0, <1>1, <2>1, <2>3, <2>4, <2>5, <2>6 DEF Control
\* The carried job is next, whatever became of the one in hand.
<1>9. ASSUME NextJob, Places', Heap', OthersKept, pc[SdCmd] # "idle",
             \A b \in Blocks: HeldSomewhere(b)' <=> HeldSomewhere(b) /\ b # hand[SdCmd],
             \A b \in Blocks \ {hand[SdCmd]}: block'[b] = block[b]
      PROVE  IInv'
  <2>. DEFINE o == other[SdCmd]
  <2>1. /\ hand' = [hand EXCEPT ![SdCmd] = o] /\ other' = [other EXCEPT ![SdCmd] = NoBlock]
        /\ Goto(SdCmd, CmdPc(o)) /\ UNCHANGED <<queue, round, test, made>>
    BY <1>9 DEF NextJob
  <2>2. o \in Ref /\ (o # NoBlock => o # hand[SdCmd])
    BY <1>0 DEF Places, Apart
  <2>3. /\ CmdPc(o) \in {"idle", "drain", "dispatch"}
        /\ CmdPc(o) = "idle" <=> o = NoBlock
        /\ CmdPc(o) = "drain" => block[o].type = "VALUE"
    BY DEF CmdPc
  <2>. HIDE DEF o
  <2>4. /\ \A u \in Producers:
              pc'[u] = pc[u] /\ hand'[u] = hand[u] /\ other'[u] = other[u]
        /\ pc'[SdCmd] = CmdPc(o) /\ hand'[SdCmd] = o /\ other'[SdCmd] = NoBlock
        /\ pc' \in [Tasks -> {"idle", "send", "take", "putback", "drop", "unref",
                           "giveup", "unrefnew", "wait", "answered", "timedout", "drain",
                           "dispatch"}]
    BY <1>0, <2>1, <2>3 DEF Goto, Control, Places
  <2>5. o # NoBlock => block'[o] = block[o]
    BY <1>9, <2>2 DEF Ref
  <2>6. CmdOK'
    BY <2>3, <2>4, <2>5 DEF CmdOK
  <2>. QED BY <1>0, <1>1, <1>9, <2>1, <2>4, <2>6 DEF Control
\* The job in hand is held no more.
<1>10. ASSUME NextJob, pc[SdCmd] # "idle"
       PROVE  /\ Places' /\ hand[SdCmd] \in Blocks /\ HeldSomewhere(hand[SdCmd])
              /\ \A b \in Blocks: HeldSomewhere(b)' <=> HeldSomewhere(b) /\ b # hand[SdCmd]
              /\ test' = test
  <2>1. /\ hand' = [hand EXCEPT ![SdCmd] = other[SdCmd]]
        /\ other' = [other EXCEPT ![SdCmd] = NoBlock] /\ queue' = queue /\ test' = test
    BY <1>10 DEF NextJob
  <2>2. hand[SdCmd] # NoBlock
    BY <1>0, <1>10 DEF CmdOK
  <2>. QED BY <1>0, <2>1, <2>2, NextInHand
<1>11. ASSUME UnrefRun PROVE IInv'
  <2>1. pc[SdCmd] = "unref" /\ Release(hand[SdCmd]) /\ NextJob
    BY <1>11 DEF UnrefRun
  <2>2. block[hand[SdCmd]].type = "TEST"
    BY <1>0, <2>1 DEF CmdOK
  <2>3. /\ Places' /\ hand[SdCmd] \in Blocks /\ HeldSomewhere(hand[SdCmd])
        /\ \A b \in Blocks: HeldSomewhere(b)' <=> HeldSomewhere(b) /\ b # hand[SdCmd]
        /\ test' = test
    BY <1>10, <2>1
  <2>4. Heap' /\ OthersKept
    BY <1>0, <1>2, <2>1, <2>2, <2>3, HeapRelease
  <2>5. \A b \in Blocks \ {hand[SdCmd]}: block'[b] = block[b]
    BY <1>0, <2>1, <2>3 DEF Release, Free, Heap
  <2>. QED BY <1>9, <2>1, <2>3, <2>4, <2>5
<1>12. ASSUME RunJob PROVE IInv'
  <2>1. /\ pc[SdCmd] = "dispatch" /\ block[hand[SdCmd]].type # "TEST"
        /\ Free(hand[SdCmd]) /\ NextJob
    BY <1>12 DEF RunJob
  <2>2. /\ Places' /\ hand[SdCmd] \in Blocks /\ HeldSomewhere(hand[SdCmd])
        /\ \A b \in Blocks: HeldSomewhere(b)' <=> HeldSomewhere(b) /\ b # hand[SdCmd]
        /\ test' = test
    BY <1>10, <2>1
  <2>3. Heap' /\ OthersKept
    BY <1>0, <1>2, <2>1, <2>2, HeapFree
  <2>4. \A b \in Blocks \ {hand[SdCmd]}: block'[b] = block[b]
    BY <1>0, <2>1, <2>2 DEF Free, Heap
  <2>. QED BY <1>9, <2>1, <2>2, <2>3, <2>4
<1>. QED BY <1>4, <1>5, <1>6, <1>7, <1>8, <1>11, <1>12 DEF Cmd

-----------------------------------------------------------------------------
(* The theorems.                                                           *)

\* At the start there is no job.
LEMMA InitIInv == Init => IInv
<1>. SUFFICES ASSUME Init PROVE IInv
  OBVIOUS
<1>. USE JobQueueAssumption DEF Tasks
<1>1. queue = <<>> /\ Len(queue) = 0 /\ queue \in Seq(Blocks)
  BY DEF Init
<1>2. Places
  BY <1>1 DEF Init, Places, Apart, Distinct, In, Ref
<1>3. \A b \in Blocks: ~HeldSomewhere(b) /\ ~Waited(b)
  BY <1>1 DEF Init, HeldSomewhere, InQueue, InHand, Waited
<1>4. FreeBlock \in BlockType /\ FreeBlock.type = "free" /\ FreeBlock.done = FALSE
  BY DEF BlockType, FreeBlock
<1>5. Heap
  BY <1>3, <1>4 DEF Init, Heap, Account
<1>6. Control /\ Waiters
  BY <1>1 DEF Init, Control, Waiters, Ref
<1>7. CmdOK /\ \A t \in Producers: ProducerOK(t)
  BY DEF Init, CmdOK, ProducerOK, Enqueues, HoldsOld, Waits
<1>. QED BY <1>2, <1>5, <1>6, <1>7 DEF IInv

\* The invariant is inductive.
LEMMA StepIInv == IInv /\ [Next]_vars => IInv'
<1>. SUFFICES ASSUME IInv, [Next]_vars PROVE IInv'
  OBVIOUS
<1>1. CASE Cmd
  BY <1>1, CmdStep
<1>2. CASE \E t \in Producers: Producer(t)
  BY <1>2, ProducerStep
<1>3. CASE UNCHANGED vars
  <2>1. UNCHANGED <<block, queue, pc, hand, other, round, test, made>>
    BY <1>3 DEF vars
  <2>2. Places' /\ Control' /\ Waiters' /\ CmdOK' /\ \A t \in Producers: ProducerOK(t)'
    BY <2>1 DEF IInv, Places, Apart, Control, Waiters, CmdOK, ProducerOK
  <2>3. \A b \in Blocks: (HeldSomewhere(b)' <=> HeldSomewhere(b)) /\ (Waited(b)' <=> Waited(b))
    BY <2>1 DEF HeldSomewhere, InHand, InQueue, Waited
  <2>4. Heap'
    BY <2>1, <2>3, HeapUnchanged DEF IInv
  <2>. QED BY <2>2, <2>4 DEF IInv
<1>. QED BY <1>1, <1>2, <1>3 DEF Next, Rest

\* It holds all along.
LEMMA Invariant == Spec => []IInv
BY InitIInv, StepIInv, PTL DEF Spec

\* The variables of the queue and of the tasks keep their types: the queue never
\* outgrows SD_ENGINE_QUEUE_LEN, and a TEST never counts more than two sides.
THEOREM JobTypeOK == Spec => []TypeOK
<1>1. IInv => TypeOK
  BY DEF IInv, Places, Heap, Control, TypeOK, Ref, BlockType
<1>. QED BY <1>1, Invariant, PTL

\* test_release's comment for any number of tasks and blocks: no block is used
\* after it is freed, none is owned twice, none is lost, and eng_run_test reads
\* a result only after it was written.
THEOREM JobsAreOwned == Spec => []BlocksOwned
<1>1. IInv => NoUseAfterFree
  <2>. SUFFICES ASSUME IInv PROVE NoUseAfterFree
    OBVIOUS
  <2>1. \A b \in Blocks: HeldSomewhere(b) \/ Waited(b) => block[b] # FreeBlock
    BY DEF IInv, Heap, Account
  <2>2. ASSUME NEW t \in Tasks PROVE Allocated(hand[t]) /\ Allocated(other[t])
    BY <2>1 DEF IInv, Places, Ref, Allocated, HeldSomewhere, InHand
  <2>3. ASSUME NEW t \in Producers PROVE Allocated(test[t])
    BY <2>1 DEF IInv, Control, Ref, Allocated, Waited
  <2>4. ASSUME NEW i \in 1..Len(queue) PROVE Allocated(queue[i])
    <3>1. queue[i] \in Blocks /\ HeldSomewhere(queue[i])
      BY DEF IInv, Places, HeldSomewhere, InQueue
    <3>. QED BY <2>1, <3>1 DEF Allocated
  <2>. QED BY <2>2, <2>3, <2>4 DEF NoUseAfterFree
<1>2. IInv => SingleOwner
  BY ApartIsSingleOwner DEF IInv, Places
<1>3. IInv => NoLeak
  BY DEF IInv, Heap, Account, One, HeldSomewhere, NoLeak
<1>4. IInv => AnswerIsWritten
  BY DEF IInv, ProducerOK, AnswerIsWritten
<1>. QED BY <1>1, <1>2, <1>3, <1>4, Invariant, PTL DEF BlocksOwned

-----------------------------------------------------------------------------
(* The MQTT session.                                                         *)

HeldSlots == {s \in Slots : held[s]}

\* Who has what, and where a reload stands.
Ownership ==
    /\ mtx = "subscriber" <=> subscriber # "idle"
    /\ mtx = "reload" <=> reload.pc = "stop"
    /\ reload.pc \in {"release", "stop", "acquire"} => (held[reload.slot] <=> reload.pc = "release")
    /\ subscriber # "idle" => subscriber \in subs
    /\ client <= clients
    /\ reload.pc = "stop" => refcount = 0

\* The link, the flag and the client.
Linked ==
    /\ connected = link
    /\ link => client # 0
    /\ task # "idle" => link
    /\ ~link => brokerSubs = {}

\* What the broker lacks is what someone is about to send.
Applied ==
    /\ link /\ task = "connected" => brokerSubs \subseteq subs
    /\ link /\ task # "connected" =>
           brokerSubs \cup (IF subscriber = "idle" THEN {} ELSE {subscriber}) = subs

SInv == SessionTypeOK /\ RefcountIsHeld /\ Ownership /\ Linked /\ Applied

\* The slots that hold the session are finitely many, no more than there are, and none
\* exactly when their number is zero.
LEMMA HeldCounted ==
    ASSUME SessionTypeOK
    PROVE  /\ IsFiniteSet(HeldSlots)
           /\ Cardinality(HeldSlots) \in 0..Cardinality(Slots)
           /\ Cardinality(HeldSlots) = 0 <=> HeldSlots = {}
           /\ Cardinality(Slots) \in Nat
  <1>1. HeldSlots \subseteq Slots /\ IsFiniteSet(Slots)
    BY SessionAssumption DEF HeldSlots
  <1>2. IsFiniteSet(HeldSlots) /\ Cardinality(HeldSlots) <= Cardinality(Slots)
    BY <1>1, FS_Subset
  <1> QED BY <1>1, <1>2, FS_CardinalityType, FS_EmptySet

\* A slot that takes the session is one more.
LEMMA HeldGrows ==
    ASSUME SessionTypeOK, NEW s \in Slots, ~held[s], held' = [held EXCEPT ![s] = TRUE]
    PROVE  /\ Cardinality(HeldSlots') = Cardinality(HeldSlots) + 1
           /\ Cardinality(HeldSlots') <= Cardinality(Slots)
           /\ held' \in [Slots -> BOOLEAN]
  <1>1. HeldSlots' = HeldSlots \cup {s} /\ s \notin HeldSlots
    BY DEF SessionTypeOK, HeldSlots
  <1>2. HeldSlots' \subseteq Slots /\ IsFiniteSet(Slots)
    BY SessionAssumption DEF HeldSlots
  <1> QED BY <1>1, <1>2, HeldCounted, FS_AddElement, FS_Subset DEF SessionTypeOK

\* A slot that lets it go is one less.
LEMMA HeldShrinks ==
    ASSUME SessionTypeOK, NEW s \in Slots, held[s], held' = [held EXCEPT ![s] = FALSE]
    PROVE  /\ Cardinality(HeldSlots') = Cardinality(HeldSlots) - 1
           /\ held' \in [Slots -> BOOLEAN]
  <1>1. HeldSlots' = HeldSlots \ {s} /\ s \in HeldSlots
    BY DEF SessionTypeOK, HeldSlots
  <1> QED BY <1>1, HeldCounted, FS_RemoveElement DEF SessionTypeOK

\* What follows the release of a reload: the acquisition for the same slot, or nothing.
LEMMA AfterReleaseType ==
    ASSUME NEW r \in [pc : {"release", "stop", "acquire"}, slot : Slots, uri : Uris \cup {NoUri}]
    PROVE  \/ AfterRelease(r) = Idle
           \/ /\ AfterRelease(r) \in [pc : {"release", "stop", "acquire"}, slot : Slots, uri : Uris \cup {NoUri}]
              /\ AfterRelease(r).pc = "acquire" /\ AfterRelease(r).slot = r.slot
  BY DEF AfterRelease

ReloadUnderWay == reload.pc \in {"release", "stop", "acquire"}

\* A reload is idle or well formed.
LEMMA ReloadShape ==
    ASSUME SessionTypeOK
    PROVE  \/ reload = Idle /\ reload.pc = "idle"
           \/ reload \in [pc : {"release", "stop", "acquire"}, slot : Slots, uri : Uris \cup {NoUri}]
  BY DEF SessionTypeOK, Idle

\* Nobody holds the session at first.
LEMMA SessionInitially == SessionInit => SInv
  <1> SUFFICES ASSUME SessionInit PROVE SInv
    OBVIOUS
  <1>1. SessionTypeOK
    <2>1. Cardinality(Slots) \in Nat
      BY SessionAssumption, FS_CardinalityType
    <2>2. 0 \in 0..Cardinality(Slots) /\ 0 \in 0..MaxClients
      BY <2>1, SessionAssumption
    <2>3. held \in [Slots -> BOOLEAN]
      BY DEF SessionInit
    <2> QED BY <2>2, <2>3 DEF SessionInit, SessionTypeOK, Holders
  <1>2. HeldSlots = {}
    BY DEF SessionInit, HeldSlots
  <1>3. RefcountIsHeld
    <2>1. Cardinality(HeldSlots) = 0
      BY <1>2, FS_EmptySet
    <2>2. refcount = 0 /\ client = 0 /\ reload.pc = "idle"
      BY DEF SessionInit, Idle
    <2> QED BY <2>1, <2>2 DEF RefcountIsHeld, HeldSlots
  <1>4. Ownership
    BY DEF SessionInit, Ownership, Idle
  <1>5. Linked /\ Applied
    BY DEF SessionInit, Linked, Applied
  <1> QED BY <1>1, <1>3, <1>4, <1>5 DEF SInv

\* The steps of a reload (release, stop, acquire) keep the session's invariant.
LEMMA LoadSlotKeeps == SInv /\ LoadSlot => SInv'
  <1> SUFFICES ASSUME SInv, LoadSlot PROVE SInv'
    OBVIOUS
  <1> USE SessionAssumption
  <1>0. SessionTypeOK /\ RefcountIsHeld /\ Ownership /\ Linked /\ Applied
    BY DEF SInv
  <1>C. /\ refcount = Cardinality(HeldSlots)
        /\ client # 0 <=> refcount > 0 \/ reload.pc = "stop"
    BY <1>0 DEF RefcountIsHeld, HeldSlots
  <1>R. \/ reload = Idle /\ reload.pc = "idle"
        \/ reload \in [pc : {"release", "stop", "acquire"}, slot : Slots, uri : Uris \cup {NoUri}]
    BY <1>0, ReloadShape
  <1>N. Cardinality(HeldSlots) \in 0..Cardinality(Slots) /\ Cardinality(Slots) \in Nat
    BY <1>0, HeldCounted
  <1>1. CASE \E s \in Slots, u \in Uris \cup {NoUri} : Reload(s, u)
    <2> PICK s \in Slots, u \in Uris \cup {NoUri} : Reload(s, u)
      BY <1>1
    <2> DEFINE r == [pc |-> "release", slot |-> s, uri |-> u]
    <2>1. r \in [pc : {"release", "stop", "acquire"}, slot : Slots, uri : Uris \cup {NoUri}] /\ r.slot = s /\ r.pc = "release"
      OBVIOUS
    <2> HIDE DEF r
    <2>2. reload = Idle /\ reload' = IF held[s] THEN r ELSE AfterRelease(r)
      BY DEF Reload, r
    <2>3. UNCHANGED <<held, refcount, client, uri, connected, subs, mtx, task, link, brokerSubs, subscriber, pub, clients>>
      BY DEF Reload
    <2>4. \/ held[s] /\ reload' = r
          \/ ~held[s] /\ reload' = AfterRelease(r)
      BY <2>2
    <2>5. reload.pc = "idle"
      BY <2>2 DEF Idle
    <2>6. /\ reload' \in {Idle} \cup [pc : {"release", "stop", "acquire"}, slot : Slots, uri : Uris \cup {NoUri}]
          /\ reload'.pc # "stop"
          /\ reload'.pc \in {"release", "stop", "acquire"} => reload'.slot = s /\ (held[s] <=> reload'.pc = "release")
      BY <2>1, <2>4, AfterReleaseType DEF Idle
    <2>7. SessionTypeOK'
      BY <1>0, <2>3, <2>6 DEF SessionTypeOK
    <2>8. RefcountIsHeld'
      BY <1>0, <2>3, <2>5, <2>6 DEF RefcountIsHeld
    <2>9. Ownership'
      BY <1>0, <2>3, <2>5, <2>6 DEF Ownership
    <2>10. Linked' /\ Applied'
      BY <1>0, <2>3 DEF Linked, Applied
    <2> QED BY <2>7, <2>8, <2>9, <2>10 DEF SInv
  <1>2. CASE ReleaseOne \/ ReleaseLast
    <2>1. reload.pc = "release" /\ reload.slot \in Slots /\ held[reload.slot]
      <3>1. reload.pc = "release"
        BY <1>2 DEF ReleaseOne, ReleaseLast
      <3> QED BY <1>0, <1>R, <3>1 DEF Ownership
    <2>2. /\ held' = [held EXCEPT ![reload.slot] = FALSE]
          /\ UNCHANGED <<client, uri, connected, subs, task, link, brokerSubs, subscriber, pub, clients>>
          /\ refcount' = refcount - 1
      <3>1. ReleaseLast => refcount = 1 /\ refcount' = 0
        BY DEF ReleaseLast
      <3>2. ReleaseLast => refcount' = refcount - 1
        BY <3>1
      <3>3. ReleaseOne => refcount' = refcount - 1
        BY DEF ReleaseOne
      <3>4. /\ held' = [held EXCEPT ![reload.slot] = FALSE]
            /\ UNCHANGED <<client, uri, connected, subs, task, link, brokerSubs, subscriber, pub, clients>>
        BY <1>2 DEF ReleaseOne, ReleaseLast
      <3> QED BY <1>2, <3>2, <3>3, <3>4
    <2>3. reload \in [pc : {"release", "stop", "acquire"}, slot : Slots, uri : Uris \cup {NoUri}]
      BY <1>R, <2>1
    <2>4. Cardinality(HeldSlots') = Cardinality(HeldSlots) - 1 /\ held' \in [Slots -> BOOLEAN]
      BY <1>0, <2>1, <2>2, HeldShrinks
    <2>5. refcount' = Cardinality(HeldSlots') /\ refcount' \in 0..Cardinality(Slots)
      <3>1. refcount >= 1
        BY <1>2, <1>C, <1>N DEF ReleaseOne, ReleaseLast
      <3> QED BY <1>C, <1>N, <2>2, <2>4, <3>1
    <2>6. ~held'[reload.slot]
      BY <1>0, <2>1, <2>2 DEF SessionTypeOK
    <2>7. CASE ReleaseOne
      <3>1. reload' = AfterRelease(reload) /\ mtx' = mtx /\ refcount > 1
        BY <2>7 DEF ReleaseOne
      <3>2. /\ reload' \in {Idle} \cup [pc : {"release", "stop", "acquire"}, slot : Slots, uri : Uris \cup {NoUri}]
            /\ reload'.pc \in {"idle", "acquire"}
            /\ reload'.pc = "acquire" => reload'.slot = reload.slot
        BY <2>3, <3>1, AfterReleaseType DEF Idle
      <3>3. SessionTypeOK'
        BY <1>0, <2>2, <2>4, <2>5, <3>1, <3>2 DEF SessionTypeOK
      <3>4. RefcountIsHeld'
        <4>1. refcount' > 0 /\ client' # 0
          BY <1>C, <1>N, <2>2, <3>1
        <4> QED BY <2>5, <4>1 DEF RefcountIsHeld, HeldSlots
      <3>5. Ownership'
        BY <1>0, <2>1, <2>2, <2>6, <3>1, <3>2 DEF Ownership
      <3>6. Linked' /\ Applied'
        BY <1>0, <2>2 DEF Linked, Applied
      <3> QED BY <3>3, <3>4, <3>5, <3>6 DEF SInv
    <2>8. CASE ReleaseLast
      <3>1. /\ reload' = [reload EXCEPT !.pc = "stop"] /\ mtx = "free" /\ mtx' = "reload"
            /\ refcount' = 0 /\ client # 0
        BY <2>8 DEF ReleaseLast
      <3>2. /\ reload' \in [pc : {"release", "stop", "acquire"}, slot : Slots, uri : Uris \cup {NoUri}]
            /\ reload'.pc = "stop" /\ reload'.slot = reload.slot
        BY <2>3, <3>1
      <3>3. SessionTypeOK'
        BY <1>0, <2>2, <2>4, <2>5, <3>1, <3>2 DEF SessionTypeOK, Holders
      <3>4. RefcountIsHeld'
        BY <2>2, <2>5, <3>1, <3>2 DEF RefcountIsHeld, HeldSlots
      <3>5. Ownership'
        BY <1>0, <2>1, <2>2, <2>6, <3>1, <3>2 DEF Ownership
      <3>6. Linked' /\ Applied'
        BY <1>0, <2>2 DEF Linked, Applied
      <3> QED BY <3>3, <3>4, <3>5, <3>6 DEF SInv
    <2> QED BY <1>2, <2>7, <2>8
  <1>3. CASE StopClient
    <2>1. /\ reload.pc = "stop" /\ client' = 0 /\ uri' = NoUri /\ connected' = FALSE /\ subs' = {}
          /\ mtx' = "free" /\ link' = FALSE /\ brokerSubs' = {} /\ task = "idle"
          /\ reload' = AfterRelease(reload)
          /\ UNCHANGED <<held, refcount, task, subscriber, pub, clients>>
      BY <1>3 DEF StopClient
    <2>2. reload \in [pc : {"release", "stop", "acquire"}, slot : Slots, uri : Uris \cup {NoUri}]
      BY <1>R, <2>1
    <2>3. /\ reload' \in {Idle} \cup [pc : {"release", "stop", "acquire"}, slot : Slots, uri : Uris \cup {NoUri}]
          /\ reload'.pc \in {"idle", "acquire"}
          /\ reload'.pc = "acquire" => reload'.slot = reload.slot
      BY <2>1, <2>2, AfterReleaseType DEF Idle
    <2>4. refcount = 0 /\ mtx = "reload" /\ subscriber = "idle" /\ ~held[reload.slot]
      <3>1. mtx = "reload" /\ subscriber = "idle" /\ ~held[reload.slot]
        BY <1>0, <2>1 DEF Ownership
      <3>2. refcount = 0
        BY <1>0, <2>1 DEF Ownership
      <3> QED BY <3>1, <3>2
    <2>5. SessionTypeOK'
      <3>1. client' \in 0..MaxClients
        BY <2>1
      <3> QED BY <1>0, <2>1, <2>3, <3>1 DEF SessionTypeOK, Holders
    <2>6. RefcountIsHeld'
      BY <1>0, <2>1, <2>3, <2>4 DEF RefcountIsHeld
    <2>7. Ownership'
      BY <1>0, <2>1, <2>3, <2>4 DEF Ownership, SessionTypeOK
    <2>8. Linked' /\ Applied'
      BY <2>1 DEF Linked, Applied
    <2> QED BY <2>5, <2>6, <2>7, <2>8 DEF SInv
  <1>4. CASE AcquireShared \/ AcquireFirst
    <2>1. reload.pc = "acquire" /\ reload.slot \in Slots /\ ~held[reload.slot] /\ reload.uri \in Uris \cup {NoUri}
      <3>1. reload.pc = "acquire"
        BY <1>4 DEF AcquireShared, AcquireFirst
      <3> QED BY <1>0, <1>R, <3>1 DEF Ownership
    <2>2. /\ held' = [held EXCEPT ![reload.slot] = TRUE] /\ mtx = "free" /\ reload' = Idle /\ reload'.pc = "idle"
          /\ UNCHANGED <<connected, subs, mtx, task, link, brokerSubs, subscriber, pub>>
      BY <1>4 DEF AcquireShared, AcquireFirst, Idle
    <2>3. /\ Cardinality(HeldSlots') = Cardinality(HeldSlots) + 1
          /\ Cardinality(HeldSlots') <= Cardinality(Slots)
          /\ held' \in [Slots -> BOOLEAN]
      BY <1>0, <2>1, <2>2, HeldGrows
    <2>4. /\ refcount' = refcount + 1 /\ client' # 0 /\ client' \in 0..MaxClients /\ clients' \in 0..MaxClients
          /\ client' <= clients' /\ uri' \in Uris \cup {NoUri}
      <3>1. CASE AcquireShared
        BY <1>0, <3>1 DEF AcquireShared, SessionTypeOK, Ownership
      <3>2. CASE AcquireFirst
        <4>1. client = 0 /\ refcount' = 1 /\ client' = clients + 1 /\ clients' = clients + 1 /\ clients < MaxClients
              /\ uri' = reload.uri
          BY <3>2 DEF AcquireFirst
        <4>2. refcount = 0
          BY <1>C, <1>N, <4>1
        <4>3. clients \in 0..MaxClients
          BY <1>0 DEF SessionTypeOK
        <4> QED BY <2>1, <4>1, <4>2, <4>3
      <3> QED BY <1>4, <3>1, <3>2
    <2>5. refcount' = Cardinality(HeldSlots') /\ refcount' \in 0..Cardinality(Slots) /\ refcount' > 0
      BY <1>C, <1>N, <2>3, <2>4
    <2>6. SessionTypeOK'
      BY <1>0, <2>2, <2>3, <2>4, <2>5 DEF SessionTypeOK
    <2>7. RefcountIsHeld'
      BY <2>4, <2>5 DEF RefcountIsHeld, HeldSlots
    <2>8. Ownership'
      BY <1>0, <2>1, <2>2, <2>4 DEF Ownership
    <2>9. Linked' /\ Applied'
      BY <1>0, <2>2, <2>4 DEF Linked, Applied
    <2> QED BY <2>6, <2>7, <2>8, <2>9 DEF SInv
  <1>5. CASE AcquireFails
    <2>1. reload.pc = "acquire" /\ reload' = Idle /\ reload'.pc = "idle"
      BY <1>5 DEF AcquireFails, Idle
    <2>2. UNCHANGED <<held, refcount, client, uri, connected, subs, mtx, task, link, brokerSubs, subscriber, pub, clients>>
      BY <1>5 DEF AcquireFails
    <2>3. SessionTypeOK'
      BY <1>0, <2>1, <2>2 DEF SessionTypeOK
    <2>4. RefcountIsHeld'
      BY <1>0, <2>1, <2>2 DEF RefcountIsHeld
    <2>5. Ownership'
      BY <1>0, <2>1, <2>2 DEF Ownership
    <2>6. Linked' /\ Applied'
      BY <1>0, <2>2 DEF Linked, Applied
    <2> QED BY <2>3, <2>4, <2>5, <2>6 DEF SInv
  <1> QED BY <1>1, <1>2, <1>3, <1>4, <1>5 DEF LoadSlot

\* So do the events of the MQTT library and the subscriptions.
LEMMA SubscribersKeep ==
    SInv /\ (MqttEvent \/ Subscribing) => SInv'
  <1> SUFFICES ASSUME SInv, MqttEvent \/ Subscribing PROVE SInv'
    OBVIOUS
  <1>0. SessionTypeOK /\ RefcountIsHeld /\ Ownership /\ Linked /\ Applied
    BY DEF SInv
  <1>1. UNCHANGED <<held, refcount, client, uri, reload, pub, clients>>
    BY DEF MqttEvent, Connected, ApplySubscriptions, Disconnected, Data, DataDelivered, Subscribing, Subscribe, SubscribeSent
  <1>2. RefcountIsHeld'
    BY <1>0, <1>1 DEF RefcountIsHeld
  <1>3. CASE Connected \/ Disconnected \/ Data
    <2>1. SessionTypeOK'
      BY <1>0, <1>1, <1>3 DEF SessionTypeOK, Connected, Disconnected, Data
    <2>2. Ownership'
      BY <1>0, <1>1, <1>3 DEF Ownership, Connected, Disconnected, Data
    <2>3. Linked' /\ Applied'
      BY <1>0, <1>1, <1>3 DEF Linked, Applied, Connected, Disconnected, Data
    <2> QED BY <1>2, <2>1, <2>2, <2>3 DEF SInv
  <1>4. CASE ApplySubscriptions \/ DataDelivered
    <2>1. SessionTypeOK'
      BY <1>0, <1>1, <1>4 DEF SessionTypeOK, ApplySubscriptions, DataDelivered
    <2>2. Ownership'
      BY <1>0, <1>1, <1>4 DEF Ownership, ApplySubscriptions, DataDelivered
    <2>3. Linked' /\ Applied'
      BY <1>0, <1>1, <1>4 DEF Linked, Applied, Ownership, ApplySubscriptions, DataDelivered
    <2> QED BY <1>2, <2>1, <2>2, <2>3 DEF SInv
  <1>5. CASE \E t \in Topics : Subscribe(t)
    <2> PICK t \in Topics : Subscribe(t)
      BY <1>5
    <2>1. t # "idle"
      BY SessionAssumption
    <2>2. /\ mtx = "free" /\ subs' = subs \cup {t} /\ subscriber = "idle"
          /\ UNCHANGED <<connected, link, task, brokerSubs>>
          /\ IF connected /\ client # 0 THEN mtx' = "subscriber" /\ subscriber' = t ELSE UNCHANGED <<mtx, subscriber>>
      BY DEF Subscribe
    <2>3. SessionTypeOK'
      BY <1>0, <1>1, <2>2 DEF SessionTypeOK, Holders
    <2>4. Ownership'
      BY <1>0, <1>1, <2>1, <2>2 DEF Ownership
    <2>5. Linked' /\ Applied'
      BY <1>0, <1>1, <2>1, <2>2 DEF Linked, Applied
    <2> QED BY <1>2, <2>3, <2>4, <2>5 DEF SInv
  <1>6. CASE SubscribeSent
    <2>1. SessionTypeOK'
      BY <1>0, <1>1, <1>6 DEF SessionTypeOK, Holders, SubscribeSent
    <2>2. Ownership'
      BY <1>0, <1>1, <1>6 DEF Ownership, SubscribeSent
    <2>3. Linked' /\ Applied'
      BY <1>0, <1>1, <1>6 DEF Linked, Applied, SubscribeSent
    <2> QED BY <1>2, <2>1, <2>2, <2>3 DEF SInv
  <1> QED BY <1>3, <1>4, <1>5, <1>6 DEF MqttEvent, Subscribing

\* So does a send.
LEMMA PublishKeeps == SInv /\ Publish => SInv'
  <1> SUFFICES ASSUME SInv, Publish PROVE SInv'
    OBVIOUS
  <1>1. /\ UNCHANGED <<held, refcount, client, uri, connected, subs, mtx, reload, task, link, brokerSubs, subscriber, clients>>
        /\ pub' \in {0, client}
    BY DEF Publish, PublishCheck, PublishCall
  <1>2. SessionTypeOK'
    BY <1>1, SessionAssumption DEF SInv, SessionTypeOK
  <1> QED BY <1>1, <1>2 DEF SInv, RefcountIsHeld, Ownership, Linked, Applied

-----------------------------------------------------------------------------
(* Integer division. *)
LEMMA DivisionOf ==
    ASSUME NEW n \in Nat, NEW d \in Nat \ {0}
    PROVE  /\ n \div d \in Nat
           /\ (n \div d) * d <= n
           /\ n < (n \div d) * d + d
  OBVIOUS

\* Half of a number, as the code rounds it.
LEMMA HalfOf ==
    ASSUME NEW d \in Nat \ {0}
    PROVE  /\ d \div 2 \in Nat
           /\ d \div 2 < d
           /\ 2 * (d \div 2) <= d
           /\ d <= 2 * (d \div 2) + 1
  OBVIOUS

\* Products of naturals are monotonic.
LEMMA ProductMonotonic ==
    ASSUME NEW a \in Nat, NEW b \in Nat, NEW d \in Nat, a <= b
    PROVE  a * d <= b * d /\ a * d \in Nat
  <1>1. PICK e \in Nat : b = a + e
    <2>1. b - a \in Nat /\ b = a + (b - a)
      OBVIOUS
    <2> QED BY <2>1
  <1>2. b * d = a * d + e * d /\ e * d \in Nat /\ a * d \in Nat
    BY <1>1
  <1> QED BY <1>2

Rounded(n, d) == (n + d \div 2) \div d

\* The rounded quotient is the nearest.
LEMMA RoundedIsNearest ==
    ASSUME NEW n \in Nat, NEW d \in Nat \ {0}
    PROVE  /\ Rounded(n, d) \in Nat
           /\ 2 * (Rounded(n, d) * d - n) <= d
           /\ 2 * (n - Rounded(n, d) * d) <= d
  <1> DEFINE h == d \div 2
             k == (n + h) \div d
  <1>1. h \in Nat /\ 2 * h <= d /\ d <= 2 * h + 1
    BY HalfOf
  <1>2. k \in Nat /\ k * d <= n + h /\ n + h < k * d + d
    <2> HIDE DEF h
    <2>1. n + h \in Nat
      BY <1>1
    <2> QED BY <2>1, DivisionOf
  <1>3. Rounded(n, d) = k
    BY DEF Rounded
  <1> HIDE DEF h, k
  <1>4. k * d \in Int
    BY <1>2
  <1> QED BY <1>1, <1>2, <1>3, <1>4

\* ... and no more than what bounds the exact one.
LEMMA RoundedBounded ==
    ASSUME NEW n \in Nat, NEW d \in Nat \ {0}, NEW w \in Nat, n <= w * d
    PROVE  Rounded(n, d) <= w
  <1> DEFINE h == d \div 2
             k == (n + h) \div d
  <1>1. h \in Nat /\ h < d
    BY HalfOf
  <1>2. k \in Nat /\ k * d <= n + h
    <2> HIDE DEF h
    <2>1. n + h \in Nat
      BY <1>1
    <2> QED BY <2>1, DivisionOf
  <1>3. Rounded(n, d) = k
    BY DEF Rounded
  <1> HIDE DEF h, k
  <1>4. ASSUME w + 1 <= k  PROVE FALSE
    <2>1. (w + 1) * d <= k * d
      BY <1>2, <1>4, ProductMonotonic
    <2>2. (w + 1) * d = w * d + d /\ w * d \in Nat /\ k * d \in Nat
      BY <1>2
    <2> QED BY <1>1, <1>2, <2>1, <2>2
  <1> QED BY <1>2, <1>3, <1>4

\* Half a divisor, away from zero.
Away(num, den) == IF num >= 0 THEN num + Abs(den) \div 2 ELSE num - Abs(den) \div 2

\* C's division of what was moved away from zero by half the divisor, with the
\* signs taken apart.
LEMMA QuotientBySigns ==
    ASSUME NEW num \in Int, NEW den \in Int, den # 0
    PROVE  Quotient(Away(num, den), den) =
               IF (num < 0) = (den < 0) THEN Rounded(Abs(num), Abs(den))
                                        ELSE -Rounded(Abs(num), Abs(den))
  <1> DEFINE h == Abs(den) \div 2
  <1>1. Abs(den) \in Nat \ {0} /\ Abs(num) \in Nat
    BY DEF Abs
  <1>2. h \in Nat
    BY <1>1, HalfOf
  <1>3. Away(num, den) = IF num >= 0 THEN num + h ELSE num - h
    BY DEF Away
  <1> HIDE DEF h
  <1>4. (Away(num, den) < 0) = (num < 0) /\ Abs(Away(num, den)) = Abs(num) + h
    BY <1>2, <1>3 DEF Abs
  <1>5. Quotient(Away(num, den), den) =
            IF (num < 0) = (den < 0) THEN (Abs(num) + h) \div Abs(den)
                                     ELSE -((Abs(num) + h) \div Abs(den))
    BY <1>4 DEF Quotient
  <1>6. Rounded(Abs(num), Abs(den)) = (Abs(num) + h) \div Abs(den)
    BY DEF Rounded, h
  <1> QED BY <1>5, <1>6

\* The distance, whatever the signs.
LEMMA DistanceBySigns ==
    ASSUME NEW num \in Int, NEW den \in Int, NEW k \in Nat
    PROVE  Abs((IF (num < 0) = (den < 0) THEN k ELSE -k) * den - num)
               = Abs(k * Abs(den) - Abs(num))
  <1> DEFINE p == k * den
  <1>1. p \in Int /\ (-k) * den = -p
    OBVIOUS
  <1>2. k * Abs(den) = IF den < 0 THEN -p ELSE p
    BY DEF Abs
  <1> HIDE DEF p
  <1>3. (IF (num < 0) = (den < 0) THEN k ELSE -k) * den = IF (num < 0) = (den < 0) THEN p ELSE -p
    BY <1>1 DEF p
  <1> QED BY <1>1, <1>2, <1>3 DEF Abs

\* Half the divisor added away from zero, C's truncating division is the nearest quotient,
\* whatever the signs (sd_proto.c: map_value).
LEMMA QuotientNearest ==
    ASSUME NEW num \in Int, NEW den \in Int, den # 0
    PROVE  /\ Quotient(Away(num, den), den) \in Int
           /\ 2 * Abs(Quotient(Away(num, den), den) * den - num) <= Abs(den)
  <1> DEFINE k == Rounded(Abs(num), Abs(den))
             q == IF (num < 0) = (den < 0) THEN k ELSE -k
  <1>1. Abs(den) \in Nat \ {0} /\ Abs(num) \in Nat
    BY DEF Abs
  <1>2. /\ k \in Nat
        /\ 2 * (k * Abs(den) - Abs(num)) <= Abs(den)
        /\ 2 * (Abs(num) - k * Abs(den)) <= Abs(den)
    BY <1>1, RoundedIsNearest
  <1>3. Quotient(Away(num, den), den) = q
    BY QuotientBySigns
  <1> HIDE DEF k
  <1>4. q \in Int /\ Abs(q * den - num) = Abs(k * Abs(den) - Abs(num))
    BY <1>2, DistanceBySigns
  <1> DEFINE p == k * Abs(den)
  <1>5. p \in Int
    BY <1>1, <1>2
  <1> HIDE DEF p
  <1>6. 2 * Abs(p - Abs(num)) <= Abs(den)
    <2>1. 2 * (p - Abs(num)) <= Abs(den) /\ 2 * (Abs(num) - p) <= Abs(den)
      BY <1>2 DEF p
    <2>2. \A x \in Int : 2 * x <= Abs(den) /\ 2 * (-x) <= Abs(den) => 2 * Abs(x) <= Abs(den)
      BY DEF Abs
    <2>3. p - Abs(num) \in Int /\ Abs(num) - p = -(p - Abs(num))
      BY <1>1, <1>5
    <2> QED BY <2>1, <2>2, <2>3
  <1> QED BY <1>3, <1>4, <1>6 DEF p

\* A proportion of a range stays in the range.
Within(x, y) == (0 <= x /\ x <= y) \/ (y <= x /\ x <= 0)

\* What lies between zero and y is no larger than y, and on its side of zero.
LEMMA AbsWithin ==
    ASSUME NEW x \in Int, NEW y \in Int
    PROVE  Within(x, y) => /\ Abs(x) <= Abs(y)
                           /\ x < 0 => y < 0
                           /\ x > 0 => y > 0
  BY DEF Within, Abs

\* The size and the sign of a product.
LEMMA ProductBySigns ==
    ASSUME NEW x \in Int, NEW w \in Int
    PROVE  /\ Abs(x * w) = Abs(w) * Abs(x)
           /\ x * w < 0 => (x < 0 /\ w > 0) \/ (x > 0 /\ w < 0)
           /\ x * w > 0 => (x < 0 /\ w < 0) \/ (x > 0 /\ w > 0)
  <1> DEFINE p == x * w
  <1>1. CASE x >= 0 /\ w >= 0
    <2>1. x * w \in Nat
      BY <1>1
    <2> QED BY <1>1, <2>1 DEF Abs
  <1>2. CASE x < 0 /\ w >= 0
    <2>1. (-x) * w \in Nat /\ x * w = -((-x) * w) /\ (w = 0 => x * w = 0)
      BY <1>2
    <2> QED BY <1>2, <2>1 DEF Abs
  <1>3. CASE x >= 0 /\ w < 0
    <2>1. x * (-w) \in Nat /\ x * w = -(x * (-w)) /\ (x = 0 => x * w = 0)
      BY <1>3
    <2> QED BY <1>3, <2>1 DEF Abs
  <1>4. CASE x < 0 /\ w < 0
    <2>1. (-x) * (-w) \in Nat /\ x * w = (-x) * (-w)
      BY <1>4
    <2> QED BY <1>4, <2>1 DEF Abs
  <1> QED BY <1>1, <1>2, <1>3, <1>4

\* A part of the divisor's width maps to a part of the other width.
LEMMA QuotientWithin ==
    ASSUME NEW x \in Int, NEW den \in Int, NEW w \in Int, den # 0, Within(x, den)
    PROVE  Within(Quotient(Away(x * w, den), den), w)
  <1> DEFINE num == x * w
             k == Rounded(Abs(num), Abs(den))
  <1>1. num \in Int /\ Abs(den) \in Nat \ {0} /\ Abs(num) \in Nat /\ Abs(w) \in Nat /\ Abs(x) \in Nat
    BY DEF Abs
  <1>2. Abs(num) = Abs(x) * Abs(w) /\ Abs(x) * Abs(w) <= Abs(den) * Abs(w)
    <2>1. Abs(num) = Abs(w) * Abs(x) /\ Abs(w) * Abs(x) = Abs(x) * Abs(w)
      BY <1>1, ProductBySigns
    <2>2. Abs(x) <= Abs(den)
      BY AbsWithin
    <2> QED BY <1>1, <2>1, <2>2, ProductMonotonic
  <1>3. k \in Nat /\ k <= Abs(w)
    <2>1. Abs(num) <= Abs(w) * Abs(den)
      BY <1>1, <1>2
    <2> HIDE DEF num
    <2> QED BY <1>1, <2>1, RoundedIsNearest, RoundedBounded
  <1>4. num = 0 => k = 0
    <2> HIDE DEF num
    <2> SUFFICES ASSUME num = 0 PROVE k <= 0
      BY <1>3
    <2>1. Abs(num) <= 0 * Abs(den)
      BY <1>1 DEF Abs
    <2> QED BY <1>1, <2>1, RoundedBounded
  <1>5. Quotient(Away(num, den), den) = IF (num < 0) = (den < 0) THEN k ELSE -k
    <2> HIDE DEF num
    <2> QED BY <1>1, QuotientBySigns
  <1>6. /\ num < 0 => (x < 0 /\ w > 0) \/ (x > 0 /\ w < 0)
        /\ num > 0 => (x < 0 /\ w < 0) \/ (x > 0 /\ w > 0)
    BY ProductBySigns
  <1>7. (x < 0 => den < 0) /\ (x > 0 => den > 0)
    BY AbsWithin
  <1> HIDE DEF num, k
  <1>8. Within(IF (num < 0) = (den < 0) THEN k ELSE -k, w)
    <2>1. CASE num = 0
      BY <1>4, <2>1 DEF Within
    <2>2. CASE num < 0
      BY <1>1, <1>3, <1>6, <1>7, <2>2 DEF Within, Abs
    <2>3. CASE num > 0
      BY <1>1, <1>3, <1>6, <1>7, <2>3 DEF Within, Abs
    <2> QED BY <1>1, <2>1, <2>2, <2>3
  <1> QED BY <1>5, <1>8 DEF num

\* A value clipped to a range lies within it, in either direction.
LEMMA ClippedWithin ==
    ASSUME NEW v \in Int, NEW a \in Int, NEW b \in Int
    PROVE  Clipped(v, a, b) - a \in Int /\ Within(Clipped(v, a, b) - a, b - a)
  BY DEF Clipped, Within, Lesser, Greater

\* m is the point of the target range nearest to the proportion of v.
NearestTo(m, v, a, b, lo, hi) ==
    /\ m \in Lesser(lo, hi)..Greater(lo, hi)
    /\ b - a # 0 => 2 * Abs((m - lo) * (b - a) - (Clipped(v, a, b) - a) * (hi - lo)) <= Abs(b - a)

\* The mapped value is the nearest of its range.
LEMMA MapValueNearest ==
    ASSUME NEW v \in Int, NEW a \in Int, NEW b \in Int, NEW lo \in Int, NEW hi \in Int
    PROVE  NearestTo(MapValue(v, a, b, lo, hi), v, a, b, lo, hi)
  <1>1. CASE a = b
    BY <1>1 DEF MapValue, Lesser, Greater, NearestTo
  <1>2. CASE a # b
    <2> DEFINE x == Clipped(v, a, b) - a
               w == hi - lo
               den == b - a
               q == Quotient(Away(x * w, den), den)
               m == MapValue(v, a, b, lo, hi)
    <2>1. x \in Int /\ Within(x, den) /\ w \in Int /\ den \in Int /\ den # 0
      BY <1>2, ClippedWithin
    <2>2. m = lo + q
      BY <1>2 DEF MapValue, Away
    <2> HIDE DEF x, den, q, m
    <2>3. x * w \in Int
      BY <2>1
    <2>4. q \in Int /\ 2 * Abs(q * den - x * w) <= Abs(den)
      BY <2>1, <2>3, QuotientNearest DEF q
    <2>5. Within(q, w)
      BY <2>1, QuotientWithin DEF q
    <2>6. m \in Lesser(lo, hi)..Greater(lo, hi) /\ m - lo = q
      BY <2>2, <2>4, <2>5 DEF Within, Lesser, Greater
    <2> HIDE DEF w
    <2>7. m \in Lesser(lo, hi)..Greater(lo, hi) /\ 2 * Abs((m - lo) * den - x * w) <= Abs(den)
      BY <2>4, <2>6
    <2> QED BY <2>7 DEF x, w, den, m, NearestTo
  <1> QED BY <1>1, <1>2
-----------------------------------------------------------------------------
SentShape ==
    sent # Nothing =>
        \E proto \in {"http", "udp", "mqtt"}, to \in Hosts \cup Uris \cup {NoUri}, c \in Commands, v \in Inputs :
            sent = Request(proto, to, to, c, v)

PInv == SInv /\ kaHost \in Hosts \cup {NoHost} /\ SentShape

\* Nothing is sent at first, and no connection is kept.
LEMMA ProtocolInitially == ProtocolInit => PInv
  BY SessionInitially DEF ProtocolInit, PInv, SentShape

\* Every command, event and reload keeps the invariant.
LEMMA ProtocolStepKeeps == PInv /\ [ProtocolNext]_protocolVars => PInv'
  <1> SUFFICES ASSUME PInv, [ProtocolNext]_protocolVars PROVE PInv'
    OBVIOUS
  <1>0. SInv /\ kaHost \in Hosts \cup {NoHost} /\ SentShape
    BY DEF PInv
  <1>1. CASE \E host \in Hosts, c \in Commands, v \in Inputs : HttpExecute(host, c, v) \/ UdpExecute(host, c, v)
    <2> PICK host \in Hosts, c \in Commands, v \in Inputs : HttpExecute(host, c, v) \/ UdpExecute(host, c, v)
      BY <1>1
    <2>1. UNCHANGED sessionVars
      BY DEF HttpExecute, UdpExecute
    <2>2. SInv'
      BY <1>0, <2>1 DEF sessionVars, SInv, SessionTypeOK, RefcountIsHeld, Ownership, Linked, Applied
    <2>3. KaGet(host) = host
      BY DEF KaGet, Kept
    <2>4. kaHost' \in Hosts \cup {NoHost}
      BY <1>0, <2>3 DEF HttpExecute, UdpExecute
    <2>5. \E proto \in {"http", "udp", "mqtt"} : sent' = Request(proto, host, host, c, v)
      BY <2>3 DEF HttpExecute, UdpExecute
    <2>6. SentShape'
      BY <2>5 DEF SentShape
    <2> QED BY <2>2, <2>4, <2>6 DEF PInv
  <1>2. CASE \E host \in Hosts : HttpNoClient(host)
    <2>1. UNCHANGED sessionVars /\ kaHost' = NoHost /\ sent' = Nothing
      BY <1>2 DEF HttpNoClient
    <2>2. SInv'
      BY <1>0, <2>1 DEF sessionVars, SInv, SessionTypeOK, RefcountIsHeld, Ownership, Linked, Applied
    <2> QED BY <2>1, <2>2 DEF PInv, SentShape
  <1>3. CASE \E c \in Commands, v \in Inputs : MqttExecute(c, v)
    <2> PICK c \in Commands, v \in Inputs : MqttExecute(c, v)
      BY <1>3
    <2>1. SInv'
      BY <1>0, PublishKeeps DEF MqttExecute, Publish
    <2>2. sent' = Request("mqtt", uri, uri, c, v) /\ kaHost' = kaHost
      BY DEF MqttExecute
    <2>3. uri \in Uris \cup {NoUri}
      BY <1>0 DEF SInv, SessionTypeOK
    <2>4. SentShape'
      BY <2>2, <2>3 DEF SentShape
    <2> QED BY <1>0, <2>1, <2>2, <2>4 DEF PInv
  <1>4. CASE MqttExecuted
    <2>1. SInv'
      BY <1>0, <1>4, PublishKeeps DEF MqttExecuted, Publish
    <2> QED BY <1>0, <1>4, <2>1 DEF MqttExecuted, PInv, SentShape
  <1>5. CASE Session
    <2>1. SInv'
      BY <1>0, <1>5, LoadSlotKeeps, SubscribersKeep DEF Session
    <2> QED BY <1>0, <1>5, <2>1 DEF Session, PInv, SentShape
  <1>6. CASE UNCHANGED protocolVars
    <2>1. UNCHANGED <<sessionVars, kaHost, sent>>
      BY <1>6 DEF protocolVars
    <2> QED BY <1>0, <2>1 DEF PInv, SentShape, sessionVars, SInv, SessionTypeOK, RefcountIsHeld, Ownership, Linked, Applied
  <1> QED BY <1>1, <1>2, <1>3, <1>4, <1>5, <1>6 DEF ProtocolNext, Execute

\* The session is counted, owned and applied as SInv says, and what was sent last is
\* the request of some command, through every load of a slot, reconnection and send.
THEOREM ProtocolInvariant == ProtocolSpec => []PInv
  BY ProtocolInitially, ProtocolStepKeeps, PTL DEF ProtocolSpec

\* What was sent last went where it was meant for, with the value mapped for its command.
LEMMA SentIsRequest ==
    ASSUME PInv, sent # Nothing
    PROVE  /\ sent.command \in Commands /\ sent.input \in Inputs
           /\ sent.over = sent.to
           /\ sent.value = MappedValue(sent.command, sent.input)
  <1> PICK proto \in {"http", "udp", "mqtt"}, to \in Hosts \cup Uris \cup {NoUri}, c \in Commands, v \in Inputs :
          sent = Request(proto, to, to, c, v)
    BY DEF PInv, SentShape
  <1> QED BY DEF Request

\* The session, the kept connection and the last request keep their types: a reload and
\* a subscriber never hold the mutex both, and no more clients exist than were created.
THEOREM ProtocolTypes == ProtocolSpec => []ProtocolTypeOK
  <1>1. PInv => ProtocolTypeOK
    BY SentIsRequest DEF PInv, SInv, ProtocolTypeOK
  <1> QED BY <1>1, ProtocolInvariant, PTL

\* sd_proto_mqtt.c: the count of users is the number of slots that hold the session, the
\* session runs while anyone holds it, and no topic is subscribed at the broker that
\* nobody asked for or forgotten once its turn has come.
THEOREM SessionIsShared == ProtocolSpec => []SessionShared
  <1>1. PInv => SessionShared
    BY DEF PInv, SInv, SessionShared, SubscriptionsApplied, Applied
  <1> QED BY <1>1, ProtocolInvariant, PTL

\* What is sent goes to the host its target names, also over a kept connection, and its
\* value is the one of the profile's range nearest to the point of the binding's range,
\* for any integers and for ranges of either direction (sd_proto.c: map_value).
THEOREM RequestsAreMapped == ProtocolSpec => []SendsMapped
  <1>1. ASSUME PInv  PROVE SentToItsTarget
    BY <1>1, SentIsRequest DEF SentToItsTarget
  <1>2. ASSUME PInv  PROVE MappedToNearest
    <2> SUFFICES ASSUME sent # Nothing, sent.command.map # <<>>
                 PROVE  NearestTo(sent.value, sent.input, sent.command.min, sent.command.max,
                                  sent.command.map[1], sent.command.map[2])
      BY DEF MappedToNearest, NearestTo
    <2> DEFINE c == sent.command
    <2>1. c \in Commands /\ sent.input \in Inputs /\ sent.value = MappedValue(c, sent.input)
      BY <1>2, SentIsRequest
    <2>2. c.min \in Int /\ c.max \in Int /\ c.map \in Int \X Int /\ sent.input \in Int
      BY <2>1, CommandsAssumption
    <2>3. c.map[1] \in Int /\ c.map[2] \in Int
      BY <2>2
    <2>4. sent.value = MapValue(sent.input, c.min, c.max, c.map[1], c.map[2])
      BY <2>1 DEF MappedValue
    <2>5. ASSUME NEW v \in Int, NEW lo \in Int, NEW hi \in Int, NEW to \in Int, NEW from \in Int
          PROVE  NearestTo(MapValue(v, lo, hi, to, from), v, lo, hi, to, from)
      BY MapValueNearest
    <2>6. NearestTo(MapValue(sent.input, c.min, c.max, c.map[1], c.map[2]), sent.input, c.min, c.max,
                    c.map[1], c.map[2])
      <3> HIDE DEF c
      <3> QED BY <2>2, <2>3, <2>5
    <2> QED BY <2>4, <2>6
  <1>3. PInv => SendsMapped
    BY <1>1, <1>2 DEF SendsMapped
  <1> QED BY <1>3, ProtocolInvariant, PTL
=============================================================================
