------------------------------ MODULE JobQueue ------------------------------
(***************************************************************************)
(* The job queue of the mode engine and the ownership of its job blocks:    *)
(* enqueue_job, job_discard, test_release, eng_run_test and the receiving   *)
(* half of cmd_task, each FreeRTOS call a step of its own.  Any number of   *)
(* tasks enqueue at once, and nothing but the queue's own critical section  *)
(* is shared between them.                                                 *)
(*                                                                         *)
(* A job block is allocated, owned by one place at a time (a task's local   *)
(* variable, the queue) and freed there; the allocator may then give it out *)
(* again.  A TEST block is shared by that place and the CLI task that waits *)
(* for its answer, and freed by whichever lets go last.                    *)
(***************************************************************************)
EXTENDS Integers, Sequences

CONSTANTS
    Producers,  \* tasks that enqueue: inputs, timers, events, CLI transports
    SdCmd,      \* the task that receives
    Blocks,     \* the heap: how many jobs can exist at once
    NoBlock,    \* a NULL pointer
    QueueLen,   \* SD_ENGINE_QUEUE_LEN
    MaxJobs     \* bound: how many jobs are ever made

Tasks == Producers \union {SdCmd}

ASSUME JobQueueAssumption ==
    /\ SdCmd \notin Producers
    /\ NoBlock \notin Blocks
    /\ QueueLen \in Nat \ {0}
    /\ MaxJobs \in Nat

\* A SEND is a VALUE, which may merge, or an ORDER (TOGGLE, STOP), which may
\* not.  PLAIN stands for NVS_SAVE and TIMEOUT.
Sends == {"VALUE", "ORDER"}
Types == Sends \union {"TEST", "PLAIN"}

VARIABLES
    block,   \* block -> what eng_job_t holds, or FreeBlock
    queue,   \* s_queue
    pc,      \* task -> where it is
    hand,    \* task -> the job it works on
    other,   \* task -> the old job it took out (producer) or its carry (sd_cmd)
    round,   \* producer -> attempt of enqueue_job's loop
    test,    \* producer -> the TEST block it waits for, or NoBlock
    made     \* jobs made so far

vars == <<block, queue, pc, hand, other, round, test, made>>

FreeBlock == [type |-> "free", refs |-> 0, done |-> FALSE, result |-> "none"]

Init ==
    /\ block = [b \in Blocks |-> FreeBlock]
    /\ queue = <<>>
    /\ pc = [t \in Tasks |-> "idle"]
    /\ hand = [t \in Tasks |-> NoBlock]
    /\ other = [t \in Tasks |-> NoBlock]
    /\ round = [t \in Producers |-> 0]
    /\ test = [t \in Producers |-> NoBlock]
    /\ made = 0

Goto(t, label) == pc' = [pc EXCEPT ![t] = label]

\* free(job), with the semaphore of a TEST.
Free(b) == block' = [block EXCEPT ![b] = FreeBlock]

\* A mutation: the decrement and the test of it are not one critical section,
\* and the block is freed while the other side still holds it.
ReleaseFreesEarly(b) == Free(b)

\* test_release.
Release(b) ==
    IF block[b].refs = 1 THEN Free(b) ELSE block' = [block EXCEPT ![b].refs = @ - 1]

\* A mutation: a TEST that is done with is not answered.
NoAnswer(b, r) == UNCHANGED block

\* The answer to a TEST: the result, then the semaphore.
Answer(b, r) == block' = [block EXCEPT ![b].result = r, ![b].done = TRUE]

-----------------------------------------------------------------------------
(* Producers.                                                              *)

\* A mutation: eng_run_test keeps no reference of its own.
UnsharedBlock(ty) == [type |-> ty, refs |-> 1, done |-> FALSE, result |-> "none"]

\* make_job; eng_run_test shares its block with the queue.
NewBlock(ty) ==
    [type |-> ty, refs |-> IF ty = "TEST" THEN 2 ELSE 0, done |-> FALSE,
     result |-> "none"]

MakeJob(t, b, ty) ==
    /\ pc[t] = "idle" /\ block[b] = FreeBlock
    /\ made < MaxJobs /\ made' = made + 1
    /\ block' = [block EXCEPT ![b] = NewBlock(ty)]
    /\ hand' = [hand EXCEPT ![t] = b]
    /\ test' = [test EXCEPT ![t] = IF ty = "TEST" THEN b ELSE NoBlock]
    /\ round' = [round EXCEPT ![t] = 0]
    /\ Goto(t, "send")
    /\ UNCHANGED <<queue, other>>

\* xQueueSend of the new job, without waiting.
Send(t) ==
    /\ pc[t] = "send"
    /\ IF Len(queue) < QueueLen
       THEN /\ queue' = Append(queue, hand[t])
            /\ hand' = [hand EXCEPT ![t] = NoBlock]
            /\ Goto(t, IF test[t] = NoBlock THEN "idle" ELSE "wait")
       ELSE Goto(t, "take") /\ UNCHANGED <<queue, hand, made>>
    /\ UNCHANGED <<block, other, round, test, made>>

\* The next round of the loop, or its end with the job not enqueued.
NextRound(t) ==
    /\ round' = [round EXCEPT ![t] = 1]
    /\ Goto(t, IF round[t] = 0 THEN "send" ELSE "giveup")

\* xQueueReceive finds a queue that sd_cmd emptied meanwhile.
TakeNothing(t) ==
    /\ pc[t] = "take" /\ queue = <<>>
    /\ NextRound(t)
    /\ UNCHANGED <<block, queue, hand, other, test, made>>

\* xQueueReceive of the oldest job: a SEND is the victim and is freed.
EvictSend(t) ==
    /\ pc[t] = "take" /\ queue # <<>> /\ block[Head(queue)].type \in Sends
    /\ queue' = Tail(queue)
    /\ Free(Head(queue))
    /\ NextRound(t)
    /\ UNCHANGED <<hand, other, test, made>>

\* Any other job is taken out to be put back.
TakeOther(t) ==
    /\ pc[t] = "take" /\ queue # <<>> /\ block[Head(queue)].type \notin Sends
    /\ queue' = Tail(queue)
    /\ other' = [other EXCEPT ![t] = Head(queue)]
    /\ Goto(t, "putback")
    /\ UNCHANGED <<block, hand, round, test, made>>

\* It goes back to the tail, unless another producer took the place.
PutBack(t) ==
    /\ pc[t] = "putback"
    /\ IF Len(queue) < QueueLen
       THEN /\ queue' = Append(queue, other[t])
            /\ other' = [other EXCEPT ![t] = NoBlock]
            /\ NextRound(t)
       ELSE Goto(t, "drop") /\ UNCHANGED <<queue, other, round, made>>
    /\ UNCHANGED <<block, hand, test, made>>

\* job_discard of the old job: a TEST is answered, anything else is freed (a
\* save also schedules another: NvsDebounce).
AnswerOld(t) ==
    /\ pc[t] = "drop" /\ block[other[t]].type = "TEST"
    /\ Answer(other[t], "no_mem")
    /\ Goto(t, "unref")
    /\ UNCHANGED <<queue, hand, other, round, test, made>>

LetGoOfOld(t) ==
    /\ other' = [other EXCEPT ![t] = NoBlock]
    /\ NextRound(t)
    /\ UNCHANGED <<queue, hand, test, made>>

DropOld(t) ==
    /\ pc[t] = "drop" /\ block[other[t]].type # "TEST"
    /\ Free(other[t])
    /\ LetGoOfOld(t)

UnrefOld(t) ==
    /\ pc[t] = "unref"
    /\ Release(other[t])
    /\ LetGoOfOld(t)

\* job_discard of the new job after two rounds.
AnswerNew(t) ==
    /\ pc[t] = "giveup" /\ block[hand[t]].type = "TEST"
    /\ Answer(hand[t], "no_mem")
    /\ Goto(t, "unrefnew")
    /\ UNCHANGED <<queue, hand, other, round, test, made>>

LetGoOfNew(t, label) ==
    /\ hand' = [hand EXCEPT ![t] = NoBlock]
    /\ Goto(t, label)
    /\ UNCHANGED <<queue, other, round, test, made>>

DropNew(t) ==
    /\ pc[t] = "giveup" /\ block[hand[t]].type # "TEST"
    /\ Free(hand[t])
    /\ LetGoOfNew(t, "idle")

\* eng_run_test then finds the semaphore given.
UnrefNew(t) ==
    /\ pc[t] = "unrefnew"
    /\ Release(hand[t])
    /\ LetGoOfNew(t, "wait")

\* xSemaphoreTake in eng_run_test.
TakeDone(t) ==
    /\ pc[t] = "wait" /\ block[test[t]].done
    /\ block' = [block EXCEPT ![test[t]].done = FALSE]
    /\ Goto(t, "answered")
    /\ UNCHANGED <<queue, hand, other, round, test, made>>

\* ... its timeout, while no answer has been given.
TimeOut(t) ==
    /\ pc[t] = "wait" /\ ~block[test[t]].done
    /\ Goto(t, "timedout")
    /\ UNCHANGED <<block, queue, hand, other, round, test, made>>

\* The CLI's reference goes, after the result was read or the wait was over.
LeaveTest(t) ==
    /\ pc[t] \in {"answered", "timedout"}
    /\ Release(test[t])
    /\ test' = [test EXCEPT ![t] = NoBlock]
    /\ Goto(t, "idle")
    /\ UNCHANGED <<queue, hand, other, round, made>>

Enqueuing(t) ==
    \/ Send(t) \/ TakeNothing(t) \/ EvictSend(t) \/ TakeOther(t) \/ PutBack(t)
    \/ AnswerOld(t) \/ DropOld(t) \/ UnrefOld(t)
    \/ AnswerNew(t) \/ DropNew(t) \/ UnrefNew(t)

Producer(t) ==
    \/ \E b \in Blocks, ty \in Types: MakeJob(t, b, ty)
    \/ Enqueuing(t)
    \/ TakeDone(t) \/ TimeOut(t) \/ LeaveTest(t)

-----------------------------------------------------------------------------
(* sd_cmd.                                                                 *)

\* Where sd_cmd goes with block b as its job.
CmdPc(b) ==
    IF b = NoBlock THEN "idle"
    ELSE IF block[b].type = "VALUE" THEN "drain" ELSE "dispatch"

\* xQueueReceive at the top of the loop.
Receive ==
    /\ pc[SdCmd] = "idle" /\ queue # <<>>
    /\ hand' = [hand EXCEPT ![SdCmd] = Head(queue)]
    /\ queue' = Tail(queue)
    /\ Goto(SdCmd, CmdPc(Head(queue)))
    /\ UNCHANGED <<block, other, round, test, made>>

\* The drain loop: a later VALUE of the slot replaces the job, which is freed.
Merge ==
    /\ pc[SdCmd] = "drain" /\ queue # <<>> /\ block[Head(queue)].type = "VALUE"
    /\ Free(hand[SdCmd])
    /\ hand' = [hand EXCEPT ![SdCmd] = Head(queue)]
    /\ queue' = Tail(queue)
    /\ UNCHANGED <<pc, other, round, test, made>>

\* Any other job, and a VALUE of another slot, is carried.
Carry ==
    /\ pc[SdCmd] = "drain" /\ queue # <<>>
    /\ other' = [other EXCEPT ![SdCmd] = Head(queue)]
    /\ queue' = Tail(queue)
    /\ Goto(SdCmd, "dispatch")
    /\ UNCHANGED <<block, hand, round, test, made>>

\* The coalescing window closes on an empty queue.
Window ==
    /\ pc[SdCmd] = "drain" /\ queue = <<>>
    /\ Goto(SdCmd, "dispatch")
    /\ UNCHANGED <<block, queue, hand, other, round, test, made>>

\* The job is done with: the carried one is next.
NextJob ==
    /\ hand' = [hand EXCEPT ![SdCmd] = other[SdCmd]]
    /\ other' = [other EXCEPT ![SdCmd] = NoBlock]
    /\ Goto(SdCmd, CmdPc(other[SdCmd]))
    /\ UNCHANGED <<queue, round, test, made>>

\* dispatch_job of a TEST: execute_test answers it ...
RunTest ==
    /\ pc[SdCmd] = "dispatch" /\ block[hand[SdCmd]].type = "TEST"
    /\ Answer(hand[SdCmd], "ran")
    /\ Goto(SdCmd, "unref")
    /\ UNCHANGED <<queue, hand, other, round, test, made>>

\* ... and lets go of it.
UnrefRun ==
    /\ pc[SdCmd] = "unref"
    /\ Release(hand[SdCmd])
    /\ NextJob

\* dispatch_job of any other job frees it.
RunJob ==
    /\ pc[SdCmd] = "dispatch" /\ block[hand[SdCmd]].type # "TEST"
    /\ Free(hand[SdCmd])
    /\ NextJob

Cmd == Receive \/ Merge \/ Carry \/ Window \/ RunTest \/ UnrefRun \/ RunJob

-----------------------------------------------------------------------------
\* No job anywhere and every task waits: the one place the system may stop.
Rest ==
    /\ queue = <<>>
    /\ \A t \in Tasks: pc[t] = "idle"
    /\ UNCHANGED vars

Next == Cmd \/ (\E t \in Producers: Producer(t)) \/ Rest

\* Ready tasks run to their next blocking call, and sd_cmd is not starved.
\* Nothing makes a user press a button, nor a timeout expire before an answer.
Fairness ==
    /\ WF_vars(Cmd)
    /\ \A t \in Producers: WF_vars(Enqueuing(t) \/ TakeDone(t) \/ LeaveTest(t))

Spec == Init /\ [][Next]_vars /\ Fairness

-----------------------------------------------------------------------------
(* Properties.                                                             *)

Allocated(b) == b # NoBlock => block[b] # FreeBlock

TypeOK ==
    /\ block \in [Blocks -> [type: Types \union {"free"}, refs: 0..2, done: BOOLEAN,
                             result: {"none", "ran", "no_mem"}]]
    /\ queue \in Seq(Blocks) /\ Len(queue) <= QueueLen
    /\ pc \in [Tasks -> {"idle", "send", "take", "putback", "drop", "unref", "giveup",
                         "unrefnew", "wait", "answered", "timedout", "drain",
                         "dispatch"}]
    /\ hand \in [Tasks -> Blocks \union {NoBlock}]
    /\ other \in [Tasks -> Blocks \union {NoBlock}]
    /\ round \in [Producers -> 0..1]
    /\ test \in [Producers -> Blocks \union {NoBlock}]
    /\ made \in 0..MaxJobs

\* test_release's comment, "sizinti YOK, use-after-free YOK", first half of
\* the second claim: no task and no queue entry points to a block that is free.
NoUseAfterFree ==
    /\ \A t \in Tasks: Allocated(hand[t]) /\ Allocated(other[t])
    /\ \A t \in Producers: Allocated(test[t])
    /\ \A i \in 1..Len(queue): Allocated(queue[i])

\* ... second half: no block is in two places, where it would be freed twice
\* or, given out again, be two jobs at once.
SingleOwner ==
    /\ \A i, k \in 1..Len(queue): queue[i] = queue[k] => i = k
    /\ \A i \in 1..Len(queue), t \in Tasks: queue[i] # hand[t] /\ queue[i] # other[t]
    /\ \A t, u \in Tasks:
        /\ hand[t] = hand[u] => t = u \/ hand[t] = NoBlock
        /\ other[t] = other[u] => t = u \/ other[t] = NoBlock
        /\ hand[t] = other[u] => hand[t] = NoBlock

\* Some place holds block b.
InQueue(b) == \E i \in 1..Len(queue): queue[i] = b
InHand(b) == \E t \in Tasks: hand[t] = b \/ other[t] = b
Waited(b) == \E t \in Producers: test[t] = b

\* "sizinti YOK": a block that is not free is reachable, and the references
\* of a TEST are as many as the sides that still hold it.
NoLeak ==
    \A b \in Blocks:
        /\ block[b] # FreeBlock => InQueue(b) \/ InHand(b) \/ Waited(b)
        /\ block[b].type = "TEST" =>
            block[b].refs = (IF InQueue(b) \/ InHand(b) THEN 1 ELSE 0)
                            + (IF Waited(b) THEN 1 ELSE 0)

\* eng_run_test reads a result that was written: by execute_test, or by
\* job_discard for a TEST that was dropped.
AnswerIsWritten ==
    \A t \in Producers: pc[t] = "answered" => block[test[t]].result # "none"

\* The whole of test_release's promise: every block has exactly the owners it
\* should have, is freed by the last of them and no earlier, and a waiter only
\* ever reads an answer.
BlocksOwned == NoUseAfterFree /\ SingleOwner /\ NoLeak /\ AnswerIsWritten

\* "Dusurulen is asla sessizce kaybolmaz": with no help from its timeout,
\* eng_run_test returns, its TEST executed or answered by a discard.
TestReturns == \A t \in Producers: (test[t] # NoBlock) ~> (test[t] = NoBlock)
=============================================================================
