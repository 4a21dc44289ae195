------------------------------- MODULE Worker -------------------------------
(***************************************************************************)
(* The OpenCV workers, worker/main.py, on one partition of the tasks topic.*)
(*                                                                         *)
(* A worker takes one task at a time: it processes the tile (with retries),*)
(* publishes the result or parks the task on the dead letter queue, and    *)
(* commits the offset.  Both topics go through one producer, whose local   *)
(* queue is sent in the background: flush() waits for it, for a while.     *)
(*                                                                         *)
(* JobPipeline sees a worker through WorkerStore, WorkerPublish and        *)
(* WorkerDrop only; put_tile() of a result is there, not here.             *)
(***************************************************************************)
EXTENDS Naturals, Sequences

CONSTANTS
    Worker,         \* the processes of the group image-processing-workers
    None,
    LastMessage,    \* the partition holds the tasks 1 .. LastMessage
    max_retries,
    FaultKinds,     \* which failures may be injected
    MaxFaults       \* bound on the number of failures

ASSUME WorkerAssumption ==
    /\ None \notin Worker
    /\ LastMessage \in Nat
    /\ max_retries \in Nat
    /\ MaxFaults \in Nat

VARIABLES
    kind,       \* kind[i]: can task i be processed? (never changes)
    owner,      \* the worker the partition is assigned to, or None
    committed,  \* the group's offset: the tasks 1 .. committed are done
    results,    \* results[i]: how often the result of i is in its topic
    dlq,        \* dlq[i]: how often task i is in the dead letter queue
    pc,         \* pc[w]: where worker w is
    pos,        \* pos[w]: the task it is working on, or worked on last
    attempt,    \* attempt[w]: of process_tile(), from 0
    outbox,     \* outbox[w]: the local queue of its producer
    delivery_failed, \* delivery_failed[w]: of publish_result()
    lost,       \* the tasks whose parked copy was not sent in time (history)
    faults      \* failures injected so far

topicVars == <<committed, results, dlq, lost>>
vars == <<kind, owner, topicVars, pc, pos, attempt, outbox, delivery_failed,
          faults>>

Task == 1..LastMessage

\* "gone": its input cannot be read; "unknown": no such operation.
Kind == {"good", "gone", "unknown"}

Message == [topic : {"results", "dlq"}, task : Task]

Pc == {"stopped", "poll", "process", "produce", "flush", "dlq", "dlq_flush",
       "commit", "cleanup"}

TypeOK ==
    /\ kind \in [Task -> Kind]
    /\ owner \in Worker \cup {None}
    /\ committed \in 0..LastMessage
    /\ results \in [Task -> Nat]
    /\ dlq \in [Task -> Nat]
    /\ lost \in SUBSET Task
    /\ pc \in [Worker -> Pc]
    /\ pos \in [Worker -> 0..LastMessage]
    /\ attempt \in [Worker -> 0..max_retries]
    /\ outbox \in [Worker -> Seq(Message)]
    /\ delivery_failed \in [Worker -> BOOLEAN]
    /\ faults \in 0..MaxFaults

Init ==
    /\ kind \in [Task -> Kind]
    /\ owner = None
    /\ committed = 0
    /\ results = [i \in Task |-> 0]
    /\ dlq = [i \in Task |-> 0]
    /\ lost = {}
    /\ pc = [w \in Worker |-> "stopped"]
    /\ pos = [w \in Worker |-> 0]
    /\ attempt = [w \in Worker |-> 0]
    /\ outbox = [w \in Worker |-> <<>>]
    /\ delivery_failed = [w \in Worker |-> FALSE]
    /\ faults = 0

----------------------------------------------------------------------------
Goto(w, from, to) == pc[w] = from /\ pc' = [pc EXCEPT ![w] = to]

Fault(k) ==
    /\ k \in FaultKinds
    /\ faults < MaxFaults
    /\ faults' = faults + 1

NoFault == UNCHANGED faults

Enqueue(w, topic) ==
    outbox' = [outbox EXCEPT ![w] = Append(@, [topic |-> topic, task |-> pos[w]])]

----------------------------------------------------------------------------
(* The partition.                                                          *)

\* initialize_kafka(): a process joins the group.
Start(w) ==
    /\ Goto(w, "stopped", "poll")
    /\ UNCHANGED <<kind, owner, topicVars, pos, attempt, outbox,
                   delivery_failed, faults>>

\* poll() returns the partition's next task, from the committed offset if the
\* partition was free and is assigned to w first.
Poll(w) ==
    /\ Goto(w, "poll", "process")
    /\ LET next == IF owner = w THEN pos[w] + 1 ELSE committed + 1
       IN  /\ owner \in {w, None}
           /\ next <= LastMessage
           /\ pos' = [pos EXCEPT ![w] = next]
    /\ owner' = w
    /\ attempt' = [attempt EXCEPT ![w] = 0]
    /\ delivery_failed' = [delivery_failed EXCEPT ![w] = FALSE]
    /\ UNCHANGED <<kind, topicVars, outbox, faults>>

\* A worker that has not polled for too long loses the partition and goes on.
Evict(w) ==
    /\ owner = w
    /\ pc[w] # "poll"
    /\ Fault("evict")
    /\ owner' = None
    /\ UNCHANGED <<kind, topicVars, pc, pos, attempt, outbox, delivery_failed>>

----------------------------------------------------------------------------
(* process_tile()                                                          *)

\* get_tile(), the operation and put_tile() succeed.
ProcessSucceeds(w) ==
    /\ Goto(w, "process", "produce")
    /\ kind[pos[w]] = "good"
    /\ UNCHANGED <<kind, owner, topicVars, pos, attempt, outbox,
                   delivery_failed, faults>>

\* Mutant: one attempt too many.
RetriesLeftPlusOne(w) == attempt[w] <= max_retries

RetriesLeft(w) == attempt[w] < max_retries

\* One of them raises: the next attempt, or the dead letter queue.
ProcessFails(w) ==
    /\ pc[w] = "process"
    /\ \/ kind[pos[w]] = "gone" /\ NoFault
       \/ kind[pos[w]] = "good" /\ Fault("process")
    /\ IF RetriesLeft(w)
       THEN attempt' = [attempt EXCEPT ![w] = @ + 1] /\ UNCHANGED pc
       ELSE Goto(w, "process", "dlq") /\ UNCHANGED attempt
    /\ UNCHANGED <<kind, owner, topicVars, pos, outbox, delivery_failed>>

\* The operation is not in OPERATION_MAP: no attempt can help.
UnknownOperation(w) ==
    /\ Goto(w, "process", "dlq")
    /\ kind[pos[w]] = "unknown"
    /\ UNCHANGED <<kind, owner, topicVars, pos, attempt, outbox,
                   delivery_failed, faults>>

----------------------------------------------------------------------------
(* publish_result()                                                        *)

Produce(w) ==
    /\ Goto(w, "produce", "flush")
    /\ Enqueue(w, "results")
    /\ UNCHANGED <<kind, owner, topicVars, pos, attempt, delivery_failed,
                   faults>>

\* produce() raises, BufferError or another one: nothing was queued.
ProduceFails(w) ==
    /\ Goto(w, "produce", "dlq")
    /\ Fault("produce")
    /\ UNCHANGED <<kind, owner, topicVars, pos, attempt, outbox,
                   delivery_failed>>

\* Mutants: the answer is not looked at, or the task is parked all the same.
PublishedAlways(w) == TRUE
PublishedNever(w) == FALSE

\* What publish_result() answers.
Published(w) == outbox[w] = <<>> /\ ~delivery_failed[w]

\* flush() returns, with everything sent or after its timeout.  What was not
\* sent stays in the queue.
Flush(w) ==
    /\ Goto(w, "flush", IF Published(w) THEN "commit" ELSE "dlq")
    /\ IF outbox[w] = <<>> THEN NoFault ELSE Fault("timeout")
    /\ UNCHANGED <<kind, owner, topicVars, pos, attempt, outbox,
                   delivery_failed>>

----------------------------------------------------------------------------
(* send_to_dlq(), whose answer run() does not look at.                     *)

\* produce() may raise here too.
SendToDlq(w) ==
    /\ \/ /\ Goto(w, "dlq", "dlq_flush")
          /\ Enqueue(w, "dlq")
          /\ UNCHANGED lost
          /\ NoFault
       \/ /\ Goto(w, "dlq", "commit")
          /\ UNCHANGED outbox
          /\ lost' = lost \cup {pos[w]}
          /\ Fault("dlq")
    /\ UNCHANGED <<kind, owner, committed, results, dlq, pos, attempt,
                   delivery_failed>>

\* flush() again, and this time its result is dropped.
DlqFlush(w) ==
    /\ Goto(w, "dlq_flush", "commit")
    /\ \/ outbox[w] = <<>> /\ UNCHANGED lost /\ NoFault
       \/ outbox[w] # <<>> /\ lost' = lost \cup {pos[w]} /\ Fault("dlq")
    /\ UNCHANGED <<kind, owner, committed, results, dlq, pos, attempt, outbox,
                   delivery_failed>>

----------------------------------------------------------------------------
(* The producer's thread.                                                  *)

Deliver(w) ==
    /\ outbox[w] # <<>>
    /\ LET m == Head(outbox[w])
       IN  IF m.topic = "results"
           THEN results' = [results EXCEPT ![m.task] = @ + 1] /\ UNCHANGED dlq
           ELSE dlq' = [dlq EXCEPT ![m.task] = @ + 1] /\ UNCHANGED results
    /\ outbox' = [outbox EXCEPT ![w] = Tail(@)]
    /\ UNCHANGED <<kind, owner, committed, lost, pc, pos, attempt,
                   delivery_failed, faults>>

\* The broker refuses the message.  publish_result() hears of its own; the dead
\* letter queue has no callback.
DeliveryFails(w) ==
    /\ outbox[w] # <<>>
    /\ \/ /\ Head(outbox[w]).topic = "results"
          /\ Fault("delivery")
          /\ delivery_failed' =
                [delivery_failed EXCEPT
                   ![w] = @ \/ (pc[w] = "flush" /\ Len(outbox[w]) = 1)]
          /\ UNCHANGED lost
       \/ /\ Head(outbox[w]).topic = "dlq"
          /\ Fault("dlq")
          /\ lost' = lost \cup {Head(outbox[w]).task}
          /\ UNCHANGED delivery_failed
    /\ outbox' = [outbox EXCEPT ![w] = Tail(@)]
    /\ UNCHANGED <<kind, owner, committed, results, dlq, pc, pos, attempt>>

----------------------------------------------------------------------------
(* The end of a task, and of a process.                                    *)

\* consumer.commit(message=msg), asynchronous: it may fail, and the broker
\* refuses a worker that was evicted.
Commit(w) ==
    /\ Goto(w, "commit", "poll")
    /\ \/ owner = w /\ committed' = pos[w] /\ NoFault
       \/ owner # w /\ UNCHANGED committed /\ NoFault
       \/ owner = w /\ UNCHANGED committed /\ Fault("commit")
    /\ UNCHANGED <<kind, owner, results, dlq, lost, pos, attempt, outbox,
                   delivery_failed>>

\* A signal is seen between two tasks: cleanup() flushes the producer, for a
\* while, and closes the consumer.
Shutdown(w) ==
    /\ Goto(w, "poll", "cleanup")
    /\ Fault("signal")
    /\ UNCHANGED <<kind, owner, topicVars, pos, attempt, outbox,
                   delivery_failed>>

\* The process is gone, and with it the local queue.
Exit(w) ==
    /\ pc' = [pc EXCEPT ![w] = "stopped"]
    /\ owner' = IF owner = w THEN None ELSE owner
    /\ outbox' = [outbox EXCEPT ![w] = <<>>]
    /\ UNCHANGED <<kind, topicVars, pos, attempt, delivery_failed>>

Cleanup(w) ==
    /\ pc[w] = "cleanup"
    /\ \/ outbox[w] = <<>> /\ NoFault
       \/ outbox[w] # <<>> /\ Fault("timeout")
    /\ Exit(w)

Crash(w) ==
    /\ pc[w] # "stopped"
    /\ Fault("crash")
    /\ Exit(w)

----------------------------------------------------------------------------
\* One iteration of run(), step by step.
Run(w) ==
    \/ Start(w) \/ Poll(w) \/ ProcessSucceeds(w) \/ ProcessFails(w)
    \/ UnknownOperation(w) \/ Produce(w) \/ Flush(w) \/ SendToDlq(w)
    \/ DlqFlush(w) \/ Commit(w) \/ Cleanup(w)

Next ==
    \E w \in Worker :
       \/ Run(w) \/ Deliver(w) \/ DeliveryFails(w) \/ ProduceFails(w)
       \/ Evict(w) \/ Shutdown(w) \/ Crash(w)

Spec == Init /\ [][Next]_vars

\* Every process runs (and is restarted: restart unless-stopped), and what is
\* in a producer's queue is sent or refused.
FairSpec ==
    /\ Spec
    /\ \A w \in Worker :
          WF_vars(Run(w)) /\ WF_vars(Deliver(w) \/ DeliveryFails(w))

----------------------------------------------------------------------------
(* Properties.                                                             *)

\* The tasks somebody else knows the outcome of.
Answered == {i \in Task : results[i] + dlq[i] > 0}

AtLeastOnce == INSTANCE AtLeastOnce WITH handled <- Answered \cup lost

\* Every task is answered with a result or parked on the dead letter queue, and
\* never committed before that, whatever crashes, evictions, failed deliveries
\* and timeouts of publish_result() happen; only a failure of the dead letter
\* queue itself can lose one (worker/main.py:244-264, 384-421).
TaskDelivery == AtLeastOnce!FairSpec

\* A task is answered more than once only for a reason: each repetition, a
\* result delivered again or one that arrives although its task was parked,
\* costs a failure (worker/main.py:256-264, 384-421).
AnswersBounded == \A i \in Task : results[i] + dlq[i] <= 1 + faults

----------------------------------------------------------------------------
(* What the code says, and the program does not guarantee.                 *)

\* A committed task is in the results or in the dead letter queue: the parked
\* copy is durable before the commit (worker/main.py:305-307).
CommittedIsAnswered == 1..committed \subseteq Answered
=============================================================================
