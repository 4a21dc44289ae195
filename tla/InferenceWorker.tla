--------------------------- MODULE InferenceWorker ---------------------------
(***************************************************************************)
(* The ML workers, inference/main.py, on one partition of ml_tasks.        *)
(*                                                                         *)
(* The poller thread is the only one that calls the consumer: it commits   *)
(* what the batcher hands back, pauses or resumes the consumer by the      *)
(* length of the pending queue, and polls one message.  The batcher thread *)
(* takes a batch from the queue, infers, publishes the results and hands   *)
(* the messages back.  The group may rebalance whenever the poller polls,  *)
(* while older tasks are still pending or in a batch.                      *)
(***************************************************************************)
EXTENDS Naturals, Sequences, SequencesExt

CONSTANTS
    Replica,                \* the processes of the group ml-inference-workers
    None,
    LastMessage,            \* the partition holds the tasks 1 .. LastMessage
    Broken,                 \* the tasks whose input cannot be read or decoded
    INFERENCE_BATCH_SIZE,
    INFERENCE_MAX_QUEUE,
    INFERENCE_RESUME_QUEUE,
    FaultKinds,             \* which failures may be injected
    MaxFaults               \* bound on the number of failures

ASSUME InferenceAssumption ==
    /\ None \notin Replica
    /\ LastMessage \in Nat
    /\ Broken \subseteq 1..LastMessage
    /\ INFERENCE_BATCH_SIZE \in Nat \ {0}
    /\ INFERENCE_RESUME_QUEUE \in Nat
    /\ INFERENCE_MAX_QUEUE \in Nat
    /\ INFERENCE_RESUME_QUEUE < INFERENCE_MAX_QUEUE
    /\ MaxFaults \in Nat

VARIABLES
    owner,       \* the replica the partition is assigned to, or None
    committed,   \* the group's offset: the tasks 1 .. committed are done
    results,     \* the tasks with a result in ml_results
    given_up,    \* the tasks left to the reaper on purpose
    dropped,     \* the tasks of a failed batch or a refused result (history)
    poller,      \* poller[r]: where the poller thread is
    pos,         \* pos[r]: the last task its consumer returned
    paused,      \* paused[r]: self.paused
    held,        \* held[r]: is the partition paused in its consumer?
    pending,     \* pending[r]: the queue to the batcher
    batch,       \* batch[r]: the batch it collects or processes
    batcher,     \* batcher[r]: where the batcher thread is
    published,   \* published[r]: how much of the batch the loop has published
    outbox,      \* outbox[r]: the local queue of its producer
    to_commit,   \* to_commit[r]: the queue back to the poller
    faults       \* failures injected so far

groupVars == <<owner, committed>>
outcomeVars == <<results, given_up, dropped>>
pollerVars == <<poller, pos, paused, held>>
batcherVars == <<batch, batcher, published, outbox>>
vars == <<groupVars, outcomeVars, pollerVars, pending, batcherVars, to_commit,
          faults>>

Task == 1..LastMessage

TypeOK ==
    /\ owner \in Replica \cup {None}
    /\ committed \in 0..LastMessage
    /\ results \in SUBSET Task
    /\ given_up \in SUBSET Task
    /\ dropped \in SUBSET Task
    /\ poller \in [Replica -> {"stopped", "drain", "pressure", "poll"}]
    /\ pos \in [Replica -> 0..LastMessage]
    /\ paused \in [Replica -> BOOLEAN]
    /\ held \in [Replica -> BOOLEAN]
    /\ pending \in [Replica -> Seq(Task)]
    /\ batch \in [Replica -> Seq(Task)]
    /\ \A r \in Replica : Len(batch[r]) <= INFERENCE_BATCH_SIZE
    /\ batcher \in [Replica -> {"collect", "publish", "flush"}]
    /\ published \in [Replica -> 0..INFERENCE_BATCH_SIZE]
    /\ outbox \in [Replica -> Seq(Task)]
    /\ to_commit \in [Replica -> Seq(Task)]
    /\ faults \in 0..MaxFaults

Init ==
    /\ owner = None
    /\ committed = 0
    /\ results = {}
    /\ given_up = {}
    /\ dropped = {}
    /\ poller = [r \in Replica |-> "stopped"]
    /\ pos = [r \in Replica |-> 0]
    /\ paused = [r \in Replica |-> FALSE]
    /\ held = [r \in Replica |-> FALSE]
    /\ pending = [r \in Replica |-> <<>>]
    /\ batch = [r \in Replica |-> <<>>]
    /\ batcher = [r \in Replica |-> "collect"]
    /\ published = [r \in Replica |-> 0]
    /\ outbox = [r \in Replica |-> <<>>]
    /\ to_commit = [r \in Replica |-> <<>>]
    /\ faults = 0

----------------------------------------------------------------------------
Fault(kind) ==
    /\ kind \in FaultKinds
    /\ faults < MaxFaults
    /\ faults' = faults + 1

NoFault == UNCHANGED faults

PollerGoes(r, from, to) == poller[r] = from /\ poller' = [poller EXCEPT ![r] = to]

----------------------------------------------------------------------------
(* The poller thread: poll_loop().                                         *)

Start(r) ==
    /\ PollerGoes(r, "stopped", "drain")
    /\ UNCHANGED <<groupVars, outcomeVars, pos, paused, held, pending,
                   batcherVars, to_commit, faults>>

\* One message of _drain_commits().  The broker checks that the replica is a
\* member of the group, not that the partition is still its own.  The commit
\* is asynchronous and may fail.
CommitOne(r) ==
    /\ poller[r] = "drain"
    /\ to_commit[r] # <<>>
    /\ to_commit' = [to_commit EXCEPT ![r] = Tail(@)]
    /\ \/ committed' = Head(to_commit[r]) /\ NoFault
       \/ UNCHANGED committed /\ Fault("commit")
    /\ UNCHANGED <<owner, outcomeVars, pollerVars, pending, batcherVars>>

\* The queue is empty.
Drained(r) ==
    /\ PollerGoes(r, "drain", "pressure")
    /\ to_commit[r] = <<>>
    /\ UNCHANGED <<groupVars, outcomeVars, pos, paused, held, pending,
                   batcherVars, to_commit, faults>>

\* Mutant: resume() is never called.
MayResumeNever(r) == FALSE

MayResume(r) == paused[r] /\ Len(pending[r]) <= INFERENCE_RESUME_QUEUE

\* _apply_backpressure(): pause() and resume() reach what is assigned.
ApplyBackpressure(r) ==
    /\ PollerGoes(r, "pressure", "poll")
    /\ LET pause == ~paused[r] /\ Len(pending[r]) >= INFERENCE_MAX_QUEUE
       IN  /\ paused' = [paused EXCEPT ![r] = (@ \/ pause) /\ ~MayResume(r)]
           /\ held' = [held EXCEPT ![r] = (@ \/ (pause /\ owner = r))
                                          /\ ~MayResume(r)]
    /\ UNCHANGED <<groupVars, outcomeVars, pos, pending, batcherVars,
                   to_commit, faults>>

\* poll() returns the next message of the partition, or nothing.
Poll(r) ==
    /\ PollerGoes(r, "poll", "drain")
    /\ \/ /\ owner = r
          /\ ~held[r]
          /\ pos[r] < LastMessage
          /\ pos' = [pos EXCEPT ![r] = @ + 1]
          /\ pending' = [pending EXCEPT ![r] = Append(@, pos[r] + 1)]
       \/ /\ owner # r \/ held[r] \/ pos[r] = LastMessage
          /\ UNCHANGED <<pos, pending>>
    /\ UNCHANGED <<groupVars, outcomeVars, paused, held, batcherVars,
                   to_commit, faults>>

\* Mutant: the assignment comes back resumed, as it did before _on_assign().
ReapplyPauseNever(r) == FALSE

ReapplyPause(r) == paused[r]

\* _on_assign(), called from poll(): the partition, from the committed offset.
Assign(r) ==
    /\ poller[r] = "poll"
    /\ owner = None
    /\ owner' = r
    /\ pos' = [pos EXCEPT ![r] = committed]
    /\ held' = [held EXCEPT ![r] = ReapplyPause(r)]
    /\ UNCHANGED <<committed, outcomeVars, poller, paused, pending,
                   batcherVars, to_commit, faults>>

\* A rebalance takes the partition away, at a poll() as well.
Revoke(r) ==
    /\ poller[r] = "poll"
    /\ owner = r
    /\ Fault("rebalance")
    /\ owner' = None
    /\ held' = [held EXCEPT ![r] = FALSE]
    /\ UNCHANGED <<committed, outcomeVars, poller, pos, paused, pending,
                   batcherVars, to_commit>>

----------------------------------------------------------------------------
(* The batcher thread: batch_loop().                                       *)

\* Mutant: a batch one too large.
RoomForOneMore(r) == Len(batch[r]) <= INFERENCE_BATCH_SIZE

Room(r) == Len(batch[r]) < INFERENCE_BATCH_SIZE

\* _collect_batch() takes the next task.
Collect(r) ==
    /\ batcher[r] = "collect"
    /\ pending[r] # <<>>
    /\ Room(r)
    /\ pending' = [pending EXCEPT ![r] = Tail(@)]
    /\ batch' = [batch EXCEPT ![r] = Append(@, Head(pending[r]))]
    /\ UNCHANGED <<groupVars, outcomeVars, pollerVars, batcher, published,
                   outbox, to_commit, faults>>

\* The batch is full, or its time is over.
Collected(r) ==
    /\ batcher[r] = "collect"
    /\ batch[r] # <<>>
    /\ batcher' = [batcher EXCEPT ![r] = "publish"]
    /\ UNCHANGED <<groupVars, outcomeVars, pollerVars, pending, batch,
                   published, outbox, to_commit, faults>>

\* _process_batch(), the next task of the loop: one whose input could not be read
\* has no result, and is the reaper's.
Publish(r) ==
    /\ batcher[r] = "publish"
    /\ LET n == published[r] + 1
           task == batch[r][n]
           last == n = Len(batch[r])
       IN /\ \/ /\ task \in Broken
                /\ given_up' = given_up \cup {task}
                /\ UNCHANGED outbox
             \/ /\ task \notin Broken
                /\ outbox' = [outbox EXCEPT ![r] = Append(@, task)]
                /\ UNCHANGED given_up
          /\ published' = [published EXCEPT ![r] = IF last THEN 0 ELSE n]
          /\ batcher' = [batcher EXCEPT ![r] = IF last THEN "flush" ELSE @]
    /\ UNCHANGED <<groupVars, results, dropped, pollerVars, pending, batch,
                   to_commit, faults>>

\* The batch is over without a commit.
DropBatch(r) ==
    /\ batch' = [batch EXCEPT ![r] = <<>>]
    /\ batcher' = [batcher EXCEPT ![r] = "collect"]
    /\ published' = [published EXCEPT ![r] = 0]
    /\ dropped' = dropped \cup ToSet(batch[r])
    /\ UNCHANGED to_commit
    /\ Fault("batch")

\* Inference raises, or produce() does after a part of the batch.
InferFails(r) ==
    /\ batcher[r] = "publish"
    /\ DropBatch(r)
    /\ UNCHANGED <<groupVars, results, given_up, pollerVars, pending, outbox>>

\* Mutant: what flush() returns is discarded.
StillQueuedIgnored(r) == FALSE

StillQueued(r) == outbox[r] # <<>>

\* flush() returns: with everything sent, the messages go back to the poller;
\* after the timeout they do not.
Flush(r) ==
    /\ batcher[r] = "flush"
    /\ \/ /\ ~StillQueued(r)
          /\ to_commit' = [to_commit EXCEPT ![r] = @ \o batch[r]]
          /\ batch' = [batch EXCEPT ![r] = <<>>]
          /\ batcher' = [batcher EXCEPT ![r] = "collect"]
          /\ UNCHANGED <<published, dropped>>
          /\ NoFault
       \/ StillQueued(r) /\ DropBatch(r)
    /\ UNCHANGED <<groupVars, results, given_up, pollerVars, pending, outbox>>

\* The producer's thread sends a result.  There is no delivery callback: a
\* result that is refused is dropped, and flush() counts it as gone.
Deliver(r) ==
    /\ outbox[r] # <<>>
    /\ outbox' = [outbox EXCEPT ![r] = Tail(@)]
    /\ \/ /\ results' = results \cup {Head(outbox[r])}
          /\ UNCHANGED dropped
          /\ NoFault
       \/ /\ dropped' = dropped \cup {Head(outbox[r])}
          /\ UNCHANGED results
          /\ Fault("delivery")
    /\ UNCHANGED <<groupVars, given_up, pollerVars, pending, batch, batcher,
                   published, to_commit>>

----------------------------------------------------------------------------
\* The process dies with its queues.
Crash(r) ==
    /\ poller[r] # "stopped"
    /\ Fault("crash")
    /\ owner' = IF owner = r THEN None ELSE owner
    /\ poller' = [poller EXCEPT ![r] = "stopped"]
    /\ paused' = [paused EXCEPT ![r] = FALSE]
    /\ held' = [held EXCEPT ![r] = FALSE]
    /\ pending' = [pending EXCEPT ![r] = <<>>]
    /\ batch' = [batch EXCEPT ![r] = <<>>]
    /\ batcher' = [batcher EXCEPT ![r] = "collect"]
    /\ published' = [published EXCEPT ![r] = 0]
    /\ outbox' = [outbox EXCEPT ![r] = <<>>]
    /\ to_commit' = [to_commit EXCEPT ![r] = <<>>]
    /\ UNCHANGED <<committed, outcomeVars, pos>>

Poller(r) ==
    \/ Start(r) \/ CommitOne(r) \/ Drained(r) \/ ApplyBackpressure(r)
    \/ Poll(r) \/ Assign(r)

Batcher(r) == Collect(r) \/ Collected(r) \/ Publish(r) \/ Flush(r)

Next ==
    \E r \in Replica :
       \/ Poller(r) \/ Batcher(r) \/ Deliver(r)
       \/ Revoke(r) \/ InferFails(r) \/ Crash(r)

Spec == Init /\ [][Next]_vars

\* Both threads run and the queue of the producer is sent.  A free partition is
\* assigned to somebody who polls.
FairSpec ==
    /\ Spec
    /\ \A r \in Replica :
          /\ WF_vars(Poller(r))
          /\ WF_vars(Batcher(r))
          /\ WF_vars(Deliver(r))
    /\ SF_vars(\E r \in Replica : Assign(r))

----------------------------------------------------------------------------
(* Properties.                                                             *)

\* What has happened to a task is known to somebody: a result, or the decision
\* to leave it to the reaper.
Handled == results \cup given_up

AtLeastOnce == INSTANCE AtLeastOnce WITH handled <- Handled \cup dropped

\* Every task gets a result or is given up, and none is committed before, though
\* two threads and several replicas work on the partition and it may move while
\* its tasks are in a batch; only a batch that fails or a result that is refused
\* can lose one (inference/main.py:332-352).
TaskDelivery == AtLeastOnce!FairSpec

\* The queue never grows past INFERENCE_MAX_QUEUE, not even when the partition
\* is taken away and given back while the consumer is paused
\* (inference/main.py:16-20, 148-164).
QueueBounded == \A r \in Replica : Len(pending[r]) <= INFERENCE_MAX_QUEUE

\* A paused consumer is resumed: the queue drains (inference/main.py:173-176, 190-199).
BackpressureReleased == \A r \in Replica : paused[r] ~> ~paused[r]

----------------------------------------------------------------------------
(* What the code says, and the program does not guarantee.                 *)

\* A batch that fails is redelivered, so nothing is committed without a result
\* (inference/main.py:200-203).
CommittedIsHandled == 1..committed \subseteq Handled
=============================================================================
