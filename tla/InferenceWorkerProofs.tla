----------------------- MODULE InferenceWorkerProofs -----------------------
(***************************************************************************)
(* Proofs about InferenceWorker, for every number of replicas and tasks,   *)
(* every size of the batch and the queue and every set of failures.        *)
(***************************************************************************)
EXTENDS InferenceWorker, SequenceTheorems, TLAPS

----------------------------------------------------------------------------
(* Types.                                                                  *)

\* Where the loop over the batch is.
LoopInv ==
    \A r \in Replica :
        IF batcher[r] = "publish" THEN published[r] < Len(batch[r])
        ELSE published[r] = 0

TInv == TypeOK /\ LoopInv

\* What the threads of replica r do, or what is done to it.
Step(r) ==
    \/ Poller(r) \/ Batcher(r) \/ Deliver(r)
    \/ Revoke(r) \/ InferFails(r) \/ Crash(r)

LEMMA Numbers ==
    /\ LastMessage \in Nat /\ MaxFaults \in Nat
    /\ INFERENCE_BATCH_SIZE \in Nat /\ INFERENCE_BATCH_SIZE > 0
    /\ INFERENCE_MAX_QUEUE \in Nat /\ INFERENCE_RESUME_QUEUE \in Nat
    /\ INFERENCE_RESUME_QUEUE < INFERENCE_MAX_QUEUE
    /\ Task \subseteq 0..LastMessage /\ Task \subseteq Nat
  BY InferenceAssumption DEF Task

LEMMA FaultType ==
    ASSUME TypeOK, NEW kind, Fault(kind)
    PROVE  faults' \in 0..MaxFaults
  BY Numbers DEF TypeOK, Fault

\* The poller only polls what is there.
LEMMA PollType ==
    ASSUME TypeOK, NEW r \in Replica, pos[r] < LastMessage
    PROVE  pos[r] + 1 \in Task /\ pos[r] \in Nat
  BY Numbers DEF TypeOK, Task

LEMMA PollerType ==
    ASSUME TInv, NEW r \in Replica, Poller(r) \/ Revoke(r)
    PROVE  TInv'
<1> USE DEF TInv, TypeOK, LoopInv
<1> USE DEF groupVars, outcomeVars, pollerVars, batcherVars, PollerGoes
<1> DEFINE Queue == [Replica -> Seq(Task)]
<1>1. CASE Start(r)
  BY <1>1 DEF Start
<1>2. CASE CommitOne(r)
  <2>1. to_commit[r] \in Seq(Task) /\ to_commit[r] # <<>>
    BY <1>2 DEF CommitOne
  <2>2. Head(to_commit[r]) \in Task /\ Tail(to_commit[r]) \in Seq(Task)
    BY <2>1, HeadTailProperties
  <2>3. committed' \in 0..LastMessage
    BY <1>2, <2>2, Numbers DEF CommitOne
  <2>4. to_commit' \in Queue
    BY <1>2, <2>2 DEF CommitOne
  <2>5. faults' \in 0..MaxFaults
    BY <1>2, FaultType DEF CommitOne, NoFault
  <2> QED
    BY <1>2, <2>3, <2>4, <2>5 DEF CommitOne
<1>3. CASE Drained(r)
  BY <1>3 DEF Drained
<1>4. CASE ApplyBackpressure(r)
  <2>1. MayResume(r) \in BOOLEAN
    BY DEF MayResume
  <2>2. paused' \in [Replica -> BOOLEAN] /\ held' \in [Replica -> BOOLEAN]
    BY <1>4, <2>1 DEF ApplyBackpressure
  <2> QED
    BY <1>4, <2>2 DEF ApplyBackpressure
<1>5. CASE Poll(r)
  <2>1. pos' \in [Replica -> 0..LastMessage] /\ pending' \in Queue
    <3>1. CASE UNCHANGED <<pos, pending>>
      BY <3>1
    <3>2. CASE /\ pos[r] < LastMessage
               /\ pos' = [pos EXCEPT ![r] = @ + 1]
               /\ pending' = [pending EXCEPT ![r] = Append(@, pos[r] + 1)]
      <4>1. pos[r] + 1 \in Task /\ pos[r] + 1 \in 0..LastMessage
        BY <3>2, PollType, Numbers
      <4>2. Append(pending[r], pos[r] + 1) \in Seq(Task)
        BY <4>1, AppendProperties
      <4> QED
        BY <3>2, <4>1, <4>2
    <3> QED
      BY <1>5, <3>1, <3>2 DEF Poll
  <2> QED
    BY <1>5, <2>1 DEF Poll
<1>6. CASE Assign(r)
  <2>1. ReapplyPause(r) \in BOOLEAN
    BY DEF ReapplyPause
  <2>2. held' \in [Replica -> BOOLEAN] /\ pos' \in [Replica -> 0..LastMessage]
    BY <1>6, <2>1 DEF Assign
  <2> QED
    BY <1>6, <2>2 DEF Assign
<1>7. CASE Revoke(r)
  <2>1. faults' \in 0..MaxFaults
    BY <1>7, FaultType DEF Revoke
  <2> QED
    BY <1>7, <2>1 DEF Revoke
<1> QED
  BY <1>1, <1>2, <1>3, <1>4, <1>5, <1>6, <1>7 DEF Poller

LEMMA BatcherType ==
    ASSUME TInv, NEW r \in Replica, Batcher(r)
    PROVE  TInv'
<1> USE DEF TInv, TypeOK, LoopInv
<1> USE DEF groupVars, outcomeVars, pollerVars, batcherVars
<1> DEFINE Queue == [Replica -> Seq(Task)]
<1>0. /\ batch[r] \in Seq(Task) /\ Len(batch[r]) \in Nat
      /\ pending[r] \in Seq(Task) /\ outbox[r] \in Seq(Task)
      /\ to_commit[r] \in Seq(Task)
  BY LenProperties
<1>1. CASE Collect(r)
  <2>1. Head(pending[r]) \in Task /\ Tail(pending[r]) \in Seq(Task)
    BY <1>0, <1>1, HeadTailProperties DEF Collect
  <2> DEFINE more == Append(batch[r], Head(pending[r]))
  <2>2. more \in Seq(Task) /\ Len(more) = Len(batch[r]) + 1
    BY <1>0, <2>1, AppendProperties
  <2>3. Len(more) <= INFERENCE_BATCH_SIZE
    BY <1>0, <1>1, <2>2, Numbers DEF Collect, Room
  <2>4. pending' = [pending EXCEPT ![r] = Tail(@)]
        /\ batch' = [batch EXCEPT ![r] = more]
        /\ batcher[r] = "collect"
        /\ UNCHANGED <<groupVars, outcomeVars, pollerVars, batcher, published,
                       outbox, to_commit, faults>>
    BY <1>1 DEF Collect
  <2> HIDE DEF more
  <2>5. pending' \in Queue
    BY <2>1, <2>4
  <2>6. batch' \in Queue /\ \A q \in Replica : Len(batch'[q]) <= INFERENCE_BATCH_SIZE
    BY <2>2, <2>3, <2>4
  <2>7. LoopInv'
    BY <2>4
  <2> QED
    BY <2>4, <2>5, <2>6, <2>7
<1>2. CASE Collected(r)
  <2>1. 0 < Len(batch[r])
    BY <1>0, <1>2, EmptySeq DEF Collected
  <2> QED
    BY <1>2, <2>1 DEF Collected
<1>3. CASE Publish(r)
  <2> DEFINE n == published[r] + 1
             task == batch[r][n]
             last == n = Len(batch[r])
  <2>1. /\ n \in 1..Len(batch[r]) /\ n \in 0..INFERENCE_BATCH_SIZE
        /\ ~last => n < Len(batch[r])
    BY <1>0, <1>3, Numbers DEF Publish
  <2>2. task \in Task
    BY <1>0, <2>1, ElementOfSeq
  <2>3. Append(outbox[r], task) \in Seq(Task)
    BY <1>0, <2>2, AppendProperties
  <2>4. /\ given_up' = given_up \/ given_up' = given_up \cup {task}
        /\ outbox' = outbox \/ outbox' = [outbox EXCEPT ![r] = Append(@, task)]
        /\ published' = [published EXCEPT ![r] = IF last THEN 0 ELSE n]
        /\ batcher' = [batcher EXCEPT ![r] = IF last THEN "flush" ELSE @]
        /\ batcher[r] = "publish"
        /\ UNCHANGED <<groupVars, results, dropped, pollerVars, pending, batch,
                       to_commit, faults>>
    BY <1>3 DEF Publish
  <2>5. outbox' \in Queue
    BY <2>3, <2>4
  <2> HIDE DEF n, last, task
  <2>6. /\ published' \in [Replica -> 0..INFERENCE_BATCH_SIZE]
        /\ given_up' \in SUBSET Task
        /\ batcher' \in [Replica -> {"collect", "publish", "flush"}]
    <3>1. (IF last THEN 0 ELSE n) \in 0..INFERENCE_BATCH_SIZE
      BY <2>1, Numbers
    <3>2. published' \in [Replica -> 0..INFERENCE_BATCH_SIZE]
      BY <2>4, <3>1
    <3>3. given_up' \in SUBSET Task
      BY <2>2, <2>4
    <3>4. batcher' \in [Replica -> {"collect", "publish", "flush"}]
      BY <2>4
    <3> QED
      BY <3>2, <3>3, <3>4
  <2>7. LoopInv'
    <3>1. \A q \in Replica \ {r} : batcher'[q] = batcher[q] /\ published'[q] = published[q]
      BY <2>4
    <3>2. IF last THEN batcher'[r] = "flush" /\ published'[r] = 0
          ELSE batcher'[r] = "publish" /\ published'[r] = n
      BY <2>4
    <3> QED
      BY <2>1, <2>4, <3>1, <3>2
  <2> QED
    BY <2>4, <2>5, <2>6, <2>7
<1>4. CASE Flush(r)
  <2>1. CASE to_commit' = [to_commit EXCEPT ![r] = @ \o batch[r]]
             /\ batch' = [batch EXCEPT ![r] = <<>>]
             /\ batcher' = [batcher EXCEPT ![r] = "collect"]
             /\ UNCHANGED <<published, dropped, faults>>
    <3>1. to_commit[r] \o batch[r] \in Seq(Task)
      BY <1>0, ConcatProperties
    <3>2. to_commit' \in Queue
      BY <2>1, <3>1
    <3>3. batch' \in Queue /\ \A q \in Replica : Len(batch'[q]) <= INFERENCE_BATCH_SIZE
      BY <2>1, EmptySeq, Numbers
    <3> QED
      BY <1>4, <2>1, <3>2, <3>3 DEF Flush
  <2>2. CASE DropBatch(r)
    <3>1. faults' \in 0..MaxFaults
      BY <2>2, FaultType DEF DropBatch
    <3>2. ToSet(batch[r]) \subseteq Task
      BY <1>0, ElementOfSeq, LenProperties DEF ToSet
    <3>3. batch' \in Queue /\ \A q \in Replica : Len(batch'[q]) <= INFERENCE_BATCH_SIZE
      BY <2>2, EmptySeq, Numbers DEF DropBatch
    <3>4. published' \in [Replica -> 0..INFERENCE_BATCH_SIZE]
      BY <2>2, Numbers DEF DropBatch
    <3> QED
      BY <1>4, <2>2, <3>1, <3>2, <3>3, <3>4 DEF Flush, DropBatch
  <2> QED
    BY <1>4, <2>1, <2>2 DEF Flush, NoFault
<1> QED
  BY <1>1, <1>2, <1>3, <1>4 DEF Batcher

LEMMA FailureType ==
    ASSUME TInv, NEW r \in Replica, Deliver(r) \/ InferFails(r) \/ Crash(r)
    PROVE  TInv'
<1> USE DEF TInv, TypeOK, LoopInv
<1> USE DEF groupVars, outcomeVars, pollerVars, batcherVars
<1> DEFINE Queue == [Replica -> Seq(Task)]
<1>0. batch[r] \in Seq(Task) /\ outbox[r] \in Seq(Task)
  OBVIOUS
<1>1. CASE Deliver(r)
  <2>1. Head(outbox[r]) \in Task /\ Tail(outbox[r]) \in Seq(Task)
    BY <1>0, <1>1, HeadTailProperties DEF Deliver
  <2>2. outbox' \in Queue /\ results' \in SUBSET Task /\ dropped' \in SUBSET Task
    BY <1>1, <2>1 DEF Deliver
  <2>3. faults' \in 0..MaxFaults
    BY <1>1, FaultType DEF Deliver, NoFault
  <2> QED
    BY <1>1, <2>2, <2>3 DEF Deliver
<1>2. CASE InferFails(r)
  <2>1. faults' \in 0..MaxFaults
    BY <1>2, FaultType DEF InferFails, DropBatch
  <2>2. ToSet(batch[r]) \subseteq Task
    BY <1>0, ElementOfSeq, LenProperties DEF ToSet
  <2>3. batch' \in Queue /\ \A q \in Replica : Len(batch'[q]) <= INFERENCE_BATCH_SIZE
    BY <1>2, EmptySeq, Numbers DEF InferFails, DropBatch
  <2>4. published' \in [Replica -> 0..INFERENCE_BATCH_SIZE]
    BY <1>2, Numbers DEF InferFails, DropBatch
  <2> QED
    BY <1>2, <2>1, <2>2, <2>3, <2>4 DEF InferFails, DropBatch
<1>3. CASE Crash(r)
  <2>1. faults' \in 0..MaxFaults
    BY <1>3, FaultType DEF Crash
  <2>2. batch' \in Queue /\ \A q \in Replica : Len(batch'[q]) <= INFERENCE_BATCH_SIZE
    BY <1>3, EmptySeq, Numbers DEF Crash
  <2>3. published' \in [Replica -> 0..INFERENCE_BATCH_SIZE]
    BY <1>3, Numbers DEF Crash
  <2>4. pending' \in Queue /\ outbox' \in Queue /\ to_commit' \in Queue
    BY <1>3, EmptySeq DEF Crash
  <2> QED
    BY <1>3, <2>1, <2>2, <2>3, <2>4 DEF Crash
<1> QED
  BY <1>1, <1>2, <1>3

LEMMA StepType ==
    ASSUME TInv, NEW r \in Replica, Step(r)
    PROVE  TInv'
  BY PollerType, BatcherType, FailureType DEF Step

LEMMA Stutter ==
    ASSUME TInv, UNCHANGED vars
    PROVE  TInv'
  BY DEF TInv, TypeOK, LoopInv, vars, groupVars, outcomeVars, pollerVars,
     batcherVars

LEMMA TypeInductive == TInv /\ [Next]_vars => TInv'
  BY StepType, Stutter DEF Next, Step

LEMMA InitType == Init => TInv
<1> SUFFICES ASSUME Init PROVE TInv
  OBVIOUS
<1>1. <<>> \in Seq(Task) /\ Len(<<>>) = 0
  BY EmptySeq
<1> QED
  BY <1>1, Numbers DEF Init, TInv, TypeOK, LoopInv

\* Both threads keep what they were written for; in particular no batch is larger
\* than INFERENCE_BATCH_SIZE, and the loop that publishes it never runs past its
\* end, whenever it is cut short (inference/main.py:207-230, 280-343).
THEOREM TypeCorrect == Spec => []TypeOK
<1>1. TInv => TypeOK
  BY DEF TInv
<1> QED
  BY <1>1, InitType, TypeInductive, PTL DEF Spec

----------------------------------------------------------------------------
(* Backpressure.                                                           *)

\* A consumer that is paused is paused in whatever it is assigned, and one that
\* polls without a pause has seen room in the queue since it last looked.
PressureInv ==
    \A r \in Replica :
        /\ Len(pending[r]) <= INFERENCE_MAX_QUEUE
        /\ owner = r /\ paused[r] => held[r]
        /\ poller[r] = "poll" /\ ~paused[r] => Len(pending[r]) < INFERENCE_MAX_QUEUE

LEMMA PressureInductive ==
    ASSUME TInv, PressureInv, NEW r \in Replica, Step(r)
    PROVE  PressureInv'
<1> USE DEF PressureInv
<1> USE DEF groupVars, outcomeVars, pollerVars, batcherVars, PollerGoes
<1>0. /\ poller \in [Replica -> {"stopped", "drain", "pressure", "poll"}]
      /\ pending \in [Replica -> Seq(Task)]
      /\ paused \in [Replica -> BOOLEAN] /\ held \in [Replica -> BOOLEAN]
      /\ \A q \in Replica : Len(pending[q]) \in Nat
      /\ owner \in Replica \cup {None} /\ None \notin Replica
  BY LenProperties, InferenceAssumption DEF TInv, TypeOK
<1>1. CASE Start(r) \/ CommitOne(r) \/ Drained(r)
  <2>1. UNCHANGED <<owner, paused, held, pending>>
    BY <1>1 DEF Start, CommitOne, Drained
  <2>2. \A q \in Replica : poller'[q] = "poll" => poller[q] = "poll"
    BY <1>0, <1>1 DEF Start, CommitOne, Drained
  <2> QED
    BY <2>1, <2>2
<1>2. CASE ApplyBackpressure(r)
  <2> DEFINE pause == ~paused[r] /\ Len(pending[r]) >= INFERENCE_MAX_QUEUE
  <2>1. /\ paused' = [paused EXCEPT ![r] = (@ \/ pause) /\ ~MayResume(r)]
        /\ held' = [held EXCEPT ![r] = (@ \/ (pause /\ owner = r)) /\ ~MayResume(r)]
        /\ poller' = [poller EXCEPT ![r] = "poll"]
        /\ UNCHANGED <<owner, pending>>
    BY <1>2 DEF ApplyBackpressure
  <2>2. MayResume(r) => Len(pending[r]) < INFERENCE_MAX_QUEUE
    BY <1>0, Numbers DEF MayResume
  <2>3. ~paused[r] /\ ~pause => Len(pending[r]) < INFERENCE_MAX_QUEUE
    BY <1>0, Numbers
  <2>4. pause \in BOOLEAN /\ MayResume(r) \in BOOLEAN /\ paused[r] \in BOOLEAN
        /\ held[r] \in BOOLEAN
    BY <1>0 DEF MayResume
  <2> HIDE DEF pause
  <2>5. /\ paused'[r] <=> (paused[r] \/ pause) /\ ~MayResume(r)
        /\ held'[r] <=> (held[r] \/ (pause /\ owner = r)) /\ ~MayResume(r)
    BY <1>0, <2>1, <2>4
  <2>6. \A q \in Replica \ {r} : /\ paused'[q] = paused[q] /\ held'[q] = held[q]
                                 /\ poller'[q] = poller[q]
    BY <1>0, <2>1
  <2>7. ASSUME ~paused'[r]
        PROVE  Len(pending[r]) < INFERENCE_MAX_QUEUE
    BY <2>2, <2>3, <2>4, <2>5, <2>7
  <2>8. ASSUME owner = r, paused'[r]
        PROVE  held'[r]
    BY <2>4, <2>5, <2>8
  <2> QED
    BY <2>1, <2>6, <2>7, <2>8
<1>3. CASE Poll(r)
  <2>1. CASE UNCHANGED <<pos, pending>>
    BY <1>0, <1>3, <2>1 DEF Poll
  <2>2. CASE /\ owner = r /\ ~held[r] /\ pos[r] < LastMessage
             /\ pending' = [pending EXCEPT ![r] = Append(@, pos[r] + 1)]
    <3>1. /\ poller[r] = "poll" /\ poller' = [poller EXCEPT ![r] = "drain"]
          /\ UNCHANGED <<owner, paused, held>>
      BY <1>3 DEF Poll
    <3>2. Len(pending[r]) < INFERENCE_MAX_QUEUE
      BY <2>2, <3>1
    <3>3. pos[r] + 1 \in Task
      BY <2>2, PollType DEF TInv
    <3>4. Len(pending'[r]) = Len(pending[r]) + 1
      BY <1>0, <2>2, <3>3, AppendProperties
    <3>5. Len(pending'[r]) <= INFERENCE_MAX_QUEUE
      BY <1>0, <3>2, <3>4, Numbers
    <3>6. poller'[r] = "drain" /\ \A q \in Replica \ {r} : /\ poller'[q] = poller[q]
                                                           /\ pending'[q] = pending[q]
      BY <1>0, <2>2, <3>1
    <3> QED
      BY <3>1, <3>5, <3>6
  <2> QED
    BY <1>3, <2>1, <2>2 DEF Poll
<1>4. CASE Assign(r)
  BY <1>0, <1>4 DEF Assign, ReapplyPause
<1>5. CASE Revoke(r)
  BY <1>0, <1>5 DEF Revoke
<1>6. CASE Collect(r)
  <2>1. pending[r] # <<>> /\ pending' = [pending EXCEPT ![r] = Tail(@)]
        /\ UNCHANGED <<owner, poller, paused, held>>
    BY <1>6 DEF Collect
  <2>2. Len(pending'[r]) = Len(pending[r]) - 1
    BY <1>0, <2>1, HeadTailProperties
  <2>3. /\ Len(pending[r]) <= INFERENCE_MAX_QUEUE =>
              Len(pending'[r]) <= INFERENCE_MAX_QUEUE
        /\ Len(pending[r]) < INFERENCE_MAX_QUEUE =>
              Len(pending'[r]) < INFERENCE_MAX_QUEUE
    BY <1>0, <2>2, Numbers
  <2>4. \A q \in Replica \ {r} : pending'[q] = pending[q]
    BY <1>0, <2>1
  <2> QED
    BY <2>1, <2>3, <2>4
<1>7. CASE Collected(r) \/ Publish(r) \/ Flush(r) \/ Deliver(r) \/ InferFails(r)
  BY <1>0, <1>7 DEF Collected, Publish, Flush, Deliver, InferFails
<1>8. CASE Crash(r)
  <2>1. Len(<<>>) = 0
    BY EmptySeq
  <2>2. /\ owner' # r
        /\ \A q \in Replica \ {r} : owner' = q => owner = q
    BY <1>0, <1>8 DEF Crash
  <2>3. pending'[r] = <<>> /\ poller'[r] = "stopped"
    BY <1>0, <1>8 DEF Crash
  <2>4. \A q \in Replica \ {r} : /\ pending'[q] = pending[q] /\ poller'[q] = poller[q]
                                 /\ paused'[q] = paused[q] /\ held'[q] = held[q]
    BY <1>0, <1>8 DEF Crash
  <2> QED
    BY <2>1, <2>2, <2>3, <2>4, Numbers
<1> QED
  BY <1>1, <1>2, <1>3, <1>4, <1>5, <1>6, <1>7, <1>8, Zenon DEF Step, Poller, Batcher

\* The queue between the threads never grows past INFERENCE_MAX_QUEUE, for every
\* pair of thresholds, although the pause reaches only what is assigned at the
\* time, and assignments come and go (inference/main.py:148-176).
THEOREM QueueTheorem == Spec => []QueueBounded
<1>1. Init => PressureInv
  <2>1. Len(<<>>) = 0
    BY EmptySeq
  <2> QED
    BY <2>1, Numbers, InferenceAssumption DEF Init, PressureInv
<1>2. PressureInv /\ UNCHANGED vars => PressureInv'
  BY DEF PressureInv, vars, groupVars, pollerVars
<1>3. TInv /\ PressureInv /\ [Next]_vars => PressureInv'
  BY <1>2, PressureInductive DEF Next, Step
<1>4. PressureInv => QueueBounded
  BY DEF PressureInv, QueueBounded
<1> QED
  BY <1>1, <1>3, <1>4, InitType, TypeInductive, PTL DEF Spec

\* The pause a consumer holds is the one its worker remembers: a consumer held
\* without it would never be resumed.
HeldOnPurpose == \A r \in Replica : held[r] <=> paused[r] /\ owner = r

LEMMA HeldInductive ==
    ASSUME TInv, HeldOnPurpose, NEW r \in Replica, Step(r)
    PROVE  HeldOnPurpose'
<1> USE DEF HeldOnPurpose, PollerGoes
<1>1. /\ paused \in [Replica -> BOOLEAN] /\ held \in [Replica -> BOOLEAN]
      /\ owner \in Replica \cup {None} /\ None \notin Replica
  BY InferenceAssumption DEF TInv, TypeOK
<1>2. CASE ApplyBackpressure(r)
  <2>1. PICK pause \in BOOLEAN :
           /\ paused' = [paused EXCEPT ![r] = (@ \/ pause) /\ ~MayResume(r)]
           /\ held' = [held EXCEPT ![r] = (@ \/ (pause /\ owner = r))
                                          /\ ~MayResume(r)]
    BY <1>2 DEF ApplyBackpressure
  <2>2. owner' = owner
    BY <1>2 DEF ApplyBackpressure, groupVars
  <2> QED
    BY <1>1, <2>1, <2>2
<1>3. CASE Assign(r)
  BY <1>1, <1>3 DEF Assign, ReapplyPause
<1>4. CASE Revoke(r) \/ Crash(r)
  BY <1>1, <1>4 DEF Revoke, Crash
<1>5. CASE UNCHANGED <<owner, paused, held>>
  BY <1>5
<1> QED
  BY <1>2, <1>3, <1>4, <1>5 DEF Step, Poller, Batcher, Start, CommitOne,
     Drained, Poll, Collect, Collected, Publish, InferFails, DropBatch, Flush,
     Deliver, groupVars, pollerVars

\* The safety half of BackpressureReleased: no rebalance or crash leaves the
\* partition paused in a consumer whose worker would not resume it, nor resumed in
\* one that is paused (inference/main.py:148-176).
THEOREM HoldTheorem == Spec => []HeldOnPurpose
<1>1. Init => HeldOnPurpose
  BY InferenceAssumption DEF Init, HeldOnPurpose
<1>2. HeldOnPurpose /\ UNCHANGED vars => HeldOnPurpose'
  BY DEF HeldOnPurpose, vars, groupVars, pollerVars
<1>3. TInv /\ HeldOnPurpose /\ [Next]_vars => HeldOnPurpose'
  BY <1>2, HeldInductive DEF Next, Step
<1> QED
  BY <1>1, <1>3, InitType, TypeInductive, PTL DEF Spec

----------------------------------------------------------------------------
(* Delivery.                                                               *)

\* What the abstract specification calls handled.
Settled == Handled \cup dropped

FirstOf(s, n) == {s[m] : m \in 1..n}

\* Whatever is below a task on its way through a replica is settled, or is on
\* its way there before it: the queues keep the order of the partition.
Ordered(r) ==
    /\ \A i \in ToSet(to_commit[r]) : 1..i \subseteq Settled
    /\ \A k \in 1..Len(batch[r]) :
          1..batch[r][k] - 1 \subseteq Settled \cup FirstOf(batch[r], k - 1)
    /\ \A k \in 1..Len(pending[r]) :
          1..pending[r][k] - 1 \subseteq
             Settled \cup ToSet(batch[r]) \cup FirstOf(pending[r], k - 1)
    /\ owner = r =>
          1..pos[r] \subseteq Settled \cup ToSet(batch[r]) \cup ToSet(pending[r])

\* What the loop has published is settled, or in the queue of the producer.
Sent(r) ==
    /\ batcher[r] = "publish" =>
          FirstOf(batch[r], published[r]) \subseteq Settled \cup ToSet(outbox[r])
    /\ batcher[r] = "flush" =>
          ToSet(batch[r]) \subseteq Settled \cup ToSet(outbox[r])

DeliveryInv ==
    /\ 1..committed \subseteq Settled
    /\ \A r \in Replica : Ordered(r) /\ Sent(r)

LEMMA Sets ==
    ASSUME NEW S, NEW s \in Seq(S)
    PROVE  /\ ToSet(s) = FirstOf(s, Len(s))
           /\ \A n \in 0..Len(s) : FirstOf(s, n) \subseteq ToSet(s)
           /\ FirstOf(s, 0) = {}
           /\ ToSet(<<>>) = {}
  BY LenProperties, EmptySeq DEF ToSet, FirstOf

LEMMA AppendSet ==
    ASSUME NEW S, NEW s \in Seq(S), NEW e \in S
    PROVE  /\ ToSet(Append(s, e)) = ToSet(s) \cup {e}
           /\ \A n \in 0..Len(s) : FirstOf(Append(s, e), n) = FirstOf(s, n)
           /\ Append(s, e)[Len(s) + 1] = e
           /\ Len(Append(s, e)) = Len(s) + 1
           /\ \A k \in 1..Len(s) : Append(s, e)[k] = s[k]
<1> DEFINE t == Append(s, e)
<1>1. /\ t \in Seq(S) /\ Len(s) \in Nat /\ Len(t) = Len(s) + 1
      /\ \A i \in 1..Len(s) : t[i] = s[i]
      /\ t[Len(s) + 1] = e
  BY AppendProperties, LenProperties
<1> HIDE DEF t
<1>2. ToSet(t) = FirstOf(t, Len(t)) /\ ToSet(s) = FirstOf(s, Len(s))
  BY <1>1, Sets
<1>3. \A n \in 0..Len(s) : FirstOf(t, n) = FirstOf(s, n)
  BY <1>1 DEF FirstOf
<1>4. FirstOf(t, Len(s) + 1) = FirstOf(t, Len(s)) \cup {t[Len(s) + 1]}
  <2>1. 1..Len(s) + 1 = (1..Len(s)) \cup {Len(s) + 1}
    BY <1>1
  <2> QED
    BY <2>1 DEF FirstOf
<1>5. ToSet(t) = ToSet(s) \cup {e}
  BY <1>1, <1>2, <1>3, <1>4
<1> QED
  BY <1>1, <1>3, <1>5 DEF t

LEMMA TailSet ==
    ASSUME NEW S, NEW s \in Seq(S), s # <<>>
    PROVE  /\ Head(s) \in S /\ Tail(s) \in Seq(S)
           /\ Head(s) = s[1]
           /\ Len(s) \in Nat /\ Len(s) > 0 /\ Len(Tail(s)) = Len(s) - 1
           /\ ToSet(s) = {Head(s)} \cup ToSet(Tail(s))
           /\ \A k \in 1..Len(s) : FirstOf(s, k) = {Head(s)} \cup FirstOf(Tail(s), k - 1)
           /\ \A k \in 1..Len(Tail(s)) : Tail(s)[k] = s[k + 1]
<1> DEFINE t == Tail(s)
<1>1. /\ Head(s) \in S /\ t \in Seq(S) /\ Len(t) = Len(s) - 1
      /\ \A i \in 1..Len(t) : t[i] = s[i + 1]
      /\ Len(s) \in Nat /\ Len(s) > 0 /\ Head(s) = s[1]
  BY HeadTailProperties, EmptySeq, LenProperties
<1>2. ASSUME NEW k \in 1..Len(s)
      PROVE  FirstOf(s, k) = {Head(s)} \cup FirstOf(t, k - 1)
  <2> HIDE DEF t
  <2>1. ASSUME NEW m \in 1..k
        PROVE  s[m] \in {Head(s)} \cup FirstOf(t, k - 1)
    <3>1. CASE m = 1
      BY <1>1, <3>1
    <3>2. CASE m # 1
      <4>1. m - 1 \in 1..k - 1 /\ m - 1 \in 1..Len(t) /\ (m - 1) + 1 = m
        BY <1>1, <3>2
      <4>2. t[m - 1] = s[m]
        BY <1>1, <4>1
      <4> QED
        BY <4>1, <4>2 DEF FirstOf
    <3> QED
      BY <3>1, <3>2
  <2>2. ASSUME NEW m \in 1..k - 1
        PROVE  t[m] \in FirstOf(s, k)
    <3>1. m + 1 \in 1..k /\ m \in 1..Len(t)
      BY <1>1
    <3>2. t[m] = s[m + 1]
      BY <1>1, <3>1
    <3> QED
      BY <3>1, <3>2 DEF FirstOf
  <2>3. Head(s) \in FirstOf(s, k)
    BY <1>1 DEF FirstOf
  <2> QED
    BY <2>1, <2>2, <2>3 DEF FirstOf
<1> HIDE DEF t
<1>3. ToSet(s) = {Head(s)} \cup ToSet(t)
  <2>1. ToSet(s) = FirstOf(s, Len(s)) /\ ToSet(t) = FirstOf(t, Len(s) - 1)
    BY <1>1, Sets
  <2>2. Len(s) \in 1..Len(s)
    BY <1>1
  <2> QED
    BY <1>2, <2>1, <2>2
<1> QED
  BY <1>1, <1>2, <1>3 DEF t

LEMMA ConcatSet ==
    ASSUME NEW S, NEW s \in Seq(S), NEW t \in Seq(S)
    PROVE  ToSet(s \o t) \subseteq ToSet(s) \cup ToSet(t)
<1> DEFINE u == s \o t
<1>1. /\ u \in Seq(S) /\ Len(u) = Len(s) + Len(t)
      /\ Len(s) \in Nat /\ Len(t) \in Nat
      /\ \A i \in 1..Len(s) + Len(t) :
            u[i] = IF i <= Len(s) THEN s[i] ELSE t[i - Len(s)]
  BY ConcatProperties, LenProperties
<1> HIDE DEF u
<1>2. /\ ToSet(u) = FirstOf(u, Len(s) + Len(t)) /\ ToSet(s) = FirstOf(s, Len(s))
      /\ ToSet(t) = FirstOf(t, Len(t))
  BY <1>1, Sets
<1>3. ASSUME NEW m \in 1..Len(s) + Len(t)
      PROVE  u[m] \in FirstOf(s, Len(s)) \cup FirstOf(t, Len(t))
  <2>1. CASE m <= Len(s)
    BY <1>1, <2>1 DEF FirstOf
  <2>2. CASE ~(m <= Len(s))
    <3>1. m - Len(s) \in 1..Len(t) /\ u[m] = t[m - Len(s)]
      BY <1>1, <2>2
    <3> QED
      BY <3>1 DEF FirstOf
  <2> QED
    BY <2>1, <2>2
<1> QED
  BY <1>2, <1>3 DEF FirstOf, u

\* Another replica notices no more of a step than that it has lost the partition.
LEMMA OthersKeep ==
    ASSUME TInv, NEW r \in Replica, Step(r), NEW q \in Replica \ {r}
    PROVE  /\ to_commit'[q] = to_commit[q] /\ batch'[q] = batch[q]
           /\ pending'[q] = pending[q] /\ outbox'[q] = outbox[q]
           /\ batcher'[q] = batcher[q] /\ published'[q] = published[q]
           /\ pos'[q] = pos[q]
           /\ owner' = q => owner = q
<1> USE DEF TInv, TypeOK
<1> USE DEF groupVars, outcomeVars, pollerVars, batcherVars, PollerGoes
<1>1. CASE Poller(r) \/ Revoke(r)
  BY <1>1, InferenceAssumption DEF Poller, Start, CommitOne, Drained,
     ApplyBackpressure, Poll, Assign, Revoke
<1>2. CASE Collect(r) \/ Collected(r) \/ Publish(r)
  BY <1>2 DEF Collect, Collected, Publish
<1>3. CASE Flush(r) \/ Deliver(r) \/ InferFails(r) \/ Crash(r)
  BY <1>3, InferenceAssumption DEF Flush, Deliver, InferFails, Crash, DropBatch
<1> QED
  BY <1>1, <1>2, <1>3 DEF Step, Batcher

\* What is settled stays settled.
LEMMA SettledGrows ==
    ASSUME TInv, NEW r \in Replica, Step(r)
    PROVE  Settled \subseteq Settled'
<1> USE DEF Settled, Handled
<1> USE DEF groupVars, outcomeVars, pollerVars, batcherVars
<1>1. CASE Poller(r) \/ Revoke(r)
  BY <1>1 DEF Poller, Start, CommitOne, Drained, ApplyBackpressure, Poll,
     Assign, Revoke
<1>2. CASE Collect(r) \/ Collected(r) \/ Publish(r)
  BY <1>2 DEF Collect, Collected, Publish
<1>3. CASE Flush(r) \/ Deliver(r) \/ InferFails(r) \/ Crash(r)
  BY <1>3 DEF Flush, Deliver, InferFails, Crash, DropBatch
<1> QED
  BY <1>1, <1>2, <1>3 DEF Step, Batcher

LEMMA OneMore ==
    ASSUME NEW n \in Nat
    PROVE  1..n + 1 = (1..n) \cup {n + 1}
  OBVIOUS

\* What a replica has in hand, with its types.
LEMMA InHand ==
    ASSUME TInv, NEW r \in Replica
    PROVE  /\ to_commit[r] \in Seq(Task) /\ batch[r] \in Seq(Task)
           /\ pending[r] \in Seq(Task) /\ outbox[r] \in Seq(Task)
           /\ Len(batch[r]) \in Nat /\ Len(pending[r]) \in Nat
           /\ pos[r] \in Nat /\ committed \in Nat
           /\ Task \subseteq Nat
  BY LenProperties, Numbers DEF TInv, TypeOK

\* Ordered and Sent survive what only settles more and takes nothing that is not
\* settled away.
LEMMA MoreSettled ==
    ASSUME TInv, NEW q \in Replica, Ordered(q), Sent(q), Settled \subseteq Settled',
           ToSet(to_commit'[q]) \subseteq ToSet(to_commit[q]),
           batch'[q] = batch[q], pending'[q] = pending[q], pos'[q] = pos[q],
           batcher'[q] = batcher[q], published'[q] = published[q],
           ToSet(outbox[q]) \subseteq ToSet(outbox'[q]) \cup Settled',
           owner' = q => owner = q
    PROVE  Ordered(q)' /\ Sent(q)'
<1>1. Ordered(q)'
  BY DEF Ordered
<1>2. Sent(q)'
  BY DEF Sent
<1> QED
  BY <1>1, <1>2

LEMMA OthersDeliver ==
    ASSUME TInv, DeliveryInv, NEW r \in Replica, Step(r), NEW q \in Replica \ {r}
    PROVE  Ordered(q)' /\ Sent(q)'
<1>1. /\ Ordered(q) /\ Sent(q) /\ Settled \subseteq Settled'
  BY SettledGrows DEF DeliveryInv
<1>2. /\ to_commit'[q] = to_commit[q] /\ batch'[q] = batch[q]
      /\ pending'[q] = pending[q] /\ outbox'[q] = outbox[q]
      /\ batcher'[q] = batcher[q] /\ published'[q] = published[q]
      /\ pos'[q] = pos[q]
      /\ owner' = q => owner = q
  BY OthersKeep
<1> HIDE DEF Settled
<1>3. /\ ToSet(to_commit'[q]) \subseteq ToSet(to_commit[q])
      /\ ToSet(outbox[q]) \subseteq ToSet(outbox'[q]) \cup Settled'
  BY <1>2
<1> QED
  BY <1>1, <1>2, <1>3, MoreSettled

LEMMA PollerDelivers ==
    ASSUME TInv, DeliveryInv, NEW r \in Replica, Poller(r) \/ Revoke(r)
    PROVE  Ordered(r)' /\ Sent(r)' /\ 1..committed' \subseteq Settled'
<1>1. Step(r)
  BY DEF Step
<1>2. /\ Ordered(r) /\ Sent(r) /\ Settled \subseteq Settled'
      /\ 1..committed \subseteq Settled
  BY <1>1, SettledGrows DEF DeliveryInv
<1>3. /\ to_commit[r] \in Seq(Task) /\ batch[r] \in Seq(Task)
      /\ pending[r] \in Seq(Task) /\ outbox[r] \in Seq(Task)
      /\ Len(batch[r]) \in Nat /\ Len(pending[r]) \in Nat
      /\ pos[r] \in Nat /\ committed \in Nat
  BY InHand
<1>4. UNCHANGED <<batch, batcher, published, outbox>>
  BY DEF Poller, Start, CommitOne, Drained, ApplyBackpressure, Poll, Assign,
     Revoke, batcherVars
<1>5. ASSUME Start(r) \/ Drained(r) \/ ApplyBackpressure(r) \/ Revoke(r)
      PROVE  Ordered(r)' /\ Sent(r)' /\ 1..committed' \subseteq Settled'
  <2>1. /\ UNCHANGED <<committed, pending, pos, to_commit>>
        /\ owner' = r => owner = r
    BY <1>5, InferenceAssumption DEF Start, Drained, ApplyBackpressure, Revoke,
       groupVars, pollerVars
  <2>2. Ordered(r)' /\ Sent(r)'
    BY <1>2, <1>4, <2>1, MoreSettled
  <2>3. 1..committed' \subseteq Settled'
    BY <1>2, <2>1
  <2> QED
    BY <2>2, <2>3
<1>6. ASSUME CommitOne(r)
      PROVE  Ordered(r)' /\ Sent(r)' /\ 1..committed' \subseteq Settled'
  <2>1. /\ to_commit[r] # <<>>
        /\ to_commit'[r] = Tail(to_commit[r])
        /\ committed' = Head(to_commit[r]) \/ committed' = committed
        /\ UNCHANGED <<owner, pending, pos>>
    BY <1>6 DEF CommitOne, pollerVars, TInv, TypeOK
  <2>2. ToSet(to_commit[r]) = {Head(to_commit[r])} \cup ToSet(to_commit'[r])
    BY <1>3, <2>1, TailSet
  <2>3. Ordered(r)' /\ Sent(r)'
    BY <1>2, <1>4, <2>1, <2>2, MoreSettled
  <2>4. 1..Head(to_commit[r]) \subseteq Settled
    BY <1>2, <2>2 DEF Ordered
  <2>5. 1..committed' \subseteq Settled'
    BY <1>2, <2>1, <2>4
  <2> QED
    BY <2>3, <2>5
<1>7. ASSUME Poll(r)
      PROVE  Ordered(r)' /\ Sent(r)' /\ 1..committed' \subseteq Settled'
  <2>1. UNCHANGED <<committed, owner, to_commit, results, given_up, dropped>>
    BY <1>7 DEF Poll, groupVars, outcomeVars
  <2>2. ASSUME UNCHANGED <<pos, pending>>
        PROVE  Ordered(r)' /\ Sent(r)'
    BY <1>2, <1>4, <2>1, <2>2, MoreSettled
  <2>3. ASSUME owner = r, pos[r] < LastMessage,
               pos' = [pos EXCEPT ![r] = @ + 1],
               pending' = [pending EXCEPT ![r] = Append(@, pos[r] + 1)]
        PROVE  Ordered(r)' /\ Sent(r)'
    <3>1. pos[r] + 1 \in Task
      BY <2>3, PollType DEF TInv
    <3>2. /\ pos'[r] = pos[r] + 1
          /\ pending'[r] = Append(pending[r], pos[r] + 1)
      BY <2>3 DEF TInv, TypeOK
    <3>3. /\ ToSet(pending'[r]) = ToSet(pending[r]) \cup {pos[r] + 1}
          /\ \A n \in 0..Len(pending[r]) :
                FirstOf(pending'[r], n) = FirstOf(pending[r], n)
          /\ pending'[r][Len(pending[r]) + 1] = pos[r] + 1
          /\ Len(pending'[r]) = Len(pending[r]) + 1
          /\ \A k \in 1..Len(pending[r]) : pending'[r][k] = pending[r][k]
      BY <1>3, <3>1, <3>2, AppendSet
    <3>4. 1..pos[r] \subseteq Settled' \cup ToSet(batch[r]) \cup ToSet(pending[r])
      BY <1>2, <2>3 DEF Ordered
    <3>5. ToSet(pending[r]) = FirstOf(pending[r], Len(pending[r]))
      BY <1>3, Sets
    <3>6. ASSUME NEW k \in 1..Len(pending'[r])
          PROVE  1..pending'[r][k] - 1 \subseteq
                    Settled' \cup ToSet(batch[r]) \cup FirstOf(pending'[r], k - 1)
      <4>1. CASE k = Len(pending[r]) + 1
        <5>1. k - 1 = Len(pending[r]) /\ pending'[r][k] - 1 = pos[r]
              /\ Len(pending[r]) \in 0..Len(pending[r])
          BY <1>3, <3>3, <4>1
        <5>2. FirstOf(pending'[r], k - 1) = ToSet(pending[r])
          BY <3>3, <3>5, <5>1
        <5> QED
          BY <3>4, <5>1, <5>2
      <4>2. CASE k # Len(pending[r]) + 1
        <5>1. k \in 1..Len(pending[r]) /\ k - 1 \in 0..Len(pending[r])
          BY <1>3, <3>3, <4>2
        <5>2. pending'[r][k] = pending[r][k]
              /\ FirstOf(pending'[r], k - 1) = FirstOf(pending[r], k - 1)
          BY <3>3, <5>1
        <5>3. 1..pending[r][k] - 1 \subseteq
                 Settled \cup ToSet(batch[r]) \cup FirstOf(pending[r], k - 1)
          BY <1>2, <5>1 DEF Ordered
        <5> QED
          BY <1>2, <5>2, <5>3
      <4> QED
        BY <4>1, <4>2
    <3>7. 1..pos'[r] \subseteq Settled' \cup ToSet(batch[r]) \cup ToSet(pending'[r])
      <4>1. 1..pos[r] + 1 = (1..pos[r]) \cup {pos[r] + 1}
        BY <1>3, OneMore
      <4> QED
        BY <3>2, <3>3, <3>4, <4>1
    <3>8. /\ \A i \in ToSet(to_commit[r]) : 1..i \subseteq Settled'
          /\ \A k \in 1..Len(batch[r]) :
                1..batch[r][k] - 1 \subseteq Settled' \cup FirstOf(batch[r], k - 1)
      BY <1>2 DEF Ordered
    <3>9. Ordered(r)'
      BY <1>4, <2>1, <3>6, <3>7, <3>8 DEF Ordered
    <3>10. Sent(r)'
      <4>1. UNCHANGED <<batch, batcher, published, outbox>>
        BY <1>4
      <4>2. Sent(r)
        BY <1>2
      <4> QED
        BY <1>2, <4>1, <4>2 DEF Sent
    <3> QED
      BY <3>9, <3>10
  <2>4. 1..committed' \subseteq Settled'
    BY <1>2, <2>1
  <2> QED
    BY <1>7, <2>2, <2>3, <2>4 DEF Poll
<1>8. ASSUME Assign(r)
      PROVE  Ordered(r)' /\ Sent(r)' /\ 1..committed' \subseteq Settled'
  <2>1. /\ pos'[r] = committed
        /\ UNCHANGED <<committed, pending, to_commit>>
    BY <1>8 DEF Assign, TInv, TypeOK
  <2>2. Ordered(r)'
    BY <1>2, <1>4, <2>1 DEF Ordered
  <2>3. Sent(r)'
    BY <1>2, <1>4 DEF Sent
  <2> QED
    BY <1>2, <2>1, <2>2, <2>3
<1> QED
  BY <1>5, <1>6, <1>7, <1>8 DEF Poller

LEMMA CollectDelivers ==
    ASSUME TInv, DeliveryInv, NEW r \in Replica, Collect(r)
    PROVE  Ordered(r)' /\ Sent(r)'
<1>1. /\ Ordered(r) /\ Settled \subseteq Settled'
  BY SettledGrows DEF DeliveryInv, Step, Batcher
<1>2. /\ batch[r] \in Seq(Task) /\ pending[r] \in Seq(Task)
      /\ Len(batch[r]) \in Nat /\ Len(pending[r]) \in Nat
  BY InHand
<1> DEFINE h == Head(pending[r])
<1>3. /\ pending[r] # <<>> /\ pending'[r] = Tail(pending[r])
      /\ batch'[r] = Append(batch[r], h)
      /\ batcher[r] = "collect"
      /\ UNCHANGED <<owner, pos, to_commit, batcher>>
  BY DEF Collect, groupVars, pollerVars, TInv, TypeOK
<1>4. /\ h \in Task /\ h = pending[r][1]
      /\ Len(pending[r]) > 0 /\ Len(pending'[r]) = Len(pending[r]) - 1
      /\ ToSet(pending[r]) = {h} \cup ToSet(pending'[r])
      /\ \A k \in 1..Len(pending[r]) :
            FirstOf(pending[r], k) = {h} \cup FirstOf(pending'[r], k - 1)
      /\ \A k \in 1..Len(pending'[r]) : pending'[r][k] = pending[r][k + 1]
  BY <1>2, <1>3, TailSet
<1> HIDE DEF h
<1>5. /\ ToSet(batch'[r]) = ToSet(batch[r]) \cup {h}
      /\ \A n \in 0..Len(batch[r]) : FirstOf(batch'[r], n) = FirstOf(batch[r], n)
      /\ batch'[r][Len(batch[r]) + 1] = h
      /\ Len(batch'[r]) = Len(batch[r]) + 1
      /\ \A k \in 1..Len(batch[r]) : batch'[r][k] = batch[r][k]
  BY <1>2, <1>3, <1>4, AppendSet
<1>6. /\ FirstOf(pending[r], 0) = {}
      /\ ToSet(batch[r]) = FirstOf(batch[r], Len(batch[r]))
  BY <1>2, Sets
<1>7. 1..h - 1 \subseteq Settled \cup ToSet(batch[r])
  <2>1. 1 \in 1..Len(pending[r]) /\ 1 - 1 = 0
    BY <1>2, <1>4
  <2> QED
    BY <1>1, <1>4, <1>6, <2>1 DEF Ordered
<1>8. ASSUME NEW k \in 1..Len(batch'[r])
      PROVE  1..batch'[r][k] - 1 \subseteq Settled' \cup FirstOf(batch'[r], k - 1)
  <2>1. CASE k = Len(batch[r]) + 1
    <3>1. k - 1 = Len(batch[r]) /\ Len(batch[r]) \in 0..Len(batch[r])
      BY <1>2, <2>1
    <3>2. batch'[r][k] = h /\ FirstOf(batch'[r], k - 1) = ToSet(batch[r])
      BY <1>5, <1>6, <2>1, <3>1
    <3> QED
      BY <1>1, <1>7, <3>2
  <2>2. CASE k # Len(batch[r]) + 1
    <3>1. k \in 1..Len(batch[r]) /\ k - 1 \in 0..Len(batch[r])
      BY <1>2, <1>5, <2>2
    <3>2. batch'[r][k] = batch[r][k] /\ FirstOf(batch'[r], k - 1) = FirstOf(batch[r], k - 1)
      BY <1>5, <3>1
    <3>3. 1..batch[r][k] - 1 \subseteq Settled \cup FirstOf(batch[r], k - 1)
      BY <1>1, <3>1 DEF Ordered
    <3> QED
      BY <1>1, <3>2, <3>3
  <2> QED
    BY <2>1, <2>2
<1>9. ASSUME NEW k \in 1..Len(pending'[r])
      PROVE  1..pending'[r][k] - 1 \subseteq
                Settled' \cup ToSet(batch'[r]) \cup FirstOf(pending'[r], k - 1)
  <2>1. k + 1 \in 1..Len(pending[r]) /\ k \in 1..Len(pending[r]) /\ (k + 1) - 1 = k
    BY <1>2, <1>4
  <2>2. 1..pending[r][k + 1] - 1 \subseteq
           Settled \cup ToSet(batch[r]) \cup FirstOf(pending[r], (k + 1) - 1)
    BY <1>1, <2>1 DEF Ordered
  <2>3. FirstOf(pending[r], (k + 1) - 1) = {h} \cup FirstOf(pending'[r], k - 1)
    BY <1>4, <2>1
  <2>4. pending'[r][k] = pending[r][k + 1]
    BY <1>4
  <2> QED
    BY <1>1, <1>5, <2>2, <2>3, <2>4
<1>10. owner' = r => 1..pos'[r] \subseteq
          Settled' \cup ToSet(batch'[r]) \cup ToSet(pending'[r])
  <2>1. owner = r => 1..pos[r] \subseteq
           Settled \cup ToSet(batch[r]) \cup ToSet(pending[r])
    BY <1>1 DEF Ordered
  <2> QED
    BY <1>1, <1>3, <1>4, <1>5, <2>1
<1>11. \A i \in ToSet(to_commit'[r]) : 1..i \subseteq Settled'
  BY <1>1, <1>3 DEF Ordered
<1>12. Ordered(r)'
  BY <1>8, <1>9, <1>10, <1>11 DEF Ordered
<1>13. Sent(r)'
  BY <1>3 DEF Sent
<1> QED
  BY <1>12, <1>13

LEMMA PublishDelivers ==
    ASSUME TInv, DeliveryInv, NEW r \in Replica, Publish(r)
    PROVE  Ordered(r)' /\ Sent(r)'
<1>1. /\ Ordered(r) /\ Sent(r) /\ Settled \subseteq Settled'
  BY SettledGrows DEF DeliveryInv, Step, Batcher
<1>2. /\ batch[r] \in Seq(Task) /\ outbox[r] \in Seq(Task) /\ Len(batch[r]) \in Nat
      /\ published[r] \in Nat /\ published[r] < Len(batch[r])
      /\ batcher[r] = "publish"
  BY InHand, Numbers DEF Publish, TInv, TypeOK, LoopInv
<1> DEFINE n == published[r] + 1
           task == batch[r][n]
<1>3. /\ \/ given_up' = given_up \cup {task} /\ UNCHANGED outbox
         \/ outbox' = [outbox EXCEPT ![r] = Append(@, task)]
      /\ published' = [published EXCEPT ![r] = IF n = Len(batch[r]) THEN 0 ELSE n]
      /\ batcher' = [batcher EXCEPT ![r] = IF n = Len(batch[r]) THEN "flush" ELSE @]
      /\ UNCHANGED <<owner, committed, pos, to_commit, pending, batch, results, dropped>>
  <2>1. \/ given_up' = given_up \cup {task} /\ UNCHANGED outbox
        \/ outbox' = [outbox EXCEPT ![r] = Append(@, task)]
    BY DEF Publish
  <2>2. /\ published' = [published EXCEPT ![r] = IF n = Len(batch[r]) THEN 0 ELSE n]
        /\ batcher' = [batcher EXCEPT ![r] = IF n = Len(batch[r]) THEN "flush" ELSE @]
    BY DEF Publish
  <2>3. UNCHANGED <<owner, committed, pos, to_commit, pending, batch, results, dropped>>
    BY DEF Publish, groupVars, pollerVars
  <2> QED
    BY <2>1, <2>2, <2>3
<1>4. n \in 1..Len(batch[r]) /\ n \in Nat /\ n - 1 = published[r]
  BY <1>2
<1>5. task \in Task
  BY <1>2, <1>4, ElementOfSeq
<1>6. ToSet(outbox[r]) \cup {task} \subseteq Settled' \cup ToSet(outbox'[r])
  <2>1. CASE given_up' = given_up \cup {task} /\ UNCHANGED outbox
    BY <2>1 DEF Settled, Handled
  <2>2. CASE outbox' = [outbox EXCEPT ![r] = Append(@, task)]
    <3>1. outbox'[r] = Append(outbox[r], task)
      BY <2>2 DEF TInv, TypeOK
    <3> QED
      BY <1>2, <1>5, <3>1, AppendSet
  <2> QED
    BY <1>3, <2>1, <2>2
<1>7. FirstOf(batch[r], n) \subseteq Settled' \cup ToSet(outbox'[r])
  <2>1. 1..n = (1..published[r]) \cup {n}
    BY <1>2, OneMore
  <2>2. FirstOf(batch[r], n) = FirstOf(batch[r], published[r]) \cup {task}
    BY <2>1 DEF FirstOf
  <2>3. FirstOf(batch[r], published[r]) \subseteq Settled \cup ToSet(outbox[r])
    BY <1>1, <1>2 DEF Sent
  <2> QED
    BY <1>1, <1>6, <2>2, <2>3
<1>8. ToSet(batch[r]) = FirstOf(batch[r], Len(batch[r]))
  BY <1>2, Sets
<1> HIDE DEF n, task
<1>9. IF n = Len(batch[r]) THEN batcher'[r] = "flush"
      ELSE batcher'[r] = "publish" /\ published'[r] = n
  BY <1>2, <1>3 DEF TInv, TypeOK
<1>10. Sent(r)'
  BY <1>3, <1>7, <1>8, <1>9 DEF Sent
<1>11. Ordered(r)'
  BY <1>1, <1>3 DEF Ordered
<1> QED
  BY <1>10, <1>11

\* A batch that leaves for good is settled: committed to be, or dropped.
LEMMA BatchLeaves ==
    ASSUME TInv, NEW r \in Replica, Ordered(r), Settled \subseteq Settled',
           ToSet(batch[r]) \subseteq Settled',
           ToSet(to_commit'[r]) \subseteq ToSet(to_commit[r]) \cup ToSet(batch[r]),
           batch'[r] = <<>>, batcher'[r] = "collect",
           UNCHANGED <<owner, pos, pending>>
    PROVE  Ordered(r)' /\ Sent(r)'
<1>1. /\ batch[r] \in Seq(Task) /\ Len(batch[r]) \in Nat /\ Task \subseteq Nat
      /\ Len(<<>>) = 0 /\ ToSet(<<>>) = {}
  BY InHand, Sets, EmptySeq
<1>2. ASSUME NEW i \in ToSet(batch[r])
      PROVE  1..i \subseteq Settled'
  <2>1. PICK k \in 1..Len(batch[r]) : i = batch[r][k]
    BY <1>1, LenProperties DEF ToSet
  <2>2. i \in Nat /\ i > 0
    <3>1. i \in Task
      BY <1>1, <2>1, ElementOfSeq
    <3> QED
      BY <3>1, Numbers DEF Task
  <2>3. FirstOf(batch[r], k - 1) \subseteq ToSet(batch[r])
    <3>1. k - 1 \in 0..Len(batch[r])
      BY <1>1
    <3> QED
      BY <1>1, <3>1, Sets
  <2>4. 1..i - 1 \subseteq Settled'
    BY <2>1, <2>3 DEF Ordered
  <2>5. 1..i = (1..i - 1) \cup {i}
    BY <2>2
  <2> QED
    BY <2>4, <2>5
<1>3. \A i \in ToSet(to_commit'[r]) : 1..i \subseteq Settled'
  BY <1>2 DEF Ordered
<1>4. \A k \in 1..Len(pending[r]) :
         1..pending[r][k] - 1 \subseteq Settled' \cup FirstOf(pending[r], k - 1)
  BY DEF Ordered
<1>5. owner = r => 1..pos[r] \subseteq Settled' \cup ToSet(pending[r])
  BY DEF Ordered
<1>6. Ordered(r)'
  BY <1>1, <1>3, <1>4, <1>5 DEF Ordered
<1>7. Sent(r)'
  BY DEF Sent
<1> QED
  BY <1>6, <1>7

LEMMA BatchDelivers ==
    ASSUME TInv, DeliveryInv, NEW r \in Replica, Flush(r) \/ InferFails(r)
    PROVE  Ordered(r)' /\ Sent(r)'
<1>1. /\ Ordered(r) /\ Sent(r) /\ Settled \subseteq Settled'
  BY SettledGrows DEF DeliveryInv, Step, Batcher
<1>2. /\ to_commit[r] \in Seq(Task) /\ batch[r] \in Seq(Task)
      /\ ToSet(<<>>) = {}
  BY InHand, Sets
<1>3. UNCHANGED <<owner, pos, pending>>
  BY DEF Flush, InferFails, groupVars, pollerVars
<1>4. ASSUME DropBatch(r)
      PROVE  Ordered(r)' /\ Sent(r)'
  <2>1. /\ batch'[r] = <<>> /\ batcher'[r] = "collect" /\ to_commit' = to_commit
        /\ dropped' = dropped \cup ToSet(batch[r])
    BY <1>4 DEF DropBatch, TInv, TypeOK
  <2>2. ToSet(batch[r]) \subseteq Settled'
    BY <2>1 DEF Settled
  <2> QED
    BY <1>1, <1>3, <2>1, <2>2, BatchLeaves
<1>5. ASSUME Flush(r), ~DropBatch(r)
      PROVE  Ordered(r)' /\ Sent(r)'
  <2>1. /\ batcher[r] = "flush" /\ outbox[r] = <<>>
        /\ to_commit'[r] = to_commit[r] \o batch[r]
        /\ batch'[r] = <<>> /\ batcher'[r] = "collect"
    BY <1>5 DEF Flush, StillQueued, TInv, TypeOK
  <2>2. ToSet(batch[r]) \subseteq Settled'
    BY <1>1, <1>2, <2>1 DEF Sent
  <2>3. ToSet(to_commit'[r]) \subseteq ToSet(to_commit[r]) \cup ToSet(batch[r])
    BY <1>2, <2>1, ConcatSet
  <2> QED
    BY <1>1, <1>3, <2>1, <2>2, <2>3, BatchLeaves
<1> QED
  BY <1>4, <1>5 DEF InferFails

LEMMA QueueDelivers ==
    ASSUME TInv, DeliveryInv, NEW r \in Replica,
           Collected(r) \/ Deliver(r) \/ Crash(r)
    PROVE  Ordered(r)' /\ Sent(r)'
<1>1. /\ Ordered(r) /\ Sent(r) /\ Settled \subseteq Settled'
  BY SettledGrows DEF DeliveryInv, Step, Batcher
<1>2. /\ batch[r] \in Seq(Task) /\ outbox[r] \in Seq(Task)
      /\ ToSet(<<>>) = {} /\ Len(<<>>) = 0 /\ FirstOf(batch[r], 0) = {}
  BY InHand, Sets, EmptySeq
<1>3. ASSUME Collected(r)
      PROVE  Ordered(r)' /\ Sent(r)'
  <2>1. /\ UNCHANGED <<owner, pos, to_commit, pending, batch, outbox, published>>
        /\ batcher[r] = "collect" /\ batcher'[r] = "publish"
    BY <1>3 DEF Collected, groupVars, pollerVars, TInv, TypeOK
  <2>2. published[r] = 0
    BY <2>1 DEF TInv, LoopInv
  <2>3. Sent(r)'
    BY <1>2, <2>1, <2>2 DEF Sent
  <2>4. Ordered(r)'
    BY <1>1, <2>1 DEF Ordered
  <2> QED
    BY <2>3, <2>4
<1>4. ASSUME Deliver(r)
      PROVE  Ordered(r)' /\ Sent(r)'
  <2>1. /\ outbox[r] # <<>> /\ outbox'[r] = Tail(outbox[r])
        /\ Head(outbox[r]) \in Settled'
        /\ UNCHANGED <<owner, pos, to_commit, pending, batch, batcher, published>>
    BY <1>4 DEF Deliver, Settled, Handled, groupVars, pollerVars, TInv, TypeOK
  <2>2. ToSet(outbox[r]) = {Head(outbox[r])} \cup ToSet(outbox'[r])
    BY <1>2, <2>1, TailSet
  <2> QED
    BY <1>1, <2>1, <2>2, MoreSettled
<1>5. ASSUME Crash(r)
      PROVE  Ordered(r)' /\ Sent(r)'
  <2>1. /\ to_commit'[r] = <<>> /\ batch'[r] = <<>> /\ pending'[r] = <<>>
        /\ batcher'[r] = "collect" /\ owner' # r
    BY <1>5, InferenceAssumption DEF Crash, TInv, TypeOK
  <2>2. Ordered(r)'
    BY <1>2, <2>1 DEF Ordered
  <2>3. Sent(r)'
    BY <2>1 DEF Sent
  <2> QED
    BY <2>2, <2>3
<1> QED
  BY <1>3, <1>4, <1>5

\* Only a commit of the poller moves the offset.
LEMMA OffsetMoves ==
    ASSUME TInv, NEW r \in Replica, Step(r)
    PROVE  \/ committed' = committed
           \/ /\ CommitOne(r)
              /\ UNCHANGED <<results, given_up, dropped>>
<1> USE DEF groupVars, outcomeVars
<1>1. CASE Poller(r) \/ Revoke(r)
  BY <1>1 DEF Poller, Start, CommitOne, Drained, ApplyBackpressure, Poll,
     Assign, Revoke
<1>2. CASE Collect(r) \/ Collected(r) \/ Publish(r)
  BY <1>2 DEF Collect, Collected, Publish
<1>3. CASE Flush(r) \/ Deliver(r) \/ InferFails(r) \/ Crash(r)
  BY <1>3 DEF Flush, Deliver, InferFails, Crash
<1> QED
  BY <1>1, <1>2, <1>3 DEF Step, Batcher

LEMMA DeliveryInductive ==
    ASSUME TInv, DeliveryInv, [Next]_vars
    PROVE  DeliveryInv'
<1>1. ASSUME NEW r \in Replica, Step(r)
      PROVE  DeliveryInv'
  <2>1. \A q \in Replica \ {r} : Ordered(q)' /\ Sent(q)'
    BY <1>1, OthersDeliver
  <2>2. Ordered(r)' /\ Sent(r)'
    BY <1>1, PollerDelivers, CollectDelivers, PublishDelivers, BatchDelivers,
       QueueDelivers DEF Step, Batcher
  <2>3. 1..committed' \subseteq Settled'
    <3>1. CASE committed' = committed
      BY <1>1, <3>1, SettledGrows DEF DeliveryInv
    <3>2. CASE CommitOne(r)
      BY <3>2, PollerDelivers DEF Poller
    <3> QED
      BY <1>1, <3>1, <3>2, OffsetMoves
  <2>4. \A q \in Replica : Ordered(q)' /\ Sent(q)'
    BY <2>1, <2>2
  <2> QED
    BY <2>3, <2>4 DEF DeliveryInv
<1>2. ASSUME UNCHANGED vars
      PROVE  DeliveryInv'
  <2>1. UNCHANGED <<owner, committed, results, given_up, dropped, pos, pending,
                    batch, batcher, published, outbox, to_commit>>
    BY <1>2 DEF vars, groupVars, outcomeVars, pollerVars, batcherVars
  <2> QED
    BY <2>1 DEF DeliveryInv, Ordered, Sent, Settled, Handled
<1> QED
  BY <1>1, <1>2 DEF Next, Step

LEMMA DeliveryInit == Init => DeliveryInv
<1> SUFFICES ASSUME Init PROVE DeliveryInv
  OBVIOUS
<1>1. Len(<<>>) = 0 /\ ToSet(<<>>) = {}
  BY EmptySeq, Sets
<1>2. 1..committed = {} /\ owner = None
  BY DEF Init
<1>3. \A r \in Replica : Ordered(r)
  BY <1>1, <1>2, InferenceAssumption DEF Init, Ordered
<1>4. \A r \in Replica : Sent(r)
  BY DEF Init, Sent
<1> QED
  BY <1>2, <1>3, <1>4 DEF DeliveryInv

\* A task is committed only after its result was sent, it was left to the reaper,
\* or its batch failed or its result was refused, on every replica and across
\* every rebalance, crash and failure: the safety half of TaskDelivery
\* (inference/main.py:127-146, 200-203, 332-352).
THEOREM InferenceDelivers == Spec => AtLeastOnce!Spec
<1>1. Init => AtLeastOnce!Init
  BY DEF Init, AtLeastOnce!Init, Handled
<1>2. TInv /\ DeliveryInv /\ [Next]_vars => TInv' /\ DeliveryInv'
  BY TypeInductive, DeliveryInductive
<1>3. ASSUME TInv, DeliveryInv, [Next]_vars
      PROVE  [AtLeastOnce!Next]_<<Handled \cup dropped, committed>>
  <2>1. ASSUME NEW r \in Replica, Step(r)
        PROVE  AtLeastOnce!Next
    <3>0. TInv' /\ DeliveryInv'
      BY <1>2, <1>3
    <3>1. Settled' \subseteq Task /\ committed' \in 0..LastMessage
      BY <3>0 DEF Settled, Handled, TInv, TypeOK
    <3>2. CASE committed' = committed
      <4>1. Settled' = Settled \cup Settled' /\ Settled' \in SUBSET (1..LastMessage)
        BY <1>3, <2>1, <3>1, SettledGrows DEF Task
      <4>2. AtLeastOnce!Handle
        BY <3>2, <4>1 DEF AtLeastOnce!Handle, Settled
      <4> QED
        BY <4>2 DEF AtLeastOnce!Next
    <3>3. CASE CommitOne(r) /\ UNCHANGED <<results, given_up, dropped>>
      <4>1. Settled' = Settled
        BY <3>3 DEF Settled, Handled
      <4>2. 1..committed' \subseteq Settled
        BY <3>0, <4>1 DEF DeliveryInv
      <4>3. AtLeastOnce!Commit
        BY <3>1, <4>1, <4>2 DEF AtLeastOnce!Commit, Settled
      <4> QED
        BY <4>3 DEF AtLeastOnce!Next
    <3> QED
      BY <1>3, <2>1, <3>2, <3>3, OffsetMoves
  <2>2. CASE UNCHANGED vars
    BY <2>2 DEF vars, groupVars, outcomeVars, Handled
  <2> QED
    BY <1>3, <2>1, <2>2 DEF Next, Step
<1> QED
  BY <1>1, <1>2, <1>3, InitType, DeliveryInit, PTL DEF Spec, AtLeastOnce!Spec
=============================================================================
