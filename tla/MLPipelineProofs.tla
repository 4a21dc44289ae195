-------------------------- MODULE MLPipelineProofs --------------------------
(***************************************************************************)
(* Proofs about MLPipeline, for every number of tiles, master replicas and *)
(* failures.  What the store's commands do is proved in JobPipelineProofs. *)
(***************************************************************************)
EXTENDS MLPipeline, JobPipelineProofs

\* The message a listener is recording is one of the log.
MLPlaceInv == \A m \in Replica : cpc[m] = "record" => pos[m] \in 1..Len(log)

MLTInv == MLTypeOK /\ MLPlaceInv

\* What a listener does to the consumers.
MLListener(m) == MLListening(m) \/ MLListenerFails(m)

----------------------------------------------------------------------------
(* What a step does to the store.                                          *)

\* A step never deletes the tiles, and no status but two is set.
MLRedis ==
    \/ UNCHANGED redisVars
    \/ \E s \in {"completed", "degraded"} : SetStatus(s)
    \/ \E t \in Tile : RecordTile(t) \/ IncrAttempts(t) \/ AddAbandoned(t)
    \/ CountTile
    \/ SetLastReapTime
    \/ /\ due' = TRUE
       /\ UNCHANGED <<status, count, tiles, attempts, abandoned, cleaned>>

MLBlobs ==
    \/ taskBlob' \subseteq taskBlob /\ resultBlob' \subseteq resultBlob
    \/ \E t \in Tile : PutTask(t)

MLTasks ==
    \/ UNCHANGED taskVars
    \/ \E t \in Tile :
          \/ ProduceTask(t, TRUE) \/ ProduceTask(t, FALSE)
          \/ tasks[t] > 0 /\ CommitTask(t)

MLResults ==
    /\ log' = log \/ \E t \in Tile : log' = Append(log, t)
    /\ committed' = committed \/ \E m \in Replica : committed' = pos[m]

MLFaults == \E kind : NoFault \/ Fault(kind)

MLStore == MLRedis /\ MLBlobs /\ MLTasks /\ MLResults /\ MLFaults

\* The upload, the workers, leadership and time.
LEMMA OthersStore ==
    ASSUME MLTInv,
           \/ PublishMLTasks \/ PublishMLFails
           \/ \E t \in Tile : Inferring(t)
           \/ \E m \in Replica : MLCrash(m)
           \/ \E m \in Replica : Handoff(m)
           \/ GraceElapses
    PROVE  MLStore
<1> USE DEF MLStore, MLRedis, MLBlobs, MLTasks, MLResults, MLFaults, blobVars
<1>1. CASE PublishMLTasks
  BY <1>1 DEF PublishMLTasks, Stage, Produce, resultVars, NoFault
<1>2. CASE PublishMLFails
  BY <1>2 DEF PublishMLFails, UploadError, UploadCrash, resultVars
<1>3. ASSUME NEW t \in Tile, Inferring(t)
      PROVE  MLStore
  BY <1>3 DEF Inferring, Infer, Skip, resultVars
<1>4. ASSUME NEW m \in Replica, MLCrash(m)
      PROVE  MLStore
  BY <1>4 DEF MLCrash, MasterCrash, resultVars
<1>5. ASSUME NEW m \in Replica, Handoff(m)
      PROVE  MLStore
  BY <1>5 DEF Handoff, resultVars
<1>6. CASE GraceElapses
  BY <1>6 DEF GraceElapses, resultVars, NoFault
<1> QED
  BY <1>1, <1>2, <1>3, <1>4, <1>5, <1>6

\* The results listeners.
LEMMA MLListenerStore ==
    ASSUME MLTInv, NEW m \in Replica, MLListener(m)
    PROVE  MLStore
<1>1. ASSUME cpc[m] = "record"
      PROVE  Current(m) \in Tile
  <2>1. log \in Seq(Tile) /\ pos[m] \in 1..Len(log)
    BY <1>1 DEF MLTInv, MLTypeOK, StoreTypeOK, MLPlaceInv
  <2> QED
    BY <2>1 DEF Current
<1> USE DEF MLListener, MLListening, MLListenerFails
<1>2. MLRedis
  BY <1>1 DEF MLRedis, Open, Assign, Close, Poll, Record, Count, Hlen, GetJob,
     MLFlip, MLSweep, Commit, Evict, ConsumerError, MLSweepError, storeVars
<1>3. MLBlobs
  BY DEF MLBlobs, Open, Assign, Close, Poll, Record, Count, Hlen, GetJob,
     MLFlip, MLSweep, Commit, Evict, ConsumerError, MLSweepError, SweepBlobs,
     storeVars, blobVars
<1>4. MLTasks
  BY DEF MLTasks, Open, Assign, Close, Poll, Record, Count, Hlen, GetJob,
     MLFlip, MLSweep, Commit, Evict, ConsumerError, MLSweepError, storeVars
<1>5. MLResults
  BY DEF MLResults, Open, Assign, Close, Poll, Record, Count, Hlen, GetJob,
     MLFlip, MLSweep, Commit, Evict, ConsumerError, MLSweepError, storeVars,
     resultVars
<1>6. MLFaults
  BY DEF MLFaults, Open, Assign, Close, Poll, Record, Count, Hlen, GetJob,
     MLFlip, MLSweep, SweepBlobs, Commit, Evict, ConsumerError, MLSweepError,
     storeVars, NoFault
<1> QED
  BY <1>2, <1>3, <1>4, <1>5, <1>6 DEF MLStore

\* The reapers.
LEMMA MLReaperStore ==
    ASSUME MLTInv, NEW m \in Replica, ReaperThread(m)
    PROVE  MLStore
<1>1. ReaperTypeOK
  BY DEF MLTInv, MLTypeOK
<1> USE DEF ReaperThread, ReaperStep, ReaperTypeOK
<1>2. MLRedis
  BY <1>1 DEF MLRedis, StartSweep, ReadMissing, ReadAbandoned, Degrade,
     SweepDegraded, IncrTile, Republish, BlobGone, GiveUp, Stamp, ReaperError,
     storeVars
<1>3. MLBlobs
  BY DEF MLBlobs, StartSweep, ReadMissing, ReadAbandoned, Degrade,
     SweepDegraded, IncrTile, Republish, BlobGone, GiveUp, Stamp, ReaperError,
     SweepBlobs, storeVars, blobVars
<1>4. MLTasks
  BY <1>1 DEF MLTasks, StartSweep, ReadMissing, ReadAbandoned, Degrade,
     SweepDegraded, IncrTile, Republish, BlobGone, GiveUp, Stamp, ReaperError,
     storeVars
<1>5. MLResults
  BY DEF MLResults, StartSweep, ReadMissing, ReadAbandoned, Degrade,
     SweepDegraded, IncrTile, Republish, BlobGone, GiveUp, Stamp, ReaperError,
     storeVars, resultVars
<1>6. MLFaults
  BY DEF MLFaults, StartSweep, ReadMissing, ReadAbandoned, Degrade,
     SweepDegraded, IncrTile, Republish, BlobGone, GiveUp, Stamp, ReaperError,
     SweepBlobs, storeVars, NoFault
<1> QED
  BY <1>2, <1>3, <1>4, <1>5, <1>6 DEF MLStore

\* Every step.
LEMMA MLNextStore ==
    ASSUME MLTInv, [MLNext]_allVars
    PROVE  MLStore
<1>1. CASE UNCHANGED allVars
  BY <1>1 DEF MLStore, MLRedis, MLBlobs, MLTasks, MLResults, MLFaults,
     allVars, vars, storeVars, blobVars, resultVars, NoFault
<1>2. ASSUME NEW m \in Replica, MLListener(m)
      PROVE  MLStore
  BY <1>2, MLListenerStore
<1>3. ASSUME NEW m \in Replica, ReaperThread(m)
      PROVE  MLStore
  BY <1>3, MLReaperStore
<1> QED
  BY <1>1, <1>2, <1>3, OthersStore DEF MLNext, Elsewhere, MLListener

\* The store keeps its type, its tiles and the statuses that follow processing.
LEMMA MLStoreType ==
    ASSUME MLTInv, MLStore
    PROVE  /\ StoreTypeOK'
           /\ status' # "ready_for_reconstruction"
           /\ status' = "processing" => status = "processing"
           /\ tiles \subseteq tiles'
           /\ Len(log) \in Nat /\ Len(log') \in Nat /\ Len(log) <= Len(log')
<1>0. StoreTypeOK /\ pos \in [Replica -> Nat] /\ status # "ready_for_reconstruction"
  BY DEF MLTInv, MLTypeOK
<1>1. /\ status' \in Status /\ count' \in Nat /\ due' \in BOOLEAN
      /\ tiles' \in SUBSET Tile /\ attempts' \in [Tile -> Nat]
      /\ abandoned' \in SUBSET Tile /\ cleaned' \in BOOLEAN
  <2>1. CASE RedisStep
    BY <1>0, <2>1, RedisType
  <2>2. CASE /\ due' = TRUE
             /\ UNCHANGED <<status, count, tiles, attempts, abandoned, cleaned>>
    BY <1>0, <2>2 DEF StoreTypeOK
  <2> QED
    BY <2>1, <2>2 DEF MLStore, MLRedis, RedisStep, Status
<1>2. /\ status' # "ready_for_reconstruction"
      /\ status' = "processing" => status = "processing"
      /\ tiles \subseteq tiles'
  BY <1>0 DEF MLStore, MLRedis, redisVars, SetStatus, RecordTile, IncrAttempts,
     AddAbandoned, CountTile, SetLastReapTime
<1>3. taskBlob' \in SUBSET Tile /\ resultBlob' \in SUBSET Tile
  BY <1>0 DEF MLStore, MLBlobs, StoreTypeOK, PutTask
<1>4. tasks' \in [Tile -> Nat] /\ dispatched' \in [Tile -> Nat]
  <2>1. CASE UNCHANGED taskVars
    BY <1>0, <2>1 DEF StoreTypeOK, taskVars
  <2>2. ASSUME NEW t \in Tile, ProduceTask(t, TRUE) \/ ProduceTask(t, FALSE)
        PROVE  tasks' \in [Tile -> Nat] /\ dispatched' \in [Tile -> Nat]
    BY <1>0, <2>2, ProduceType
  <2>3. ASSUME NEW t \in Tile, tasks[t] > 0, CommitTask(t)
        PROVE  tasks' \in [Tile -> Nat] /\ dispatched' \in [Tile -> Nat]
    BY <1>0, <2>3 DEF StoreTypeOK, CommitTask
  <2> QED
    BY <2>1, <2>2, <2>3 DEF MLStore, MLTasks
<1>5. log \in Seq(Tile) /\ committed \in Nat
  BY <1>0 DEF StoreTypeOK
<1>6. /\ log' \in Seq(Tile)
      /\ Len(log) \in Nat /\ Len(log') \in Nat /\ Len(log) <= Len(log')
  BY <1>5 DEF MLStore, MLResults
<1>7. committed' \in Nat
  BY <1>0, <1>5 DEF MLStore, MLResults
<1>8. faults' \in Nat
  BY <1>0, FaultType DEF MLStore, MLFaults, StoreTypeOK
<1> QED
  BY <1>1, <1>2, <1>3, <1>4, <1>6, <1>7, <1>8 DEF StoreTypeOK

----------------------------------------------------------------------------
(* Types.                                                                  *)

MLConsumerPc == ConsumerPc \cup {"sweep"}

\* The conjuncts of MLTypeOK about the consumers.
MLConsumerTypeOK ==
    /\ leader \in Replica
    /\ owner \in Replica \cup {None}
    /\ cpc \in [Replica -> MLConsumerPc]
    /\ pos \in [Replica -> Nat]
    /\ distinct \in [Replica -> Nat]

\* Which steps touch the consumers, and which the reapers.
LEMMA MLFrames ==
    ASSUME [MLNext]_allVars
    PROVE  /\ \/ UNCHANGED consumerVars
              \/ \E m \in Replica : MLListener(m) \/ MLCrash(m)
           /\ \/ UNCHANGED reaperVars
              \/ \E m \in Replica : ReaperThread(m) \/ MLCrash(m)
<1>1. CASE UNCHANGED allVars
  BY <1>1 DEF allVars, vars
<1>2. CASE PublishMLTasks \/ PublishMLFails
  BY <1>2 DEF PublishMLTasks, PublishMLFails, Stage, Produce, UploadError,
     UploadCrash, masterVars
<1>3. CASE \E t \in Tile : Inferring(t)
  BY <1>3 DEF Inferring, Infer, Skip, masterVars
<1>4. CASE \E m \in Replica : MLListener(m)
  BY <1>4 DEF MLListener, MLListening, MLListenerFails
<1>5. CASE Elsewhere
  BY <1>5 DEF Elsewhere, Handoff, ReaperThread, GraceElapses, masterVars
<1> QED
  BY <1>1, <1>2, <1>3, <1>4, <1>5 DEF MLNext, MLListener

\* A listener and a crash leave the other replicas' consumers alone.
LEMMA MLListenerFrame ==
    ASSUME MLTInv, NEW m \in Replica, MLListener(m) \/ MLCrash(m),
           NEW r \in Replica, r # m
    PROVE  /\ cpc'[r] = cpc[r]
           /\ pos'[r] = pos[r]
           /\ distinct'[r] = distinct[r]
           /\ finished'[r] = finished[r]
<1>1. /\ MLConsumerTypeOK
      /\ finished \in [Replica -> Nat]
  BY DEF MLTInv, MLTypeOK, MLConsumerTypeOK, MLConsumerPc
<1> QED
  BY <1>1 DEF MLListener, MLListening, MLListenerFails, Open, Assign, Close,
     Poll, Record, Count, Hlen, GetJob, MLFlip, MLSweep, Commit, Evict,
     ConsumerError, MLSweepError, MLCrash, MasterCrash, ConsumerCrash, Goto,
     MLConsumerTypeOK

\* The results listeners.
LEMMA MLListenerType ==
    ASSUME MLTInv, NEW m \in Replica, MLListener(m) \/ MLCrash(m)
    PROVE  MLConsumerTypeOK' /\ MLPlaceInv' /\ finished' \in [Replica -> Nat]
<1>0. /\ MLConsumerTypeOK /\ StoreTypeOK
      /\ finished \in [Replica -> Nat]
  BY DEF MLTInv, MLTypeOK, MLConsumerTypeOK, MLConsumerPc
<1> USE DEF MLListener, MLListening, MLListenerFails, MLCrash, MasterCrash,
            ConsumerCrash
<1>1. leader' \in Replica
  BY <1>0 DEF MLConsumerTypeOK
<1>2. owner' \in Replica \cup {None}
  <2>1. owner' = owner \/ owner' = m \/ owner' = None
    BY DEF Open, Assign, Close, Poll, Record, Count, Hlen, GetJob, MLFlip,
           MLSweep, Commit, Evict, ConsumerError, MLSweepError
  <2> QED
    BY <1>0, <2>1 DEF MLConsumerTypeOK
<1>3. cpc' \in [Replica -> MLConsumerPc]
  <2>1. cpc' = cpc \/ \E l \in MLConsumerPc : cpc' = [cpc EXCEPT ![m] = l]
    BY DEF Open, Assign, Close, Poll, Record, Count, Hlen, GetJob, MLFlip,
           MLSweep, Commit, Evict, ConsumerError, MLSweepError, Goto,
           ConsumerPc, MLConsumerPc
  <2> QED
    BY <1>0, <2>1 DEF MLConsumerTypeOK
<1>4. pos' \in [Replica -> Nat]
  <2>1. \/ pos' = pos
        \/ pos' = [pos EXCEPT ![m] = committed]
        \/ pos' = [pos EXCEPT ![m] = @ + 1]
    BY DEF Open, Assign, Close, Poll, Record, Count, Hlen, GetJob, MLFlip,
           MLSweep, Commit, Evict, ConsumerError, MLSweepError
  <2>2. pos \in [Replica -> Nat] /\ committed \in Nat
    BY <1>0 DEF MLConsumerTypeOK, StoreTypeOK
  <2> QED
    BY ONLY <2>1, <2>2
<1>5. distinct' \in [Replica -> Nat]
  <2>1. \/ distinct' = distinct
        \/ distinct' = [distinct EXCEPT ![m] = 0]
        \/ distinct' = [distinct EXCEPT ![m] = Cardinality(tiles)]
    BY DEF Open, Assign, Close, Poll, Record, Count, Hlen, GetJob, MLFlip,
           MLSweep, Commit, Evict, ConsumerError, MLSweepError
  <2>2. Cardinality(tiles) \in Nat
    BY <1>0, TileCardinality DEF StoreTypeOK
  <2> QED
    BY <1>0, <2>1, <2>2 DEF MLConsumerTypeOK
<1>6. finished' \in [Replica -> Nat]
  <2>1. \/ finished' = finished
        \/ finished' = [finished EXCEPT ![m] = @ + 1]
        \/ finished' = [finished EXCEPT ![m] = 0]
    BY DEF MLFlip, MLSweep, MLSweepError
  <2> QED
    BY <1>0, <2>1
<1>7. MLPlaceInv'
  <2>1. Len(log) \in Nat /\ Len(log') \in Nat /\ Len(log) <= Len(log')
    BY MLListenerStore, OthersStore, MLStoreType
  <2>2. ASSUME cpc'[m] = "record"
        PROVE  pos'[m] \in 1..Len(log)
    <3>1. CASE Poll(m)
      BY <1>0, <3>1 DEF Poll, MLConsumerTypeOK
    <3>2. CASE ~Poll(m)
      <4>1. cpc[m] = "record" /\ pos'[m] = pos[m]
        BY <1>0, <2>2, <3>2 DEF Open, Assign, Close, Record, Count, Hlen,
           GetJob, MLFlip, MLSweep, Commit, Evict, ConsumerError,
           MLSweepError, Goto, MLConsumerTypeOK
      <4> QED
        BY <4>1 DEF MLTInv, MLPlaceInv
    <3> QED
      BY <3>1, <3>2
  <2>3. ASSUME NEW r \in Replica, cpc'[r] = "record"
        PROVE  pos'[r] \in 1..Len(log)
    <3>1. CASE r = m
      BY <2>2, <2>3, <3>1
    <3>2. CASE r # m
      BY <2>3, <3>2, MLListenerFrame DEF MLTInv, MLPlaceInv
    <3> QED
      BY <3>1, <3>2
  <2> QED
    BY <1>4, <2>1, <2>3 DEF MLPlaceInv
<1> QED
  BY <1>1, <1>2, <1>3, <1>4, <1>5, <1>6, <1>7 DEF MLConsumerTypeOK

\* The reapers.
LEMMA MLReaperType ==
    ASSUME MLTInv, NEW m \in Replica, ReaperThread(m) \/ MLCrash(m)
    PROVE  ReaperTypeOK'
<1>0. ReaperTypeOK
  BY DEF MLTInv, MLTypeOK
<1> USE DEF ReaperThread, ReaperStep, ReaperTypeOK, MLCrash, MasterCrash
<1>1. rpc' \in [Replica -> ReaperPc]
  <2>1. \E l \in ReaperPc : rpc' = [rpc EXCEPT ![m] = l]
    BY DEF StartSweep, ReadMissing, ReadAbandoned, Degrade, SweepDegraded,
       IncrTile, Republish, BlobGone, GiveUp, Stamp, ReaperError, Leave, At,
       NextTile, ReaperPc
  <2> QED
    BY <1>0, <2>1
<1>2. missing' \in [Replica -> SUBSET Tile]
  <2>1. \/ missing' = missing
        \/ missing' = [missing EXCEPT ![m] = {}]
        \/ missing' = [missing EXCEPT ![m] = Tile \ tiles]
    BY DEF StartSweep, ReadMissing, ReadAbandoned, Degrade, SweepDegraded,
       IncrTile, Republish, BlobGone, GiveUp, Stamp, ReaperError, Leave,
       NextTile
  <2> QED
    BY <1>0, <2>1
<1>3. todo' \in [Replica -> SUBSET Tile]
  <2>1. \/ todo' = todo
        \/ todo' = [todo EXCEPT ![m] = {}]
        \/ todo' = [todo EXCEPT ![m] = missing[m] \ abandoned]
        \/ \E t \in todo[m] : todo' = [todo EXCEPT ![m] = @ \ {t}]
    BY DEF StartSweep, ReadMissing, ReadAbandoned, Degrade, SweepDegraded,
       IncrTile, Republish, BlobGone, GiveUp, Stamp, ReaperError, Leave,
       NextTile
  <2> QED
    BY <1>0, <2>1
<1>4. rtile' \in [Replica -> SUBSET Tile]
  <2>1. \/ rtile' = rtile
        \/ rtile' = [rtile EXCEPT ![m] = {}]
        \/ \E t \in todo[m] : rtile' = [rtile EXCEPT ![m] = {t}]
    BY DEF StartSweep, ReadMissing, ReadAbandoned, Degrade, SweepDegraded,
       IncrTile, Republish, BlobGone, GiveUp, Stamp, ReaperError, Leave,
       NextTile
  <2> QED
    BY <1>0, <2>1
<1> QED
  BY <1>1, <1>2, <1>3, <1>4

\* Every step.
LEMMA MLTypeInductive ==
    ASSUME MLTInv, [MLNext]_allVars
    PROVE  MLTInv'
<1>0. MLTypeOK
  BY DEF MLTInv
<1>1. /\ StoreTypeOK' /\ status' # "ready_for_reconstruction"
      /\ Len(log) \in Nat /\ Len(log') \in Nat /\ Len(log) <= Len(log')
  BY MLNextStore, MLStoreType
<1>2. leader' \in Replica
  BY <1>0 DEF MLTypeOK, MLNext, PublishMLTasks, PublishMLFails, Stage, Produce,
     UploadError, UploadCrash, Inferring, Infer, Skip, MLListening,
     MLListenerFails, MLCrash, MasterCrash, Elsewhere,
     Handoff, ReaperThread, GraceElapses, masterVars, vars, allVars
<1>3. /\ owner' \in Replica \cup {None} /\ cpc' \in [Replica -> MLConsumerPc]
      /\ pos' \in [Replica -> Nat] /\ distinct' \in [Replica -> Nat]
      /\ MLPlaceInv'
  <2>1. CASE UNCHANGED consumerVars
    <3>1. MLPlaceInv'
      BY <1>0, <1>1, <2>1 DEF MLTInv, MLTypeOK, MLPlaceInv, consumerVars
    <3> QED
      BY <1>0, <2>1, <3>1 DEF MLTypeOK, MLConsumerPc, consumerVars
  <2> QED
    BY <2>1, MLFrames, MLListenerType DEF MLConsumerTypeOK
<1>4. ReaperTypeOK'
  <2>1. CASE UNCHANGED reaperVars
    BY <1>0, <2>1 DEF MLTypeOK, ReaperTypeOK, reaperVars
  <2> QED
    BY <2>1, MLFrames, MLReaperType
<1>5. finished' \in [Replica -> Nat]
  <2>1. \/ UNCHANGED finished
        \/ \E m \in Replica : MLListener(m) \/ MLCrash(m)
    BY DEF MLListener, MLNext, PublishMLTasks, PublishMLFails, Inferring,
       Infer, Skip, Elsewhere, mlVars, allVars
  <2> QED
    BY <1>0, <2>1, MLListenerType DEF MLTypeOK
<1>6. skipped' \in SUBSET {"message", "sweep"}
  <2>1. \/ UNCHANGED skipped
        \/ skipped' = skipped \cup {"message"}
        \/ skipped' = skipped \cup {"sweep"}
        \/ skipped' = skipped \cup {"message", "sweep"}
    BY DEF MLNext, PublishMLTasks, PublishMLFails, Inferring, Infer, Skip,
       MLListening, MLSweep, MLListenerFails, MLSweepError, MLCrash, Elsewhere,
       mlVars, allVars
  <2> QED
    BY <1>0, <2>1 DEF MLTypeOK
<1>7. upload' \in [Tile -> UploadPc]
  <2>1. CASE UNCHANGED uploadVars
    BY <1>0, <2>1 DEF MLTypeOK, uploadVars
  <2>2. CASE PublishMLTasks \/ PublishMLFails
    BY <1>0, <2>2 DEF MLTypeOK, PublishMLTasks, PublishMLFails, Stage, Produce,
       UploadError, UploadCrash, UploadPc
  <2> QED
    BY <2>1, <2>2 DEF MLNext, Inferring, Infer, Skip, MLListening,
       MLListenerFails, MLCrash, MasterCrash, Elsewhere,
       Handoff, ReaperThread, GraceElapses, vars, allVars
<1> QED
  BY <1>1, <1>2, <1>3, <1>4, <1>5, <1>6, <1>7
     DEF MLTInv, MLTypeOK, MLConsumerPc

\* Nothing is recorded yet.
LEMMA MLInitType == MLInit => MLTInv
<1> SUFFICES ASSUME MLInit
             PROVE  MLTInv
  OBVIOUS
<1>1. TypeOK
  BY InitType DEF MLInit, TInv
<1>2. status = "processing"
  BY DEF MLInit, Init, StoreInit
<1>3. MLPlaceInv
  BY DEF MLInit, Init, ConsumerInit, MLPlaceInv
<1> QED
  BY <1>1, <1>2, <1>3 DEF MLInit, MLTInv, MLTypeOK, TypeOK, ConsumerTypeOK, Status

\* Every variable of the ML pipeline keeps its type, for any number of tiles,
\* replicas and failures; above all, a detection job is never made ready for a
\* reconstruction, which nobody would do (master/ml_results_consumer.py:48-71).
THEOREM MLTypeCorrect == MLSpec => []MLTypeOK
<1>1. MLTInv => MLTypeOK
  BY DEF MLTInv
<1> QED
  BY <1>1, MLInitType, MLTypeInductive, PTL DEF MLSpec

----------------------------------------------------------------------------
(* The job is counted once, and its answer is whole.                       *)

\* A listener that is about to complete the job has not done so before: once it
\* has, the job is no longer processing, and never is again.
FinishedInv ==
    \A m \in Replica :
        /\ finished[m] <= 1
        /\ cpc[m] = "flip" => finished[m] = 0
        /\ finished[m] > 0 => status # "processing"

\* What a listener has read of the number of tiles is never too much, and a job
\* is completed when every tile is there.
WholeInv ==
    /\ \A m \in Replica :
          /\ cpc[m] = "get_job" => distinct[m] <= Cardinality(tiles)
          /\ cpc[m] = "flip" => tiles = Tile
    /\ status = "completed" => tiles = Tile

\* What a listener, or a crash, does to its own place and its own count.
LEMMA MLListenerPlace ==
    ASSUME MLTInv, NEW m \in Replica, MLListener(m) \/ MLCrash(m)
    PROVE  \/ cpc'[m] = cpc[m] /\ distinct'[m] = distinct[m] /\ finished'[m] = finished[m]
           \/ cpc'[m] \notin {"get_job", "flip"} /\ finished'[m] \in {0, finished[m]}
           \/ /\ cpc'[m] = "get_job"
              /\ distinct'[m] = Cardinality(tiles)
              /\ finished'[m] = finished[m]
           \/ /\ cpc[m] = "get_job" /\ cpc'[m] = "flip"
              /\ Complete(status, distinct[m])
              /\ finished'[m] = finished[m]
           \/ /\ cpc[m] = "flip" /\ cpc'[m] = "sweep"
              /\ status' = "completed"
              /\ finished'[m] = finished[m] + 1
<1>1. /\ MLConsumerTypeOK
      /\ finished \in [Replica -> Nat]
  BY DEF MLTInv, MLTypeOK, MLConsumerTypeOK, MLConsumerPc
<1>2. CASE MLListening(m)
  BY <1>1, <1>2 DEF MLListening, Open, Assign, Close, Poll, Record, Count,
     Hlen, GetJob, MLFlip, MLSweep, Commit, Goto, SetStatus, MLConsumerTypeOK
<1>3. CASE MLListenerFails(m)
  BY <1>1, <1>3 DEF MLListenerFails, Evict, ConsumerError, MLSweepError, Goto,
     MLConsumerTypeOK
<1>4. CASE MLCrash(m)
  BY <1>1, <1>4 DEF MLCrash, MasterCrash, ConsumerCrash, Goto,
     MLConsumerTypeOK
<1> QED
  BY <1>2, <1>3, <1>4 DEF MLListener

\* The places and the counts, in every step.
LEMMA MLPlaceNext ==
    ASSUME MLTInv, [MLNext]_allVars, NEW m \in Replica
    PROVE  \/ cpc'[m] = cpc[m] /\ distinct'[m] = distinct[m] /\ finished'[m] = finished[m]
           \/ MLListener(m) \/ MLCrash(m)
<1>1. ASSUME NEW r \in Replica, MLListener(r) \/ MLCrash(r), r # m
      PROVE  cpc'[m] = cpc[m] /\ distinct'[m] = distinct[m] /\ finished'[m] = finished[m]
  BY <1>1, MLListenerFrame
<1>2. \/ UNCHANGED <<cpc, distinct, finished>>
      \/ \E r \in Replica : MLListener(r) \/ MLCrash(r)
  <2>1. \/ UNCHANGED finished
        \/ \E r \in Replica : MLListener(r) \/ MLCrash(r)
    BY DEF MLListener, MLNext, PublishMLTasks, PublishMLFails, Inferring,
       Infer, Skip, Elsewhere, mlVars, allVars
  <2> QED
    BY <2>1, MLFrames DEF consumerVars
<1> QED
  BY <1>1, <1>2

LEMMA FinishedInductive ==
    ASSUME MLTInv, FinishedInv, [MLNext]_allVars
    PROVE  FinishedInv'
<1> SUFFICES ASSUME NEW m \in Replica
             PROVE  /\ finished'[m] <= 1
                    /\ cpc'[m] = "flip" => finished'[m] = 0
                    /\ finished'[m] > 0 => status' # "processing"
  BY DEF FinishedInv
<1>1. /\ finished[m] \in Nat
      /\ finished[m] <= 1
      /\ cpc[m] = "flip" => finished[m] = 0
      /\ finished[m] > 0 => status # "processing"
  BY DEF MLTInv, MLTypeOK, FinishedInv
<1>2. status' = "processing" => status = "processing"
  BY MLNextStore, MLStoreType
<1>3. CASE cpc'[m] = cpc[m] /\ finished'[m] = finished[m]
  BY <1>1, <1>2, <1>3
<1>4. CASE cpc'[m] # "flip" /\ finished'[m] \in {0, finished[m]}
  BY <1>1, <1>2, <1>4
<1>5. CASE Complete(status, distinct[m]) /\ finished'[m] = finished[m]
  <2>1. finished[m] = 0
    BY <1>1, <1>5 DEF Complete
  <2> QED
    BY <1>5, <2>1
<1>6. CASE /\ cpc[m] = "flip" /\ cpc'[m] = "sweep"
           /\ status' = "completed"
           /\ finished'[m] = finished[m] + 1
  <2>1. finished'[m] = 1
    BY <1>1, <1>6
  <2> QED
    BY <1>6, <2>1
<1> QED
  BY <1>3, <1>4, <1>5, <1>6, MLPlaceNext, MLListenerPlace

\* Only the listener of the ML pipeline completes a detection job.
LEMMA MLCompletedNext ==
    ASSUME [MLNext]_allVars, status' = "completed"
    PROVE  \/ status = "completed"
           \/ \E m \in Replica : /\ cpc[m] = "flip"
                                 /\ MLFlip(m) \/ "sweep" \in skipped'
<1>1. ASSUME NEW m \in Replica, ReaperThread(m)
      PROVE  status' = status \/ status' = "degraded"
  BY <1>1 DEF ReaperThread, ReaperStep, StartSweep, ReadMissing,
     ReadAbandoned, Degrade, SweepDegraded, IncrTile, Republish, BlobGone,
     GiveUp, Stamp, ReaperError, storeVars, redisVars, SetStatus,
     IncrAttempts, AddAbandoned, SetLastReapTime
<1>2. ASSUME NEW m \in Replica, MLListener(m)
      PROVE  \/ status' = status
             \/ cpc[m] = "flip" /\ (MLFlip(m) \/ "sweep" \in skipped')
  BY <1>2 DEF MLListener, MLListening, MLListenerFails, Open, Assign, Close,
     Poll, Record, Count, Hlen, GetJob, MLFlip, MLSweep, Commit, Evict,
     ConsumerError, MLSweepError, storeVars, redisVars, RecordTile, CountTile
<1>3. CASE UNCHANGED redisVars \/ GraceElapses \/ UNCHANGED allVars
  BY <1>3 DEF redisVars, GraceElapses, allVars, vars, storeVars
<1> QED
  BY <1>1, <1>2, <1>3 DEF MLNext, PublishMLTasks, PublishMLFails, Stage,
     Produce, UploadError, UploadCrash, Inferring, Infer, Skip, MLListener,
     MLCrash, MasterCrash, Elsewhere, Handoff

LEMMA WholeInductive ==
    ASSUME MLTInv, WholeInv, [MLNext]_allVars
    PROVE  WholeInv'
<1>1. tiles \in SUBSET Tile /\ tiles' \in SUBSET Tile /\ tiles \subseteq tiles'
  <2>1. StoreTypeOK /\ StoreTypeOK' /\ tiles \subseteq tiles'
    BY MLNextStore, MLStoreType DEF MLTInv, MLTypeOK
  <2> QED
    BY <2>1 DEF StoreTypeOK
<1>2. /\ Cardinality(tiles) \in Nat /\ Cardinality(tiles') \in Nat
      /\ Cardinality(tiles) <= Cardinality(tiles')
  BY <1>1, TileCardinality
<1>3. tiles = Tile => tiles' = Tile
  BY <1>1
<1>4. ASSUME NEW m \in Replica
      PROVE  /\ cpc'[m] = "get_job" => distinct'[m] <= Cardinality(tiles')
             /\ cpc'[m] = "flip" => tiles' = Tile
  <2>1. /\ cpc[m] = "get_job" => distinct[m] <= Cardinality(tiles)
        /\ cpc[m] = "flip" => tiles = Tile
    BY DEF WholeInv
  <2>2. distinct[m] \in Nat
    BY DEF MLTInv, MLTypeOK
  <2>3. CASE cpc'[m] = cpc[m] /\ distinct'[m] = distinct[m]
    BY <1>2, <1>3, <2>1, <2>2, <2>3
  <2>4. CASE cpc'[m] \notin {"get_job", "flip"}
    BY <2>4
  <2>5. CASE cpc'[m] = "get_job" /\ distinct'[m] = Cardinality(tiles)
    BY <1>2, <2>5
  <2>6. CASE cpc[m] = "get_job" /\ cpc'[m] = "flip" /\ Complete(status, distinct[m])
    <3>1. distinct[m] >= Cardinality(Tile)
      BY <2>6 DEF Complete, expected_tiles
    <3>2. Cardinality(Tile) \in Nat
      BY FS_CardinalityType, JobStoreAssumption
    <3>3. Cardinality(tiles) >= Cardinality(Tile)
      BY <1>2, <2>1, <2>2, <2>6, <3>1, <3>2
    <3>4. /\ Cardinality(tiles) <= Cardinality(Tile)
          /\ Cardinality(Tile) = Cardinality(tiles) => tiles = Tile
      BY <1>1, FS_Subset, JobStoreAssumption
    <3>5. tiles = Tile
      BY <1>2, <3>2, <3>3, <3>4
    <3> QED
      BY <1>3, <2>6, <3>5
  <2> QED
    BY <2>3, <2>4, <2>5, <2>6, MLPlaceNext, MLListenerPlace
<1>5. status' = "completed" => tiles' = Tile
  <2>1. CASE status = "completed"
    BY <1>3, <2>1 DEF WholeInv
  <2>2. ASSUME NEW m \in Replica, cpc[m] = "flip"
        PROVE  tiles' = Tile
    BY <1>3, <2>2 DEF WholeInv
  <2> QED
    BY <2>1, <2>2, MLCompletedNext
<1> QED
  BY <1>4, <1>5 DEF WholeInv

\* A replica counts the job as completed once, for any number of tiles, replicas,
\* redeliveries and failures (master/ml_results_consumer.py:48-57).
THEOREM FinishedTheorem == MLSpec => []FinishedOnce
<1>1. MLInit => FinishedInv
  BY DEF MLInit, Init, ConsumerInit, FinishedInv
<1>2. MLTInv /\ FinishedInv => FinishedOnce
  BY DEF FinishedInv, FinishedOnce
<1>3. MLTInv /\ FinishedInv /\ [MLNext]_allVars => MLTInv' /\ FinishedInv'
  BY MLTypeInductive, FinishedInductive
<1> QED
  BY <1>1, <1>2, <1>3, MLInitType, PTL DEF MLSpec

----------------------------------------------------------------------------
(* A detection job with every tile recorded is decided on.                 *)

\* The results topic, and what is done to it.
LEMMA MLTopic ==
    ASSUME MLTInv, [MLNext]_allVars
    PROVE  /\ Len(log') \in Nat /\ Len(log) <= Len(log')
           /\ \A i \in 1..Len(log) : log'[i] = log[i]
           /\ ~cleaned' => ~cleaned /\ tiles \subseteq tiles'
           /\ status' = "processing" => status = "processing"
           /\ skipped \subseteq skipped'
<1>1. MLStore
  BY MLNextStore
<1>2. log \in Seq(Tile)
  BY DEF MLTInv, MLTypeOK, StoreTypeOK
<1>3. \A i \in 1..Len(log) : log'[i] = log[i]
  BY <1>1, <1>2 DEF MLStore, MLResults
<1>4. cleaned' = cleaned
  BY <1>1 DEF MLStore, MLRedis, redisVars, SetStatus, RecordTile,
     IncrAttempts, AddAbandoned, CountTile, SetLastReapTime
<1>5. skipped \subseteq skipped'
  BY DEF MLNext, PublishMLTasks, PublishMLFails, Inferring, Infer, Skip,
     MLListening, MLSweep, MLListenerFails, MLSweepError, MLCrash, Elsewhere,
     mlVars, allVars
<1> QED
  BY <1>1, <1>3, <1>4, <1>5, MLStoreType

\* Only the owner of the partition commits, what it has read.
LEMMA MLCommittedNext ==
    ASSUME [MLNext]_allVars
    PROVE  \/ committed' = committed
           \/ \E m \in Replica : Commit(m) /\ owner = m /\ committed' = pos[m]
<1>1. ASSUME NEW m \in Replica, MLListener(m)
      PROVE  \/ committed' = committed
             \/ Commit(m) /\ owner = m /\ committed' = pos[m]
  BY <1>1 DEF MLListener, MLListening, MLListenerFails, Open, Assign, Close,
     Poll, Record, Count, Hlen, GetJob, MLFlip, MLSweep, Commit, Evict,
     ConsumerError, MLSweepError, storeVars, resultVars
<1>2. ASSUME NEW m \in Replica, ReaperThread(m)
      PROVE  committed' = committed
  BY <1>2 DEF ReaperThread, ReaperStep, StartSweep, ReadMissing,
     ReadAbandoned, Degrade, SweepDegraded, IncrTile, Republish, BlobGone,
     GiveUp, Stamp, ReaperError, storeVars, resultVars
<1> QED
  BY <1>1, <1>2 DEF MLNext, MLListener, PublishMLTasks, PublishMLFails, Stage,
     Produce, UploadError, UploadCrash, Inferring, Infer, Skip, MLCrash,
     MasterCrash, Elsewhere, Handoff, GraceElapses,
     allVars, vars, storeVars, resultVars

\* The owner of the partition has just been assigned it, or was its owner.
LEMMA MLOwnerNext ==
    ASSUME MLTInv, [MLNext]_allVars, NEW m \in Replica, owner' = m
    PROVE  \/ Assign(m)
           \/ owner = m /\ MLListener(m)
           \/ /\ owner = m
              /\ cpc'[m] = cpc[m] /\ pos'[m] = pos[m] /\ distinct'[m] = distinct[m]
<1>1. owner \in Replica \cup {None}
  BY DEF MLTInv, MLTypeOK
<1>2. CASE UNCHANGED consumerVars
  BY <1>2 DEF consumerVars
<1>3. ASSUME NEW r \in Replica, MLListener(r) \/ MLCrash(r), r # m
      PROVE  /\ owner = m
             /\ cpc'[m] = cpc[m] /\ pos'[m] = pos[m] /\ distinct'[m] = distinct[m]
  <2>1. owner = m
    BY <1>1, <1>3, PipelineAssumption
       DEF MLListener, MLListening, MLListenerFails, Open, Assign, Close,
           Poll, Record, Count, Hlen, GetJob, MLFlip, MLSweep, Commit, Evict,
           ConsumerError, MLSweepError, MLCrash, MasterCrash, ConsumerCrash
  <2> QED
    BY <1>3, <2>1, MLListenerFrame
<1>4. CASE MLListener(m)
  BY <1>1, <1>4, PipelineAssumption
     DEF MLListener, MLListening, MLListenerFails, Open, Close, Poll, Record,
         Count, Hlen, GetJob, MLFlip, MLSweep, Commit, Evict, ConsumerError,
         MLSweepError
<1>5. CASE MLCrash(m)
  BY <1>1, <1>5, PipelineAssumption DEF MLCrash, MasterCrash, ConsumerCrash
<1> QED
  BY <1>2, <1>3, <1>4, <1>5, MLFrames

\* Only a listener that records it makes the last tile arrive.
LEMMA MLLastTile ==
    ASSUME [MLNext]_allVars, tiles' # tiles
    PROVE  \E p \in Replica : Record(p) /\ MLListener(p)
<1>1. ASSUME NEW m \in Replica, ReaperThread(m)
      PROVE  tiles' = tiles
  BY <1>1 DEF ReaperThread, ReaperStep, StartSweep, ReadMissing, ReadAbandoned,
     Degrade, SweepDegraded, IncrTile, Republish, BlobGone, GiveUp, Stamp,
     ReaperError, storeVars, redisVars, SetStatus, IncrAttempts, AddAbandoned,
     SetLastReapTime
<1>2. ASSUME NEW m \in Replica, MLListener(m), ~Record(m)
      PROVE  tiles' = tiles
  BY <1>2 DEF MLListener, MLListening, MLListenerFails, Open, Assign, Close,
     Poll, Count, Hlen, GetJob, MLFlip, MLSweep, Commit, Evict, ConsumerError,
     MLSweepError, storeVars, redisVars, SetStatus, CountTile
<1>3. \/ tiles' = tiles
      \/ \E m \in Replica : MLListener(m)
      \/ \E m \in Replica : ReaperThread(m)
  BY DEF MLNext, MLListener, PublishMLTasks, PublishMLFails, Stage, Produce,
     UploadError, UploadCrash, Inferring, Infer, Skip, MLCrash, MasterCrash,
     Elsewhere, Handoff, GraceElapses, allVars, vars,
     storeVars, redisVars
<1> QED
  BY <1>1, <1>2, <1>3

\* Every step, unless a listener swallows an exception on a message.
LEMMA MLNextHandled ==
    ASSUME MLTInv, [MLNext]_allVars, "message" \notin skipped'
    PROVE  Handled
<1>1. /\ owner \in Replica \cup {None}
      /\ cpc \in [Replica -> MLConsumerPc]
      /\ pos \in [Replica -> Nat]
      /\ distinct \in [Replica -> Nat]
  BY DEF MLTInv, MLTypeOK, MLConsumerPc
<1>2. ASSUME NEW m \in Replica, owner' = m
      PROVE  pos'[m] = committed \/ (owner = m /\ Advances(m))
  <2>1. CASE Assign(m)
    BY <1>1, <2>1 DEF Assign
  <2>2. CASE owner = m /\ MLListener(m)
    <3>1. ~Assign(m) /\ ~Close(m) /\ ~Evict(m)
      BY <1>1, <1>2, <2>2, PipelineAssumption DEF Assign, Close, Evict
    <3>2. CASE MLListening(m)
      BY <1>1, <2>2, <3>1, <3>2
         DEF Advances, MLListening, Open, Poll, Record, RecordTile, Current,
             Count, Hlen, GetJob, MLFlip, MLSweep, SetStatus, Commit, Goto
    <3>3. CASE MLListenerFails(m)
      <4>1. MLSweepError(m)
        BY <3>1, <3>3 DEF MLListenerFails
      <4> QED
        BY <1>1, <2>2, <4>1 DEF MLSweepError, Goto, Advances
    <3> QED
      BY <2>2, <3>2, <3>3 DEF MLListener
  <2>3. CASE /\ owner = m
             /\ cpc'[m] = cpc[m] /\ pos'[m] = pos[m] /\ distinct'[m] = distinct[m]
    BY <2>3 DEF Advances
  <2> QED
    BY <1>2, <2>1, <2>2, <2>3, MLOwnerNext
<1>3. ASSUME tiles' = Tile, tiles # Tile
      PROVE  \E p \in Replica : Records(p)
  <2>1. PICK p \in Replica : Record(p) /\ MLListener(p)
    BY <1>3, MLLastTile
  <2>2. \A m \in Replica : m # p => cpc'[m] = cpc[m]
    BY <2>1, MLListenerFrame
  <2> QED
    BY <1>1, <2>1, <2>2 DEF Records, Record, RecordTile, Current, Goto, resultVars
<1>4. \/ committed' = committed
      \/ \E m \in Replica : cpc[m] = "commit" /\ owner = m /\ committed' = pos[m]
  BY MLCommittedNext DEF Commit
<1> QED
  BY <1>2, <1>3, <1>4, MLTopic DEF Handled

\* As long as no listener has swallowed an exception on a message, a job that
\* has every tile is not left to nobody.
MLReadyIsOwed == "message" \notin skipped => ReadyIsOwed

\* The safety half of MLJobSettles: crashes, handoffs, evictions and failed
\* commits leave no complete detection job behind.  An uncommitted message
\* remains, and whoever has the partition, or gets it, decides on it
\* (master/ml_results_consumer.py:48-71, 104-110).
THEOREM CompleteMLJobIsDecided == MLSpec => []MLReadyIsOwed
<1> DEFINE Inv == "message" \notin skipped => CommitInv /\ ReadyIsOwed
<1>1. MLInit => Inv
  <2> SUFFICES ASSUME MLInit
               PROVE  CommitInv /\ ReadyIsOwed
    OBVIOUS
  <2>1. Len(log) = 0 /\ committed = 0 /\ owner = None /\ tiles = {}
    BY DEF MLInit, Init, StoreInit, ConsumerInit
  <2> QED
    BY <2>1, JobStoreAssumption, PipelineAssumption
       DEF CommitInv, CommittedIsRecorded, ReadyIsOwed
<1>2. MLTInv => HandlingType
  BY DEF MLTInv, MLTypeOK, StoreTypeOK, MLPlaceInv, HandlingType
<1>3. MLTInv /\ Inv /\ [MLNext]_allVars => MLTInv' /\ Inv'
  <2> SUFFICES ASSUME MLTInv, Inv, [MLNext]_allVars, "message" \notin skipped'
               PROVE  CommitInv' /\ ReadyIsOwed'
    BY MLTypeInductive
  <2>1. CommitInv /\ ReadyIsOwed
    BY MLTopic
  <2> QED
    BY <1>2, <2>1, MLNextHandled, CommitStep, OwedStep
<1>4. Inv => MLReadyIsOwed
  BY DEF MLReadyIsOwed
<1> QED
  BY <1>1, <1>3, <1>4, MLInitType, PTL DEF MLSpec

----------------------------------------------------------------------------
(* Somebody still has to sweep the blobs of a completed job.               *)

\* A tile that is not staged yet has left nothing anywhere.
StagedFirst ==
    \A t \in Tile : upload[t] = "stage" =>
        /\ t \notin taskBlob /\ t \notin tiles
        /\ \A i \in 1..Len(log) : log[i] # t

\* The blobs of a completed job are gone, or a listener is about to delete them,
\* or an exception, a crash or an error of MinIO has cut that short.
SweepIsOwed ==
    status = "completed" /\ "sweep" \notin skipped =>
        taskBlob = {} \/ \E m \in Replica : cpc[m] = "sweep"

\* Only the upload stages a tile, and it goes on from there.
LEMMA MLUploadNext ==
    ASSUME MLTInv, [MLNext]_allVars, NEW t \in Tile
    PROVE  /\ upload'[t] = "stage" => upload[t] = "stage"
           /\ t \in taskBlob' => t \in taskBlob \/ (Stage(t) /\ upload'[t] # "stage")
<1>1. /\ upload \in [Tile -> UploadPc]
      /\ taskBlob \in SUBSET Tile
  BY DEF MLTInv, MLTypeOK, StoreTypeOK
<1>2. ASSUME NEW u \in Tile, Stage(u) \/ Produce(u) \/ UploadError(u) \/ UploadCrash
      PROVE  /\ upload'[t] = "stage" => upload[t] = "stage"
             /\ t \in taskBlob' => t \in taskBlob \/ (Stage(t) /\ upload'[t] # "stage")
  BY <1>1, <1>2 DEF Stage, Produce, UploadError, UploadCrash, PutTask, blobVars
<1>3. ASSUME NEW m \in Replica, MLListener(m)
      PROVE  upload' = upload /\ taskBlob' \subseteq taskBlob
  BY <1>3 DEF MLListener, MLListening, MLListenerFails, Open, Assign, Close,
     Poll, Record, Count, Hlen, GetJob, MLFlip, MLSweep, Commit, Evict,
     ConsumerError, MLSweepError, SweepBlobs, uploadVars, storeVars, blobVars
<1>4. ASSUME NEW m \in Replica, ReaperThread(m)
      PROVE  upload' = upload /\ taskBlob' \subseteq taskBlob
  BY <1>4 DEF ReaperThread, ReaperStep, StartSweep, ReadMissing,
     ReadAbandoned, Degrade, SweepDegraded, IncrTile, Republish, BlobGone,
     GiveUp, Stamp, ReaperError, SweepBlobs, uploadVars, storeVars, blobVars
<1>5. \/ upload' = upload /\ taskBlob' \subseteq taskBlob
      \/ \E m \in Replica : MLListener(m) \/ ReaperThread(m)
      \/ \E u \in Tile : Stage(u) \/ Produce(u) \/ UploadError(u) \/ UploadCrash
  BY DEF MLNext, MLListener, PublishMLTasks, PublishMLFails, Inferring, Infer,
     Skip, MLCrash, MasterCrash, Elsewhere, Handoff,
     GraceElapses, allVars, vars, storeVars, blobVars, uploadVars
<1> QED
  BY <1>2, <1>3, <1>4, <1>5

\* A message is about a tile whose input was there.
LEMMA MLLogNext ==
    ASSUME MLTInv, [MLNext]_allVars
    PROVE  log' = log \/ \E t \in taskBlob : log' = Append(log, t)
<1>1. ASSUME NEW m \in Replica, MLListener(m)
      PROVE  log' = log
  BY <1>1 DEF MLListener, MLListening, MLListenerFails, Open, Assign, Close,
     Poll, Record, Count, Hlen, GetJob, MLFlip, MLSweep, Commit, Evict,
     ConsumerError, MLSweepError, storeVars, resultVars
<1>2. ASSUME NEW m \in Replica, ReaperThread(m)
      PROVE  log' = log
  BY <1>2 DEF ReaperThread, ReaperStep, StartSweep, ReadMissing,
     ReadAbandoned, Degrade, SweepDegraded, IncrTile, Republish, BlobGone,
     GiveUp, Stamp, ReaperError, storeVars, resultVars
<1>3. ASSUME NEW t \in Tile, Inferring(t)
      PROVE  log' = log \/ (t \in taskBlob /\ log' = Append(log, t))
  BY <1>3 DEF Inferring, Infer, Skip, resultVars
<1> QED
  BY <1>1, <1>2, <1>3 DEF MLNext, MLListener, PublishMLTasks, PublishMLFails,
     Stage, Produce, UploadError, UploadCrash, MLCrash, MasterCrash,
     Elsewhere, Handoff, GraceElapses, allVars, vars,
     storeVars, resultVars

LEMMA StagedInductive ==
    ASSUME MLTInv, StagedFirst, [MLNext]_allVars
    PROVE  StagedFirst'
<1> SUFFICES ASSUME NEW t \in Tile, upload'[t] = "stage"
             PROVE  /\ t \notin taskBlob' /\ t \notin tiles'
                    /\ \A i \in 1..Len(log') : log'[i] # t
  BY DEF StagedFirst
<1>1. /\ t \notin taskBlob /\ t \notin tiles
      /\ \A i \in 1..Len(log) : log[i] # t
  BY MLUploadNext DEF StagedFirst
<1>2. t \notin taskBlob'
  BY <1>1, MLUploadNext
<1>3. t \notin tiles'
  <2>1. CASE tiles' # tiles
    <3>1. PICK p \in Replica : Record(p) /\ MLListener(p)
      BY <2>1, MLLastTile
    <3>2. tiles' = tiles \cup {log[pos[p]]} /\ cpc[p] = "record"
      BY <3>1 DEF Record, RecordTile, Current
    <3>3. pos[p] \in 1..Len(log)
      BY <3>2 DEF MLTInv, MLPlaceInv
    <3> QED
      BY <1>1, <3>2, <3>3
  <2> QED
    BY <1>1, <2>1
<1>4. \A i \in 1..Len(log') : log'[i] # t
  <2>1. log \in Seq(Tile)
    BY DEF MLTInv, MLTypeOK, StoreTypeOK
  <2>2. taskBlob \in SUBSET Tile
    BY DEF MLTInv, MLTypeOK, StoreTypeOK
  <2>3. ASSUME NEW u \in taskBlob, log' = Append(log, u), NEW i \in 1..Len(log')
        PROVE  log'[i] # t
    <3>1. u # t /\ u \in Tile
      BY <1>1, <2>2
    <3>2. (i \in 1..Len(log) /\ log'[i] = log[i]) \/ log'[i] = u
      BY <2>1, <2>3, <3>1
    <3> QED
      BY <1>1, <3>1, <3>2
  <2> QED
    BY <1>1, <2>3, MLLogNext
<1> QED
  BY <1>2, <1>3, <1>4

\* Who leaves the sweep has done it, or was cut short.
LEMMA MLSweepNext ==
    ASSUME MLTInv, [MLNext]_allVars, NEW m \in Replica, cpc[m] = "sweep"
    PROVE  cpc'[m] = "sweep" \/ taskBlob' = {} \/ "sweep" \in skipped'
<1>1. CASE MLListening(m)
  BY <1>1 DEF MLListening, Open, Assign, Close, Poll, Record, Count, Hlen,
     GetJob, MLFlip, MLSweep, SweepBlobs, Commit
<1>2. CASE MLListenerFails(m)
  BY <1>2 DEF MLListenerFails, Evict, ConsumerError, MLSweepError
<1>3. CASE MLCrash(m)
  BY <1>3 DEF MLCrash
<1> QED
  BY <1>1, <1>2, <1>3, MLPlaceNext DEF MLListener

LEMMA SweepInductive ==
    ASSUME MLTInv, WholeInv, StagedFirst, SweepIsOwed, [MLNext]_allVars
    PROVE  SweepIsOwed'
<1> SUFFICES ASSUME status' = "completed", "sweep" \notin skipped'
             PROVE  taskBlob' = {} \/ \E m \in Replica : cpc'[m] = "sweep"
  BY DEF SweepIsOwed
<1>1. CASE \E m \in Replica : MLFlip(m)
  <2>1. cpc \in [Replica -> MLConsumerPc]
    BY DEF MLTInv, MLTypeOK, MLConsumerPc
  <2> QED
    BY <1>1, <2>1 DEF MLFlip, Goto
<1>2. CASE status = "completed"
  <2>1. "sweep" \notin skipped
    BY MLTopic
  <2>2. CASE taskBlob = {}
    <3>1. tiles = Tile
      BY <1>2 DEF WholeInv
    <3>2. taskBlob' \in SUBSET Tile
      BY MLTypeInductive DEF MLTInv, MLTypeOK, StoreTypeOK
    <3>3. \A t \in Tile : ~Stage(t)
      BY <3>1 DEF Stage, StagedFirst
    <3> QED
      BY <2>2, <3>2, <3>3, MLUploadNext
  <2>3. CASE \E m \in Replica : cpc[m] = "sweep"
    BY <2>3, MLSweepNext
  <2> QED
    BY <1>2, <2>1, <2>2, <2>3 DEF SweepIsOwed
<1> QED
  BY <1>1, <1>2, MLCompletedNext

\* The safety half of BlobsSwept: as long as the blobs of a completed job are
\* there, a listener is about to delete them, unless an exception, a crash or an
\* error of MinIO has cut the sweep short; and no late upload stages another one
\* (master/ml_results_consumer.py:55-71).
THEOREM CompletedIsSwept == MLSpec => []SweepIsOwed
<1>1. MLInit => WholeInv /\ StagedFirst /\ SweepIsOwed
  <2> SUFFICES ASSUME MLInit
               PROVE  WholeInv /\ StagedFirst /\ SweepIsOwed
    OBVIOUS
  <2>1. Len(log) = 0
    BY DEF MLInit, Init, StoreInit
  <2> QED
    BY <2>1 DEF MLInit, Init, StoreInit, ConsumerInit, WholeInv, StagedFirst,
       SweepIsOwed
<1>2. MLTInv /\ WholeInv /\ StagedFirst /\ SweepIsOwed /\ [MLNext]_allVars
         => MLTInv' /\ WholeInv' /\ StagedFirst' /\ SweepIsOwed'
  BY MLTypeInductive, WholeInductive, StagedInductive, SweepInductive
<1> QED
  BY <1>1, <1>2, MLInitType, PTL DEF MLSpec
----------------------------------------------------------------------------
(* The inputs of the tiles outlive the processing here too.                *)

\* A tile that is staged but not produced has its input as well, and whoever is
\* about to sweep the blobs, a reaper or a listener, has seen the job leave the
\* status, which no step goes back to.
MLSourceInv ==
    /\ status = "processing" =>
          \A t \in Tile :
             dispatched[t] > 0 \/ upload[t] = "produce" => t \in taskBlob
    /\ \A m \in Replica :
          rpc[m] = "sweep" \/ cpc[m] = "sweep" => status # "processing"

\* A listener and a reaper come to their sweep with the status already changed.
LEMMA MLSweepFollows ==
    ASSUME MLTInv, MLSourceInv, [MLNext]_allVars, NEW m \in Replica,
           rpc'[m] = "sweep" \/ cpc'[m] = "sweep"
    PROVE  status' # "processing"
<1>1. /\ cpc \in [Replica -> MLConsumerPc]
      /\ ReaperTypeOK
  BY DEF MLTInv, MLTypeOK, MLConsumerPc
<1>2. status' = "processing" => status = "processing"
  BY MLTopic
<1>3. CASE cpc'[m] = "sweep"
  <2>1. ASSUME NEW r \in Replica, MLListener(r) \/ MLCrash(r)
        PROVE  cpc[m] = "sweep" \/ (r = m /\ MLFlip(m))
    BY <1>1, <1>3, <2>1 DEF MLListener, MLListening, MLListenerFails, MLCrash,
       MasterCrash, ConsumerCrash, Open, Assign, Close, Poll, Record, Count,
       Hlen, GetJob, MLFlip, MLSweep, Commit, Evict, ConsumerError,
       MLSweepError, Goto
  <2>2. cpc[m] = "sweep" \/ MLFlip(m)
    BY <1>3, <2>1, MLFrames DEF consumerVars
  <2> QED
    BY <1>2, <2>2 DEF MLSourceInv, MLFlip, SetStatus
<1>4. CASE rpc'[m] = "sweep"
  <2>1. ASSUME NEW r \in Replica, ReaperThread(r)
        PROVE  rpc[m] = "sweep" \/ (r = m /\ Degrade(m))
    BY <1>1, <1>4, <2>1 DEF ReaperThread, ReaperStep, StartSweep, ReadMissing,
       ReadAbandoned, Degrade, SweepDegraded, IncrTile, Republish, BlobGone,
       GiveUp, Stamp, ReaperError, Leave, At, NextTile, ReaperTypeOK
  <2>2. ASSUME NEW r \in Replica, MLCrash(r)
        PROVE  rpc[m] = "sweep"
    BY <1>1, <1>4, <2>2 DEF MLCrash, MasterCrash, Leave, ReaperTypeOK
  <2>3. rpc[m] = "sweep" \/ Degrade(m)
    BY <1>4, <2>1, <2>2, MLFrames DEF reaperVars
  <2> QED
    BY <1>2, <2>3 DEF MLSourceInv, Degrade, SetStatus
<1> QED
  BY <1>3, <1>4

\* No step deletes an input of a job that is processing and stays so.
LEMMA MLInputsStay ==
    ASSUME MLTInv, MLSourceInv, [MLNext]_allVars, status = "processing"
    PROVE  taskBlob \subseteq taskBlob'
<1>1. ASSUME NEW m \in Replica
      PROVE  rpc[m] # "sweep" /\ cpc[m] # "sweep"
  BY DEF MLSourceInv
<1>2. ASSUME NEW m \in Replica, MLListener(m)
      PROVE  taskBlob' = taskBlob
  BY <1>1, <1>2 DEF MLListener, MLListening, MLListenerFails, Open, Assign,
     Close, Poll, Record, Count, Hlen, GetJob, MLFlip, MLSweep, Commit, Evict,
     ConsumerError, MLSweepError, storeVars, blobVars
<1>3. ASSUME NEW m \in Replica, ReaperThread(m)
      PROVE  taskBlob' = taskBlob
  BY <1>1, <1>3 DEF ReaperThread, ReaperStep, StartSweep, ReadMissing,
     ReadAbandoned, Degrade, SweepDegraded, IncrTile, Republish, BlobGone,
     GiveUp, Stamp, ReaperError, storeVars, blobVars
<1>4. CASE PublishMLTasks \/ PublishMLFails
  BY <1>4 DEF PublishMLTasks, PublishMLFails, Stage, PutTask, Produce,
     UploadError, UploadCrash, blobVars
<1> QED
  BY <1>2, <1>3, <1>4 DEF MLNext, MLListener, Inferring, Infer, Skip, MLCrash,
     MasterCrash, Elsewhere, Handoff, GraceElapses, allVars, vars, storeVars,
     blobVars

\* A task is produced by the upload, which has staged it, or by a reaper, which
\* has found its input.
LEMMA MLDispatchNext ==
    ASSUME MLTInv, [MLNext]_allVars, NEW t \in Tile
    PROVE  /\ dispatched'[t] = dispatched[t] \/ upload[t] = "produce" \/ t \in taskBlob
           /\ upload'[t] = "produce" => upload[t] = "produce" \/ t \in taskBlob'
<1>1. /\ dispatched \in [Tile -> Nat]
      /\ upload \in [Tile -> UploadPc]
  BY DEF MLTInv, MLTypeOK, StoreTypeOK
<1>2. CASE PublishMLTasks
  <2>1. PICK u \in Tile : Stage(u) \/ Produce(u)
    BY <1>2 DEF PublishMLTasks
  <2>2. CASE Stage(u)
    BY <1>1, <2>2 DEF Stage, PutTask, taskVars
  <2>3. CASE Produce(u)
    <3>1. dispatched' = [dispatched EXCEPT ![u] = @ + 1] /\ upload[u] = "produce"
      BY <2>3 DEF Produce, ProduceTask
    <3>2. upload' = [upload EXCEPT ![u] = "done"]
      BY <2>3 DEF Produce
    <3> QED
      BY <1>1, <3>1, <3>2
  <2> QED
    BY <2>1, <2>2, <2>3
<1>3. CASE PublishMLFails
  BY <1>1, <1>3 DEF PublishMLFails, UploadError, UploadCrash, taskVars
<1>4. ASSUME NEW m \in Replica, ReaperThread(m)
      PROVE  /\ dispatched'[t] = dispatched[t] \/ t \in taskBlob
             /\ upload' = upload
  <2>1. upload' = upload
    BY <1>4 DEF ReaperThread, uploadVars
  <2>2. CASE Republish(m)
    <3>1. PICK u \in rtile[m] : dispatched' = [dispatched EXCEPT ![u] = @ + 1]
      BY <2>2 DEF Republish, ProduceTask
    <3>2. u \in taskBlob
      BY <2>2 DEF Republish
    <3> QED
      BY <1>1, <2>1, <3>1, <3>2
  <2>3. CASE ~Republish(m)
    BY <1>4, <2>1, <2>3 DEF ReaperThread, ReaperStep, StartSweep, ReadMissing,
       ReadAbandoned, Degrade, SweepDegraded, IncrTile, BlobGone, GiveUp,
       Stamp, ReaperError, storeVars, taskVars
  <2> QED
    BY <2>2, <2>3
<1>5. ASSUME NEW m \in Replica, MLListener(m)
      PROVE  UNCHANGED <<dispatched, upload>>
  BY <1>5 DEF MLListener, MLListening, MLListenerFails, Open, Assign, Close,
     Poll, Record, Count, Hlen, GetJob, MLFlip, MLSweep, Commit, Evict,
     ConsumerError, MLSweepError, storeVars, taskVars, uploadVars
<1>6. ASSUME NEW u \in Tile, Inferring(u)
      PROVE  UNCHANGED <<dispatched, upload>>
  BY <1>6 DEF Inferring, Infer, Skip, CommitTask, taskVars, uploadVars
<1> QED
  BY <1>2, <1>3, <1>4, <1>5, <1>6 DEF MLNext, MLListener, MLCrash,
     MasterCrash, Elsewhere, Handoff, GraceElapses, allVars, vars, storeVars,
     taskVars, uploadVars

LEMMA MLSourceInductive ==
    ASSUME MLTInv, MLSourceInv, [MLNext]_allVars
    PROVE  MLSourceInv'
<1>1. ASSUME status' = "processing", NEW t \in Tile,
             dispatched'[t] > 0 \/ upload'[t] = "produce"
      PROVE  t \in taskBlob'
  <2>1. status = "processing"
    BY <1>1, MLTopic
  <2>2. dispatched[t] > 0 \/ upload[t] = "produce" \/ t \in taskBlob \/ t \in taskBlob'
    BY <1>1, MLDispatchNext
  <2> QED
    BY <2>1, <2>2, MLInputsStay DEF MLSourceInv
<1> QED
  BY <1>1, MLSweepFollows DEF MLSourceInv

\* As long as a detection job is processing, the input of every tile that was
\* ever produced is in the object store, so that a retry of it can succeed: the
\* listener and the reapers sweep only after the status has changed for good,
\* whatever they raise and whoever else is about it
\* (master/ml_results_consumer.py:55-71, master/reaper.py:179-188).
THEOREM MLRetriesHaveTheirSource == MLSpec => []SourceKept
<1>1. MLInit => MLSourceInv
  BY DEF MLInit, Init, StoreInit, ConsumerInit, ReaperInit, MLSourceInv
<1>2. MLSourceInv => SourceKept
  BY DEF MLSourceInv, SourceKept
<1>3. MLTInv /\ MLSourceInv /\ [MLNext]_allVars => MLTInv' /\ MLSourceInv'
  BY MLTypeInductive, MLSourceInductive
<1> QED
  BY <1>1, <1>2, <1>3, MLInitType, PTL DEF MLSpec
=============================================================================
