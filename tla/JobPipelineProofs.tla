------------------------- MODULE JobPipelineProofs --------------------------
(***************************************************************************)
(* Proofs about JobPipeline, for every number of tiles, master replicas,   *)
(* requests and failures.                                                  *)
(***************************************************************************)
EXTENDS JobPipeline, FiniteSetTheorems, TLAPS

\* The message a listener is recording is one of the log; a worker that holds
\* a result has not committed its task.
PlaceInv ==
    /\ \A m \in Replica : cpc[m] = "record" => pos[m] \in 1..Len(log)
    /\ \A t \in ready : tasks[t] > 0

TInv == TypeOK /\ PlaceInv

\* Producing a task counts one more dispatch and loses no other copy.
LEMMA ProduceType ==
    ASSUME StoreTypeOK, NEW t \in Tile,
           ProduceTask(t, TRUE) \/ ProduceTask(t, FALSE)
    PROVE  /\ tasks' \in [Tile -> Nat]
           /\ dispatched' \in [Tile -> Nat]
           /\ \A u \in Tile : tasks'[u] >= tasks[u]
<1>1. CASE ProduceTask(t, TRUE)
  BY <1>1 DEF ProduceTask, StoreTypeOK
<1>2. CASE ProduceTask(t, FALSE)
  BY <1>2 DEF ProduceTask, StoreTypeOK
<1> QED
  BY <1>1, <1>2

LEMMA InitType == Init => TInv
<1> SUFFICES ASSUME Init
             PROVE  TInv
  OBVIOUS
<1>1. StoreTypeOK
  <2>1. log \in Seq(Tile)
    BY DEF Init, StoreInit
  <2>2. due \in BOOLEAN /\ cleaned \in BOOLEAN
    BY DEF Init, StoreInit
  <2> QED
    BY <2>1, <2>2 DEF Init, StoreInit, StoreTypeOK, Status
<1>2. ConsumerTypeOK
  BY DEF Init, ConsumerInit, ConsumerTypeOK, ConsumerPc
<1>3. ReaperTypeOK
  BY DEF Init, ReaperInit, ReaperTypeOK, ReaperPc
<1>4. /\ upload \in [Tile -> UploadPc]
      /\ ready \in SUBSET Tile
      /\ hpc \in [Request -> RequestPc]
  BY DEF Init, UploadPc, RequestPc
<1>5. PlaceInv
  BY DEF Init, ConsumerInit, PlaceInv
<1> QED
  BY <1>1, <1>2, <1>3, <1>4, <1>5 DEF TInv, TypeOK

\* The upload.
LEMMA UploadType ==
    ASSUME TInv, NEW t \in Tile,
           Stage(t) \/ Produce(t) \/ UploadError(t) \/ UploadCrash
    PROVE  TInv'
<1> USE DEF redisVars, blobVars, taskVars, resultVars
<1>1. UNCHANGED <<redisVars, resultVars, masterVars, workerVars, requestVars>>
  BY DEF Stage, Produce, UploadError, UploadCrash
<1>2. ConsumerTypeOK'
  BY <1>1 DEF TInv, TypeOK, ConsumerTypeOK, masterVars, consumerVars
<1>3. ReaperTypeOK'
  BY <1>1 DEF TInv, TypeOK, ReaperTypeOK, masterVars, reaperVars
<1>4. ready' \in SUBSET Tile /\ hpc' \in [Request -> RequestPc]
  BY <1>1 DEF TInv, TypeOK, workerVars, requestVars
<1>5. upload' \in [Tile -> UploadPc]
  <2>1. upload \in [Tile -> UploadPc]
    BY DEF TInv, TypeOK
  <2> QED
    BY <2>1 DEF Stage, Produce, UploadError, UploadCrash, UploadPc
<1>6. faults' \in Nat
  <2>1. faults' = faults \/ faults' = faults + 1
    BY DEF Stage, Produce, UploadError, UploadCrash, NoFault, Fault
  <2>2. faults \in Nat
    BY DEF TInv, TypeOK, StoreTypeOK
  <2> QED
    BY <2>1, <2>2
<1>7. taskBlob' \in SUBSET Tile /\ resultBlob' \in SUBSET Tile
  <2>1. taskBlob \in SUBSET Tile /\ resultBlob \in SUBSET Tile
    BY DEF TInv, TypeOK, StoreTypeOK
  <2> QED
    BY <2>1 DEF Stage, Produce, UploadError, UploadCrash, PutTask
<1>8. /\ tasks' \in [Tile -> Nat]
      /\ dispatched' \in [Tile -> Nat]
      /\ \A u \in Tile : tasks[u] > 0 => tasks'[u] > 0
  <2>1. /\ tasks \in [Tile -> Nat]
        /\ dispatched \in [Tile -> Nat]
    BY DEF TInv, TypeOK, StoreTypeOK
  <2>2. CASE Produce(t)
    <3>1. ProduceTask(t, TRUE) \/ ProduceTask(t, FALSE)
      BY <2>2 DEF Produce
    <3>2. /\ tasks' \in [Tile -> Nat]
          /\ dispatched' \in [Tile -> Nat]
          /\ \A u \in Tile : tasks'[u] >= tasks[u]
      BY <3>1, ProduceType DEF TInv, TypeOK
    <3> QED
      BY <3>2, <2>1
  <2>3. CASE ~Produce(t)
    <3>1. UNCHANGED taskVars
      BY <2>3 DEF Stage, UploadError, UploadCrash
    <3> QED
      BY <3>1, <2>1
  <2> QED
    BY <2>2, <2>3
<1>9. StoreTypeOK'
  BY <1>1, <1>6, <1>7, <1>8 DEF TInv, TypeOK, StoreTypeOK
<1>10. PlaceInv'
  BY <1>1, <1>8
     DEF TInv, TypeOK, PlaceInv, masterVars, consumerVars, workerVars
<1> QED
  BY <1>2, <1>3, <1>4, <1>5, <1>9, <1>10 DEF TInv, TypeOK

\* The workers.
LEMMA WorkerType ==
    ASSUME TInv, NEW t \in Tile, Working(t)
    PROVE  TInv'
<1> USE DEF redisVars, blobVars, taskVars, resultVars
<1>1. UNCHANGED <<redisVars, committed, masterVars, uploadVars, requestVars>>
  BY DEF Working, WorkerStore, WorkerPublish, WorkerDrop
<1>2. ConsumerTypeOK'
  BY <1>1 DEF TInv, TypeOK, ConsumerTypeOK, masterVars, consumerVars
<1>3. ReaperTypeOK'
  BY <1>1 DEF TInv, TypeOK, ReaperTypeOK, masterVars, reaperVars
<1>4. upload' \in [Tile -> UploadPc] /\ hpc' \in [Request -> RequestPc]
  BY <1>1 DEF TInv, TypeOK, uploadVars, requestVars
<1>5. ready' \in SUBSET Tile
  BY DEF TInv, TypeOK, Working, WorkerStore, WorkerPublish, WorkerDrop
<1>6. faults' \in Nat
  <2>1. faults' = faults \/ faults' = faults + 1
    BY DEF Working, WorkerStore, WorkerPublish, WorkerDrop, NoFault, Fault
  <2>2. faults \in Nat
    BY DEF TInv, TypeOK, StoreTypeOK
  <2> QED
    BY <2>1, <2>2
<1>7. taskBlob' \in SUBSET Tile /\ resultBlob' \in SUBSET Tile
  <2>1. taskBlob \in SUBSET Tile /\ resultBlob \in SUBSET Tile
    BY DEF TInv, TypeOK, StoreTypeOK
  <2> QED
    BY <2>1 DEF Working, WorkerStore, WorkerPublish, WorkerDrop, PutResult
<1>8. /\ log' \in Seq(Tile)
      /\ Len(log') >= Len(log)
  <2>1. log \in Seq(Tile)
    BY DEF TInv, TypeOK, StoreTypeOK
  <2>2. log' = log \/ log' = Append(log, t)
    BY DEF Working, WorkerStore, WorkerPublish, WorkerDrop
  <2> QED
    BY <2>1, <2>2
<1>9. /\ tasks' \in [Tile -> Nat]
      /\ dispatched' \in [Tile -> Nat]
      /\ \A u \in ready' : tasks'[u] > 0
  <2>1. /\ tasks \in [Tile -> Nat]
        /\ dispatched \in [Tile -> Nat]
        /\ ready \in SUBSET Tile
        /\ \A u \in ready : tasks[u] > 0
    BY DEF TInv, TypeOK, StoreTypeOK, PlaceInv
  <2>2. UNCHANGED dispatched
    BY DEF Working, WorkerStore, WorkerPublish, WorkerDrop, CommitTask
  <2>3. \/ ready' = ready \cup {t} /\ tasks[t] > 0 /\ UNCHANGED tasks
        \/ ready' = ready \ {t} /\ UNCHANGED tasks
        \/ ready' = ready \ {t} /\ tasks[t] > 0 /\ CommitTask(t)
    BY <2>1 DEF Working, WorkerStore, WorkerPublish, WorkerDrop
  <2> QED
    BY <2>1, <2>2, <2>3 DEF CommitTask
<1>10. StoreTypeOK'
  BY <1>1, <1>6, <1>7, <1>8, <1>9 DEF TInv, TypeOK, StoreTypeOK
<1>11. PlaceInv'
  <2>1. UNCHANGED <<cpc, pos>>
    BY <1>1 DEF masterVars, consumerVars
  <2>2. \A m \in Replica : cpc[m] = "record" => pos[m] \in 1..Len(log)
    BY DEF TInv, PlaceInv
  <2>3. Len(log) \in Nat /\ Len(log') \in Nat
    BY <1>8 DEF TInv, TypeOK, StoreTypeOK
  <2> QED
    BY <1>8, <1>9, <2>1, <2>2, <2>3 DEF PlaceInv
<1> QED
  BY <1>2, <1>3, <1>4, <1>5, <1>10, <1>11 DEF TInv, TypeOK
\* What the listener, the reaper and the request handlers do to Redis and to
\* MinIO.
RedisStep ==
    \/ UNCHANGED redisVars
    \/ \E s \in Status : SetStatus(s)
    \/ \E t \in Tile : RecordTile(t)
    \/ CountTile
    \/ \E t \in Tile : IncrAttempts(t)
    \/ \E t \in Tile : AddAbandoned(t)
    \/ SetLastReapTime
    \/ DeleteTiles
    \/ DeleteAttempts

LEMMA RedisType ==
    ASSUME StoreTypeOK, RedisStep
    PROVE  /\ status' \in Status
           /\ count' \in Nat
           /\ due' \in BOOLEAN
           /\ tiles' \in SUBSET Tile
           /\ attempts' \in [Tile -> Nat]
           /\ abandoned' \in SUBSET Tile
           /\ cleaned' \in BOOLEAN
<1> USE DEF RedisStep, redisVars, SetStatus, RecordTile, CountTile,
            IncrAttempts, AddAbandoned, SetLastReapTime, DeleteTiles,
            DeleteAttempts
<1>1. status' \in Status
  BY DEF StoreTypeOK
<1>2. count' \in Nat
  <2>1. count' = count \/ count' = count + 1
    OBVIOUS
  <2>2. count \in Nat
    BY DEF StoreTypeOK
  <2> QED
    BY ONLY <2>1, <2>2
<1>3. due' \in BOOLEAN /\ cleaned' \in BOOLEAN
  <2>1. due \in BOOLEAN /\ cleaned \in BOOLEAN
    BY DEF StoreTypeOK
  <2>2. due' = due \/ due' = FALSE
    OBVIOUS
  <2>3. cleaned' = cleaned \/ cleaned' = TRUE
    OBVIOUS
  <2> QED
    BY ONLY <2>1, <2>2, <2>3
<1>4. tiles' \in SUBSET Tile /\ abandoned' \in SUBSET Tile
  <2>1. tiles \in SUBSET Tile /\ abandoned \in SUBSET Tile
    BY DEF StoreTypeOK
  <2>2. \/ tiles' = tiles
        \/ tiles' = {}
        \/ \E t \in Tile : tiles' = tiles \cup {t}
    OBVIOUS
  <2>3. \/ abandoned' = abandoned
        \/ abandoned' = {}
        \/ \E t \in Tile : abandoned' = abandoned \cup {t}
    OBVIOUS
  <2> QED
    BY ONLY <2>1, <2>2, <2>3
<1>5. attempts' \in [Tile -> Nat]
  <2>1. attempts \in [Tile -> Nat]
    BY DEF StoreTypeOK
  <2>2. \/ attempts' = attempts
        \/ attempts' = [t \in Tile |-> 0]
        \/ \E t \in Tile : attempts' = [attempts EXCEPT ![t] = @ + 1]
    OBVIOUS
  <2> QED
    BY ONLY <2>1, <2>2
<1> QED
  BY <1>1, <1>2, <1>3, <1>4, <1>5

LEMMA RequestRedis ==
    ASSUME NEW h \in Request, Handle(h) \/ RequestError(h)
    PROVE  RedisStep
BY DEF Handle, RequestArrives, ReadTiles, FetchResults, MarkCompleted,
       ForgetTiles, ForgetAttempts, SweepCompleted, RequestError,
       RedisStep, Status

LEMMA ListenerRedis ==
    ASSUME TInv, NEW m \in Replica, Listener(m)
    PROVE  RedisStep
<1>1. ASSUME cpc[m] = "record"
      PROVE  Current(m) \in Tile
  <2>1. log \in Seq(Tile) /\ pos[m] \in 1..Len(log)
    BY <1>1 DEF TInv, TypeOK, StoreTypeOK, PlaceInv
  <2> QED
    BY <2>1 DEF Current
<1> QED
  BY <1>1 DEF Listener, ConsumerStep, Open, Assign, Close, Poll, Record,
     Count, Hlen, GetJob, Flip, Commit, Evict, ConsumerError, storeVars,
     RedisStep, Status

LEMMA ReaperRedis ==
    ASSUME TInv, NEW m \in Replica, ReaperThread(m)
    PROVE  RedisStep
BY DEF ReaperThread, ReaperStep, StartSweep, ReadMissing, ReadAbandoned,
   Degrade, SweepDegraded, IncrTile, Republish, BlobGone, GiveUp, Stamp,
   ReaperError, storeVars, RedisStep, Status, TInv, TypeOK, ReaperTypeOK

LEMMA FaultType ==
    ASSUME faults \in Nat, NEW kind, NoFault \/ Fault(kind)
    PROVE  faults' \in Nat
<1>1. faults' = faults \/ faults' = faults + 1
  BY DEF NoFault, Fault
<1> QED
  BY <1>1

\* The requests to /reconstruct.
LEMMA RequestType ==
    ASSUME TInv, NEW h \in Request, Handle(h) \/ RequestError(h)
    PROVE  TInv'
<1> USE DEF blobVars
<1>1. UNCHANGED <<taskVars, resultVars, masterVars, uploadVars, workerVars>>
  BY DEF Handle, RequestArrives, ReadTiles, FetchResults, MarkCompleted,
         ForgetTiles, ForgetAttempts, SweepCompleted, Serve, RequestError
<1>2. ConsumerTypeOK'
  BY <1>1 DEF TInv, TypeOK, ConsumerTypeOK, masterVars, consumerVars
<1>3. ReaperTypeOK'
  BY <1>1 DEF TInv, TypeOK, ReaperTypeOK, masterVars, reaperVars
<1>4. upload' \in [Tile -> UploadPc] /\ ready' \in SUBSET Tile
  BY <1>1 DEF TInv, TypeOK, uploadVars, workerVars
<1>5. hpc' \in [Request -> RequestPc]
  <2>1. hpc \in [Request -> RequestPc]
    BY DEF TInv, TypeOK
  <2>2. \E l \in RequestPc : hpc' = [hpc EXCEPT ![h] = l]
    BY DEF Handle, RequestArrives, ReadTiles, FetchResults, MarkCompleted,
           ForgetTiles, ForgetAttempts, SweepCompleted, Serve, RequestError,
           RequestPc
  <2> QED
    BY <2>1, <2>2
<1>6. RedisStep
  BY RequestRedis
<1>7. faults' \in Nat
  <2>1. NoFault \/ Fault("request") \/ Fault("storage")
    BY DEF Handle, RequestArrives, ReadTiles, FetchResults, MarkCompleted,
           ForgetTiles, ForgetAttempts, SweepCompleted, Serve, RequestError,
           SweepBlobs, NoFault
  <2> QED
    BY <2>1, FaultType DEF TInv, TypeOK, StoreTypeOK
<1>8. taskBlob' \in SUBSET Tile /\ resultBlob' \in SUBSET Tile
  <2>1. taskBlob \in SUBSET Tile /\ resultBlob \in SUBSET Tile
    BY DEF TInv, TypeOK, StoreTypeOK
  <2>2. UNCHANGED blobVars \/ SweepBlobs
    BY DEF Handle, RequestArrives, ReadTiles, FetchResults, MarkCompleted,
           ForgetTiles, ForgetAttempts, SweepCompleted, RequestError
  <2> QED
    BY <2>1, <2>2 DEF SweepBlobs
<1>9. StoreTypeOK'
  <2>1. StoreTypeOK
    BY DEF TInv, TypeOK
  <2>2. /\ tasks' \in [Tile -> Nat] /\ dispatched' \in [Tile -> Nat]
        /\ log' \in Seq(Tile) /\ committed' \in Nat
    BY <1>1, <2>1 DEF StoreTypeOK, taskVars, resultVars
  <2> QED
    BY <1>6, <1>7, <1>8, <2>1, <2>2, RedisType DEF StoreTypeOK
<1>10. PlaceInv'
  BY <1>1 DEF TInv, PlaceInv, masterVars, consumerVars, workerVars, taskVars,
              resultVars
<1> QED
  BY <1>2, <1>3, <1>4, <1>5, <1>9, <1>10 DEF TInv, TypeOK

\* Leadership, crashes and time.
LEMMA EnvironmentType ==
    ASSUME TInv,
           \/ \E m \in Replica : Handoff(m) \/ MasterCrash(m)
           \/ GraceElapses
    PROVE  TInv'
<1>1. UNCHANGED <<status, count, tiles, attempts, abandoned, cleaned, blobVars,
                  taskVars, resultVars, uploadVars, workerVars, requestVars>>
  BY DEF Handoff, MasterCrash, GraceElapses, redisVars
<1>2. StoreTypeOK'
  <2>1. due \in BOOLEAN /\ faults \in Nat
    BY DEF TInv, TypeOK, StoreTypeOK
  <2>2. due' = due \/ due' = TRUE
    BY DEF Handoff, MasterCrash, GraceElapses, redisVars
  <2>3. \E kind : NoFault \/ Fault(kind)
    BY DEF Handoff, MasterCrash, GraceElapses, NoFault
  <2>4. faults' \in Nat
    BY <2>1, <2>3, FaultType
  <2>5. due' \in BOOLEAN
    BY ONLY <2>1, <2>2
  <2> QED
    BY <1>1, <2>4, <2>5 DEF TInv, TypeOK, StoreTypeOK, blobVars, taskVars,
                            resultVars
<1>3. ConsumerTypeOK'
  <2>1. CASE \E m \in Replica : Handoff(m)
    BY <2>1 DEF Handoff, TInv, TypeOK, ConsumerTypeOK, consumerVars
  <2>2. CASE \E m \in Replica : MasterCrash(m)
    BY <2>2 DEF MasterCrash, ConsumerCrash, Goto, TInv, TypeOK, ConsumerTypeOK,
                ConsumerPc
  <2>3. CASE GraceElapses
    BY <2>3 DEF GraceElapses, TInv, TypeOK, ConsumerTypeOK, consumerVars,
                masterVars
  <2> QED
    BY <2>1, <2>2, <2>3
<1>4. ReaperTypeOK'
  <2>1. CASE \E m \in Replica : Handoff(m)
    BY <2>1 DEF Handoff, TInv, TypeOK, ReaperTypeOK, reaperVars
  <2>2. CASE \E m \in Replica : MasterCrash(m)
    BY <2>2 DEF MasterCrash, Leave, TInv, TypeOK, ReaperTypeOK, ReaperPc
  <2>3. CASE GraceElapses
    BY <2>3 DEF GraceElapses, TInv, TypeOK, ReaperTypeOK, reaperVars,
                masterVars
  <2> QED
    BY <2>1, <2>2, <2>3
<1>5. /\ upload' \in [Tile -> UploadPc]
      /\ ready' \in SUBSET Tile
      /\ hpc' \in [Request -> RequestPc]
  BY <1>1 DEF TInv, TypeOK, uploadVars, workerVars, requestVars
<1>6. PlaceInv'
  <2>1. UNCHANGED <<pos, log, ready, tasks>>
    BY <1>1 DEF workerVars, taskVars, resultVars, Handoff, MasterCrash,
                GraceElapses, ConsumerCrash, consumerVars, masterVars
  <2>2. \A m \in Replica : cpc'[m] = "record" => cpc[m] = "record"
    BY DEF TInv, TypeOK, ConsumerTypeOK, Handoff, MasterCrash, GraceElapses,
           ConsumerCrash, Goto, consumerVars, masterVars
  <2> QED
    BY <2>1, <2>2 DEF TInv, PlaceInv
<1> QED
  BY <1>2, <1>3, <1>4, <1>5, <1>6 DEF TInv, TypeOK
\* The results listeners.
LEMMA ListenerType ==
    ASSUME TInv, NEW m \in Replica, Listener(m)
    PROVE  TInv'
<1> USE DEF Listener, ConsumerStep, blobVars
<1>1. UNCHANGED <<leader, log, blobVars, taskVars, reaperVars, uploadVars,
                  workerVars, requestVars>>
  BY DEF Open, Assign, Close, Poll, Record, Count, Hlen, GetJob, Flip, Commit,
         Evict, ConsumerError, storeVars, resultVars
<1>2. ReaperTypeOK'
  BY <1>1 DEF TInv, TypeOK, ReaperTypeOK, reaperVars
<1>3. /\ upload' \in [Tile -> UploadPc]
      /\ ready' \in SUBSET Tile
      /\ hpc' \in [Request -> RequestPc]
  BY <1>1 DEF TInv, TypeOK, uploadVars, workerVars, requestVars
<1>4. RedisStep
  BY ListenerRedis
<1>5. faults' \in Nat
  <2>1. \E kind : NoFault \/ Fault(kind)
    BY DEF Open, Assign, Close, Poll, Record, Count, Hlen, GetJob, Flip,
           Commit, Evict, ConsumerError, storeVars, NoFault
  <2> QED
    BY <2>1, FaultType DEF TInv, TypeOK, StoreTypeOK
<1>6. pos' \in [Replica -> Nat] /\ committed' \in Nat
  <2>1. pos \in [Replica -> Nat] /\ committed \in Nat
    BY DEF TInv, TypeOK, StoreTypeOK, ConsumerTypeOK
  <2>2. \/ pos' = pos
        \/ pos' = [pos EXCEPT ![m] = committed]
        \/ pos' = [pos EXCEPT ![m] = @ + 1]
    BY DEF Open, Assign, Close, Poll, Record, Count, Hlen, GetJob, Flip,
           Commit, Evict, ConsumerError
  <2>3. committed' = committed \/ committed' = pos[m]
    BY DEF Open, Assign, Close, Poll, Record, Count, Hlen, GetJob, Flip,
           Commit, Evict, ConsumerError, storeVars, resultVars
  <2> QED
    BY <2>1, <2>2, <2>3
<1>7. StoreTypeOK'
  <2>1. StoreTypeOK
    BY DEF TInv, TypeOK
  <2>2. /\ tasks' \in [Tile -> Nat] /\ dispatched' \in [Tile -> Nat]
        /\ log' \in Seq(Tile)
        /\ taskBlob' \in SUBSET Tile /\ resultBlob' \in SUBSET Tile
    BY <1>1, <2>1 DEF StoreTypeOK, taskVars
  <2> QED
    BY <1>4, <1>5, <1>6, <2>1, <2>2, RedisType DEF StoreTypeOK
<1>8. cpc' \in [Replica -> ConsumerPc]
  <2>1. cpc \in [Replica -> ConsumerPc]
    BY DEF TInv, TypeOK, ConsumerTypeOK
  <2>2. cpc' = cpc \/ \E l \in ConsumerPc : cpc' = [cpc EXCEPT ![m] = l]
    BY DEF Open, Assign, Close, Poll, Record, Count, Hlen, GetJob, Flip,
           Commit, Evict, ConsumerError, Goto, ConsumerPc
  <2> QED
    BY <2>1, <2>2
<1>9. distinct' \in [Replica -> Nat]
  <2>1. distinct \in [Replica -> Nat] /\ Cardinality(tiles) \in Nat
    <3>1. tiles \in SUBSET Tile
      BY DEF TInv, TypeOK, StoreTypeOK
    <3>2. IsFiniteSet(tiles)
      BY <3>1, FS_Subset, JobStoreAssumption
    <3> QED
      BY <3>2, FS_CardinalityType DEF TInv, TypeOK, ConsumerTypeOK
  <2>2. \/ distinct' = distinct
        \/ distinct' = [distinct EXCEPT ![m] = 0]
        \/ distinct' = [distinct EXCEPT ![m] = Cardinality(tiles)]
    BY DEF Open, Assign, Close, Poll, Record, Count, Hlen, GetJob, Flip,
           Commit, Evict, ConsumerError
  <2> QED
    BY <2>1, <2>2
<1>10. owner' \in Replica \cup {None}
  <2>1. owner' = owner \/ owner' = m \/ owner' = None
    BY DEF Open, Assign, Close, Poll, Record, Count, Hlen, GetJob, Flip,
           Commit, Evict, ConsumerError
  <2> QED
    BY <2>1 DEF TInv, TypeOK, ConsumerTypeOK
<1>11. ConsumerTypeOK'
  BY <1>1, <1>6, <1>8, <1>9, <1>10 DEF TInv, TypeOK, ConsumerTypeOK
<1>12. PlaceInv'
  <2>1. /\ cpc \in [Replica -> ConsumerPc]
        /\ pos \in [Replica -> Nat]
        /\ log \in Seq(Tile)
        /\ \A r \in Replica : cpc[r] = "record" => pos[r] \in 1..Len(log)
    BY DEF TInv, TypeOK, StoreTypeOK, ConsumerTypeOK, PlaceInv
  <2>2. CASE Poll(m)
    <3>1. \A r \in Replica : cpc'[r] = "record" => pos'[r] \in 1..Len(log)
      BY <2>1, <2>2 DEF Poll, Goto
    <3> QED
      BY <1>1, <3>1 DEF TInv, PlaceInv, workerVars, taskVars
  <2>3. CASE ~Poll(m)
    <3>1. \A r \in Replica :
             cpc'[r] = "record" => cpc[r] = "record" /\ pos'[r] = pos[r]
      BY <2>1, <2>3 DEF Open, Assign, Close, Record, Count, Hlen, GetJob,
         Flip, Commit, Evict, ConsumerError, Goto
    <3> QED
      BY <1>1, <2>1, <3>1 DEF TInv, PlaceInv, workerVars, taskVars
  <2> QED
    BY <2>2, <2>3
<1> QED
  BY <1>2, <1>3, <1>7, <1>11, <1>12 DEF TInv, TypeOK

\* The reapers.
LEMMA ReaperType ==
    ASSUME TInv, NEW m \in Replica, ReaperThread(m)
    PROVE  TInv'
<1> USE DEF ReaperThread, ReaperStep, blobVars
<1>0. ReaperTypeOK /\ StoreTypeOK
  BY DEF TInv, TypeOK
<1>1. UNCHANGED <<leader, resultVars, consumerVars, uploadVars, workerVars,
                  requestVars>>
  BY DEF StartSweep, ReadMissing, ReadAbandoned, Degrade, SweepDegraded,
         IncrTile, Republish, BlobGone, GiveUp, Stamp, ReaperError, storeVars
<1>2. ConsumerTypeOK'
  BY <1>1 DEF TInv, TypeOK, ConsumerTypeOK, consumerVars
<1>3. /\ upload' \in [Tile -> UploadPc]
      /\ ready' \in SUBSET Tile
      /\ hpc' \in [Request -> RequestPc]
  BY <1>1 DEF TInv, TypeOK, uploadVars, workerVars, requestVars
<1>4. RedisStep
  BY ReaperRedis
<1>5. faults' \in Nat
  <2>1. \E kind : NoFault \/ Fault(kind)
    BY DEF StartSweep, ReadMissing, ReadAbandoned, Degrade, SweepDegraded,
       IncrTile, Republish, BlobGone, GiveUp, Stamp, ReaperError, SweepBlobs,
       storeVars, NoFault
  <2> QED
    BY <1>0, <2>1, FaultType DEF StoreTypeOK
<1>6. taskBlob' \in SUBSET Tile /\ resultBlob' \in SUBSET Tile
  <2>1. UNCHANGED blobVars \/ SweepBlobs
    BY DEF StartSweep, ReadMissing, ReadAbandoned, Degrade, SweepDegraded,
       IncrTile, Republish, BlobGone, GiveUp, Stamp, ReaperError, storeVars
  <2> QED
    BY <1>0, <2>1 DEF SweepBlobs, StoreTypeOK
<1>7. /\ tasks' \in [Tile -> Nat]
      /\ dispatched' \in [Tile -> Nat]
      /\ \A u \in Tile : tasks'[u] >= tasks[u]
  <2>1. tasks \in [Tile -> Nat] /\ dispatched \in [Tile -> Nat]
    BY <1>0 DEF StoreTypeOK
  <2>2. \/ UNCHANGED taskVars
        \/ \E t \in Tile : ProduceTask(t, TRUE) \/ ProduceTask(t, FALSE)
    BY <1>0 DEF StartSweep, ReadMissing, ReadAbandoned, Degrade,
       SweepDegraded, IncrTile, Republish, BlobGone, GiveUp, Stamp,
       ReaperError, storeVars, ReaperTypeOK
  <2>3. CASE UNCHANGED taskVars
    BY <2>1, <2>3 DEF taskVars
  <2>4. CASE \E t \in Tile : ProduceTask(t, TRUE) \/ ProduceTask(t, FALSE)
    <3>1. StoreTypeOK
      BY <1>0
    <3> QED
      BY ONLY <2>4, <3>1, ProduceType
  <2> QED
    BY <2>2, <2>3, <2>4
<1>8. StoreTypeOK'
  <2>1. log' \in Seq(Tile) /\ committed' \in Nat
    BY <1>0, <1>1 DEF StoreTypeOK, resultVars
  <2> QED
    BY <1>0, <1>4, <1>5, <1>6, <1>7, <2>1, RedisType DEF StoreTypeOK
<1>9. ReaperTypeOK'
  <2> USE DEF ReaperTypeOK
  <2>1. rpc' \in [Replica -> ReaperPc]
    <3>1. \E l \in ReaperPc : rpc' = [rpc EXCEPT ![m] = l]
      BY DEF StartSweep, ReadMissing, ReadAbandoned, Degrade, SweepDegraded,
         IncrTile, Republish, BlobGone, GiveUp, Stamp, ReaperError, Leave, At,
         NextTile, ReaperPc
    <3> QED
      BY <1>0, <3>1
  <2>2. missing' \in [Replica -> SUBSET Tile]
    <3>1. \/ missing' = missing
          \/ missing' = [missing EXCEPT ![m] = {}]
          \/ missing' = [missing EXCEPT ![m] = Tile \ tiles]
      BY DEF StartSweep, ReadMissing, ReadAbandoned, Degrade, SweepDegraded,
         IncrTile, Republish, BlobGone, GiveUp, Stamp, ReaperError, Leave,
         NextTile
    <3> QED
      BY <1>0, <3>1
  <2>3. todo' \in [Replica -> SUBSET Tile]
    <3>1. \/ todo' = todo
          \/ todo' = [todo EXCEPT ![m] = {}]
          \/ todo' = [todo EXCEPT ![m] = missing[m] \ abandoned]
          \/ \E t \in todo[m] : todo' = [todo EXCEPT ![m] = @ \ {t}]
      BY DEF StartSweep, ReadMissing, ReadAbandoned, Degrade, SweepDegraded,
         IncrTile, Republish, BlobGone, GiveUp, Stamp, ReaperError, Leave,
         NextTile
    <3> QED
      BY <1>0, <3>1
  <2>4. rtile' \in [Replica -> SUBSET Tile]
    <3>1. \/ rtile' = rtile
          \/ rtile' = [rtile EXCEPT ![m] = {}]
          \/ \E t \in todo[m] : rtile' = [rtile EXCEPT ![m] = {t}]
      BY DEF StartSweep, ReadMissing, ReadAbandoned, Degrade, SweepDegraded,
         IncrTile, Republish, BlobGone, GiveUp, Stamp, ReaperError, Leave,
         NextTile
    <3> QED
      BY <1>0, <3>1
  <2> QED
    BY <2>1, <2>2, <2>3, <2>4
<1>10. PlaceInv'
  <2>1. \A u \in Tile : tasks[u] > 0 => tasks'[u] > 0
    BY <1>0, <1>7 DEF StoreTypeOK
  <2> QED
    BY <1>1, <2>1 DEF TInv, TypeOK, PlaceInv, consumerVars, workerVars,
                      resultVars
<1> QED
  BY <1>2, <1>3, <1>8, <1>9, <1>10 DEF TInv, TypeOK

LEMMA StutterType ==
    ASSUME TInv, UNCHANGED vars
    PROVE  TInv'
<1> USE DEF vars, storeVars, redisVars, blobVars, taskVars, resultVars
<1>1. StoreTypeOK'
  BY DEF TInv, TypeOK, StoreTypeOK
<1>2. ConsumerTypeOK'
  BY DEF TInv, TypeOK, ConsumerTypeOK, consumerVars
<1>3. ReaperTypeOK'
  BY DEF TInv, TypeOK, ReaperTypeOK, reaperVars
<1>4. /\ upload' \in [Tile -> UploadPc]
      /\ ready' \in SUBSET Tile
      /\ hpc' \in [Request -> RequestPc]
  BY DEF TInv, TypeOK, uploadVars, workerVars, requestVars
<1>5. PlaceInv'
  BY DEF TInv, PlaceInv, consumerVars, workerVars
<1> QED
  BY <1>1, <1>2, <1>3, <1>4, <1>5 DEF TInv, TypeOK

LEMMA TypeInductive == TInv /\ [Next]_vars => TInv'
<1> SUFFICES ASSUME TInv, [Next]_vars
             PROVE  TInv'
  OBVIOUS
<1>1. ASSUME NEW t \in Tile, Stage(t) \/ Produce(t) \/ UploadError(t)
      PROVE  TInv'
  BY <1>1, UploadType
<1>2. CASE UploadCrash
  <2>1. PICK t \in Tile : TRUE
    BY JobStoreAssumption
  <2> QED
    BY <1>2, <2>1, UploadType
<1>3. ASSUME NEW t \in Tile, Working(t)
      PROVE  TInv'
  BY <1>3, WorkerType
<1>4. ASSUME NEW m \in Replica, Listener(m)
      PROVE  TInv'
  BY <1>4, ListenerType
<1>5. ASSUME NEW m \in Replica, ReaperThread(m)
      PROVE  TInv'
  BY <1>5, ReaperType
<1>6. ASSUME NEW h \in Request, Handle(h) \/ RequestError(h)
      PROVE  TInv'
  BY <1>6, RequestType
<1>7. ASSUME \/ \E m \in Replica : Handoff(m) \/ MasterCrash(m)
             \/ GraceElapses
      PROVE  TInv'
  BY <1>7, EnvironmentType
<1>8. CASE UNCHANGED vars
  BY <1>8, StutterType
<1> QED
  BY <1>1, <1>2, <1>3, <1>4, <1>5, <1>6, <1>7, <1>8 DEF Next

\* Every variable of the job pipeline keeps its type, for any number of tiles,
\* replicas, requests and failures: in particular no worker commits a task that
\* was not there, and a listener records only messages of the topic
\* (master/results_consumer.py:86-99, worker/main.py:306-312).
THEOREM TypeCorrect == Spec => []TypeOK
<1>1. TInv => TypeOK
  BY DEF TInv
<1> QED
  BY <1>1, InitType, TypeInductive, PTL DEF Spec

----------------------------------------------------------------------------
(* Every step, seen from Redis.                                            *)

LEMMA NextRedis == TInv /\ [Next]_vars => RedisStep \/ GraceElapses
<1> SUFFICES ASSUME TInv, [Next]_vars, ~GraceElapses
             PROVE  RedisStep
  OBVIOUS
<1>1. ASSUME NEW t \in Tile, Stage(t) \/ Produce(t) \/ UploadError(t)
      PROVE  RedisStep
  BY <1>1 DEF Stage, Produce, UploadError, RedisStep
<1>2. CASE UploadCrash
  BY <1>2 DEF UploadCrash, RedisStep
<1>3. ASSUME NEW t \in Tile, Working(t)
      PROVE  RedisStep
  BY <1>3 DEF Working, WorkerStore, WorkerPublish, WorkerDrop, RedisStep
<1>4. ASSUME NEW m \in Replica, Handoff(m) \/ MasterCrash(m)
      PROVE  RedisStep
  BY <1>4 DEF Handoff, MasterCrash, RedisStep
<1>5. CASE UNCHANGED vars
  BY <1>5 DEF vars, storeVars, RedisStep
<1> QED
  BY <1>1, <1>2, <1>3, <1>4, <1>5, RequestRedis, ListenerRedis, ReaperRedis
     DEF Next

\* Until /reconstruct deletes the tiles, the recorded and the abandoned ones
\* only grow.
LEMMA Monotonic ==
    ASSUME TInv, [Next]_vars, ~cleaned'
    PROVE  ~cleaned /\ tiles \subseteq tiles' /\ abandoned \subseteq abandoned'
<1>1. CASE RedisStep
  BY <1>1 DEF RedisStep, redisVars, SetStatus, RecordTile, CountTile,
     IncrAttempts, AddAbandoned, SetLastReapTime, DeleteTiles, DeleteAttempts
<1>2. CASE GraceElapses
  BY <1>2 DEF GraceElapses
<1> QED
  BY <1>1, <1>2, NextRedis

----------------------------------------------------------------------------
(* The reaper gives up a job only when nothing can be retried.             *)

\* What a sweep has read stays true while it goes on: a tile it did not find
\* missing is recorded, and the decision to degrade keeps its reason.
HopelessInv ==
    ~cleaned =>
        /\ DegradedOnlyWhenHopeless
        /\ \A m \in Replica :
              /\ rpc[m] = "abandoned" => Tile \ missing[m] \subseteq tiles
              /\ rpc[m] = "degrade" => tiles \cup abandoned = Tile

LEMMA HopelessInductive ==
    ASSUME TInv, HopelessInv, [Next]_vars
    PROVE  HopelessInv'
<1> SUFFICES ASSUME ~cleaned'
             PROVE  HopelessInv'
  BY DEF HopelessInv
<1>1. ~cleaned /\ tiles \subseteq tiles' /\ abandoned \subseteq abandoned'
  BY Monotonic
<1>2. tiles' \subseteq Tile /\ abandoned' \subseteq Tile
  BY TypeInductive DEF TInv, TypeOK, StoreTypeOK
<1>3. ReaperTypeOK
  BY DEF TInv, TypeOK
<1>4. \A m \in Replica :
         /\ rpc[m] = "abandoned" => Tile \ missing[m] \subseteq tiles
         /\ rpc[m] = "degrade" => tiles \cup abandoned = Tile
  BY <1>1 DEF HopelessInv
<1>5. status = "degraded" => tiles \cup abandoned = Tile
  BY <1>1 DEF HopelessInv, DegradedOnlyWhenHopeless
<1>6. \/ UNCHANGED <<rpc, missing>>
      \/ \E m \in Replica : ReaperThread(m) \/ MasterCrash(m)
  BY DEF Next, Stage, Produce, UploadError, UploadCrash, Working, WorkerStore,
         WorkerPublish, WorkerDrop, Listener, Handle, RequestArrives,
         ReadTiles, FetchResults, MarkCompleted, ForgetTiles, ForgetAttempts,
         SweepCompleted, Serve, RequestError, Handoff, GraceElapses,
         masterVars, reaperVars, vars
<1>7. ASSUME NEW m \in Replica
      PROVE  /\ rpc'[m] = "abandoned" => Tile \ missing'[m] \subseteq tiles'
             /\ rpc'[m] = "degrade" => tiles' \cup abandoned' = Tile
  <2>1. CASE UNCHANGED <<rpc, missing>>
    BY <1>1, <1>2, <1>4, <2>1
  <2>2. ASSUME NEW r \in Replica, MasterCrash(r)
        PROVE  /\ rpc'[m] = "abandoned" => Tile \ missing'[m] \subseteq tiles'
               /\ rpc'[m] = "degrade" => tiles' \cup abandoned' = Tile
    BY <1>1, <1>2, <1>3, <1>4, <2>2 DEF MasterCrash, Leave, ReaperTypeOK
  <2>3. ASSUME NEW r \in Replica, ReaperThread(r), r # m
        PROVE  /\ rpc'[m] = "abandoned" => Tile \ missing'[m] \subseteq tiles'
               /\ rpc'[m] = "degrade" => tiles' \cup abandoned' = Tile
    <3>1. rpc'[m] = rpc[m] /\ missing'[m] = missing[m]
      BY <1>3, <2>3 DEF ReaperThread, ReaperStep, StartSweep, ReadMissing,
         ReadAbandoned, Degrade, SweepDegraded, IncrTile, Republish, BlobGone,
         GiveUp, Stamp, ReaperError, Leave, At, NextTile, ReaperTypeOK
    <3> QED
      BY <1>1, <1>2, <1>4, <3>1
  <2>4. ASSUME ReaperThread(m)
        PROVE  /\ rpc'[m] = "abandoned" => Tile \ missing'[m] \subseteq tiles'
               /\ rpc'[m] = "degrade" => tiles' \cup abandoned' = Tile
    <3>1. CASE ReadMissing(m)
      BY <1>1, <1>3, <3>1 DEF ReadMissing, Leave, At, ReaperTypeOK
    <3>2. CASE ReadAbandoned(m)
      <4>1. rpc[m] = "abandoned"
        BY <3>2 DEF ReadAbandoned
      <4>2. rpc'[m] = "degrade" => missing[m] \subseteq abandoned
        BY <1>3, <3>2 DEF ReadAbandoned, Hopeless, At, ReaperTypeOK
      <4>3. rpc'[m] # "abandoned"
        BY <1>3, <3>2 DEF ReadAbandoned, At, ReaperTypeOK
      <4> QED
        BY <1>1, <1>2, <1>4, <4>1, <4>2, <4>3
    <3>3. CASE ~ReadMissing(m) /\ ~ReadAbandoned(m)
      <4>1. rpc'[m] \notin {"abandoned", "degrade"}
        BY <1>3, <2>4, <3>3 DEF ReaperThread, ReaperStep, StartSweep, Degrade,
           SweepDegraded, IncrTile, Republish, BlobGone, GiveUp, Stamp,
           ReaperError, Leave, At, NextTile, ReaperTypeOK
      <4> QED
        BY <4>1
    <3> QED
      BY <3>1, <3>2, <3>3
  <2> QED
    BY <1>6, <2>1, <2>2, <2>3, <2>4
<1>8. status' = "degraded" => tiles' \cup abandoned' = Tile
  <2>1. status' = status \/ status' # "degraded" \/ \E m \in Replica : Degrade(m)
    <3>1. ASSUME NEW m \in Replica, ReaperThread(m), ~Degrade(m)
          PROVE  status' = status
      BY <3>1 DEF ReaperThread, ReaperStep, StartSweep, ReadMissing,
         ReadAbandoned, SweepDegraded, IncrTile, Republish, BlobGone, GiveUp,
         Stamp, ReaperError, storeVars, redisVars, IncrAttempts,
         AddAbandoned, SetLastReapTime
    <3>2. ASSUME NEW m \in Replica, Listener(m)
          PROVE  status' = status \/ status' # "degraded"
      BY <3>2 DEF Listener, ConsumerStep, Open, Assign, Close, Poll, Record,
         Count, Hlen, GetJob, Flip, Commit, Evict, ConsumerError, storeVars,
         redisVars, SetStatus, RecordTile, CountTile
    <3>3. ASSUME NEW h \in Request, Handle(h) \/ RequestError(h)
          PROVE  status' = status \/ status' # "degraded"
      BY <3>3 DEF Handle, RequestArrives, ReadTiles, FetchResults,
         MarkCompleted, ForgetTiles, ForgetAttempts, SweepCompleted, Serve,
         RequestError, redisVars, SetStatus, DeleteTiles, DeleteAttempts
    <3>4. CASE UNCHANGED redisVars \/ GraceElapses \/ UNCHANGED vars
      BY <3>4 DEF redisVars, GraceElapses, vars, storeVars
    <3> QED
      BY <3>1, <3>2, <3>3, <3>4 DEF Next, Stage, Produce, UploadError,
         UploadCrash, Working, WorkerStore, WorkerPublish, WorkerDrop,
         Handoff, MasterCrash
  <2>2. ASSUME NEW m \in Replica, Degrade(m)
        PROVE  tiles' \cup abandoned' = Tile
    <3>1. rpc[m] = "degrade"
      BY <2>2 DEF Degrade
    <3> QED
      BY <1>1, <1>2, <1>4, <3>1
  <2>3. CASE status' = status
    BY <1>1, <1>2, <1>5, <2>3
  <2> QED
    BY <2>1, <2>2, <2>3
<1> QED
  BY <1>7, <1>8 DEF HopelessInv, DegradedOnlyWhenHopeless

\* A job is given up only when each of its tiles is recorded or was abandoned,
\* however the sweeps of several reapers, the listeners and the requests
\* interleave (master/reaper.py:159-173).
THEOREM GivenUpOnlyWhenHopeless == Spec => []DegradedOnlyWhenHopeless
<1>1. Init => HopelessInv
  BY DEF Init, StoreInit, ReaperInit, HopelessInv, DegradedOnlyWhenHopeless
<1>2. HopelessInv => DegradedOnlyWhenHopeless
  BY DEF HopelessInv, DegradedOnlyWhenHopeless
<1>3. TInv /\ HopelessInv /\ [Next]_vars => TInv' /\ HopelessInv'
  BY TypeInductive, HopelessInductive
<1> QED
  BY <1>1, <1>2, <1>3, InitType, PTL DEF Spec

----------------------------------------------------------------------------
(* The inputs of the tiles outlive the processing.                         *)

\* A tile that is staged but not produced has its input as well, and whoever is
\* about to sweep the blobs has seen the job leave the status, which no step
\* goes back to.
SourceInv ==
    /\ status = "processing" =>
          \A t \in Tile :
             dispatched[t] > 0 \/ upload[t] = "produce" => t \in taskBlob
    /\ \A m \in Replica : rpc[m] = "sweep" => status # "processing"
    /\ \A h \in Request :
          hpc[h] \in {"forget", "attempts", "sweep"} => status # "processing"

\* No step makes a job processing again.
LEMMA NeverReprocessed ==
    ASSUME TInv, [Next]_vars, status' = "processing"
    PROVE  status = "processing"
<1>1. ASSUME NEW m \in Replica, ReaperThread(m)
      PROVE  status = "processing"
  BY <1>1 DEF ReaperThread, ReaperStep, StartSweep, ReadMissing,
     ReadAbandoned, Degrade, SweepDegraded, IncrTile, Republish, BlobGone,
     GiveUp, Stamp, ReaperError, storeVars, redisVars, SetStatus,
     IncrAttempts, AddAbandoned, SetLastReapTime
<1>2. ASSUME NEW m \in Replica, Listener(m)
      PROVE  status = "processing"
  BY <1>2 DEF Listener, ConsumerStep, Open, Assign, Close, Poll, Record,
     Count, Hlen, GetJob, Flip, Commit, Evict, ConsumerError, storeVars,
     redisVars, SetStatus, RecordTile, CountTile
<1>3. ASSUME NEW h \in Request, Handle(h) \/ RequestError(h)
      PROVE  status = "processing"
  BY <1>3 DEF Handle, RequestArrives, ReadTiles, FetchResults, MarkCompleted,
     ForgetTiles, ForgetAttempts, SweepCompleted, Serve, RequestError,
     redisVars, SetStatus, DeleteTiles, DeleteAttempts
<1>4. CASE UNCHANGED redisVars \/ GraceElapses \/ UNCHANGED vars
  BY <1>4 DEF redisVars, GraceElapses, vars, storeVars
<1> QED
  BY <1>1, <1>2, <1>3, <1>4 DEF Next, Stage, Produce, UploadError,
     UploadCrash, Working, WorkerStore, WorkerPublish, WorkerDrop, Handoff,
     MasterCrash

LEMMA SourceInductive ==
    ASSUME TInv, SourceInv, [Next]_vars
    PROVE  SourceInv'
<1> USE NeverReprocessed
<1>1. /\ dispatched \in [Tile -> Nat]
      /\ upload \in [Tile -> UploadPc]
      /\ hpc \in [Request -> RequestPc]
      /\ ReaperTypeOK
  BY DEF TInv, TypeOK, StoreTypeOK
<1>2. ASSUME NEW m \in Replica, rpc'[m] = "sweep"
      PROVE  status' # "processing"
  <2>1. rpc[m] = "sweep" \/ Degrade(m)
    <3>1. ASSUME NEW r \in Replica, ReaperThread(r), ~Degrade(r)
          PROVE  rpc[m] = "sweep"
      BY <1>1, <1>2, <3>1 DEF ReaperThread, ReaperStep, StartSweep,
         ReadMissing, ReadAbandoned, SweepDegraded, IncrTile, Republish,
         BlobGone, GiveUp, Stamp, ReaperError, Leave, At, NextTile,
         ReaperTypeOK
    <3>2. ASSUME NEW r \in Replica, Degrade(r)
          PROVE  rpc[m] = "sweep" \/ r = m
      BY <1>1, <1>2, <3>2 DEF Degrade, At, ReaperTypeOK
    <3>3. ASSUME NEW r \in Replica, MasterCrash(r)
          PROVE  rpc[m] = "sweep"
      BY <1>1, <1>2, <3>3 DEF MasterCrash, Leave, ReaperTypeOK
    <3>4. CASE UNCHANGED rpc
      BY <1>2, <3>4
    <3> QED
      BY <3>1, <3>2, <3>3, <3>4 DEF Next, Stage, Produce, UploadError,
         UploadCrash, Working, WorkerStore, WorkerPublish, WorkerDrop,
         Listener, Handle, RequestArrives, ReadTiles, FetchResults,
         MarkCompleted, ForgetTiles, ForgetAttempts, SweepCompleted, Serve,
         RequestError, Handoff, GraceElapses, masterVars, reaperVars, vars
  <2>2. CASE rpc[m] = "sweep"
    BY <2>2 DEF SourceInv
  <2>3. CASE Degrade(m)
    BY <2>3 DEF Degrade, SetStatus
  <2> QED
    BY <2>1, <2>2, <2>3
<1>3. ASSUME NEW h \in Request, hpc'[h] \in {"forget", "attempts", "sweep"}
      PROVE  status' # "processing"
  <2>1. hpc[h] \in {"forget", "attempts", "sweep"} \/ MarkCompleted(h)
    <3>1. ASSUME NEW g \in Request, Handle(g) \/ RequestError(g)
          PROVE  \/ hpc[h] \in {"forget", "attempts", "sweep"}
                 \/ MarkCompleted(h)
      BY <1>1, <1>3, <3>1 DEF Handle, RequestArrives, ReadTiles,
         FetchResults, MarkCompleted, ForgetTiles, ForgetAttempts,
         SweepCompleted, Serve, RequestError
    <3>2. CASE UNCHANGED hpc
      BY <1>3, <3>2
    <3> QED
      BY <3>1, <3>2 DEF Next, Stage, Produce, UploadError,
         UploadCrash, Working, WorkerStore, WorkerPublish, WorkerDrop,
         Listener, ReaperThread, Handoff, MasterCrash, GraceElapses,
         requestVars, vars
  <2>2. CASE hpc[h] \in {"forget", "attempts", "sweep"}
    BY <2>2 DEF SourceInv
  <2>3. CASE MarkCompleted(h)
    BY <2>3 DEF MarkCompleted, SetStatus
  <2> QED
    BY <2>1, <2>2, <2>3
<1>4. ASSUME status' = "processing"
      PROVE  taskBlob \subseteq taskBlob'
  <2>1. ASSUME NEW m \in Replica, ReaperThread(m)
        PROVE  UNCHANGED taskBlob
    <3>1. rpc[m] # "sweep"
      BY <1>4, <2>1 DEF SourceInv
    <3> QED
      BY <2>1, <3>1 DEF ReaperThread, ReaperStep, StartSweep, ReadMissing,
         ReadAbandoned, Degrade, SweepDegraded, IncrTile, Republish, BlobGone,
         GiveUp, Stamp, ReaperError, storeVars, blobVars
  <2>2. ASSUME NEW h \in Request, Handle(h) \/ RequestError(h)
        PROVE  UNCHANGED taskBlob
    <3>1. hpc[h] # "sweep"
      BY <1>4, <2>2 DEF SourceInv
    <3> QED
      BY <2>2, <3>1 DEF Handle, RequestArrives, ReadTiles, FetchResults,
         MarkCompleted, ForgetTiles, ForgetAttempts, SweepCompleted, Serve,
         RequestError, blobVars
  <2>3. ASSUME NEW m \in Replica, Listener(m)
        PROVE  UNCHANGED taskBlob
    BY <2>3 DEF Listener, ConsumerStep, Open, Assign, Close, Poll, Record,
       Count, Hlen, GetJob, Flip, Commit, Evict, ConsumerError, storeVars,
       blobVars
  <2>4. ASSUME NEW t \in Tile,
               Stage(t) \/ Produce(t) \/ UploadError(t) \/ Working(t)
        PROVE  taskBlob \subseteq taskBlob'
    BY <2>4 DEF Stage, PutTask, Produce, UploadError, Working, WorkerStore,
       WorkerPublish, WorkerDrop, PutResult, blobVars
  <2> QED
    BY <2>1, <2>2, <2>3, <2>4 DEF Next, UploadCrash, Handoff, MasterCrash,
       GraceElapses, vars, storeVars, blobVars
<1>5. ASSUME NEW t \in Tile
      PROVE  \/ dispatched'[t] = dispatched[t]
             \/ upload[t] = "produce"
             \/ t \in taskBlob
  <2>1. CASE \E u \in Tile : Produce(u)
    <3>1. PICK u \in Tile : Produce(u)
      BY <2>1
    <3>2. dispatched' = [dispatched EXCEPT ![u] = @ + 1] /\ upload[u] = "produce"
      BY <3>1 DEF Produce, ProduceTask
    <3> QED
      BY <1>1, <3>2
  <2>2. ASSUME NEW m \in Replica, ReaperThread(m)
        PROVE  dispatched'[t] = dispatched[t] \/ t \in taskBlob
    <3>1. CASE Republish(m)
      <4>1. PICK u \in rtile[m] : dispatched' = [dispatched EXCEPT ![u] = @ + 1]
        BY <3>1 DEF Republish, ProduceTask
      <4>2. u \in taskBlob
        BY <3>1 DEF Republish
      <4> QED
        BY <1>1, <4>1, <4>2
    <3>2. CASE ~Republish(m)
      BY <2>2, <3>2 DEF ReaperThread, ReaperStep, StartSweep, ReadMissing,
         ReadAbandoned, Degrade, SweepDegraded, IncrTile, BlobGone, GiveUp,
         Stamp, ReaperError, storeVars, taskVars
    <3> QED
      BY <3>1, <3>2
  <2>3. ASSUME NEW m \in Replica, Listener(m)
        PROVE  UNCHANGED dispatched
    BY <2>3 DEF Listener, ConsumerStep, Open, Assign, Close, Poll, Record,
       Count, Hlen, GetJob, Flip, Commit, Evict, ConsumerError, storeVars,
       taskVars
  <2>4. ASSUME NEW h \in Request, Handle(h) \/ RequestError(h)
        PROVE  UNCHANGED dispatched
    BY <2>4 DEF Handle, RequestArrives, ReadTiles, FetchResults,
       MarkCompleted, ForgetTiles, ForgetAttempts, SweepCompleted, Serve,
       RequestError, taskVars
  <2>5. ASSUME NEW u \in Tile, Working(u)
        PROVE  UNCHANGED dispatched
    BY <2>5 DEF Working, WorkerStore, WorkerPublish, WorkerDrop, CommitTask,
       taskVars
  <2> QED
    BY <2>1, <2>2, <2>3, <2>4, <2>5 DEF Next, Stage, UploadError, UploadCrash,
       Handoff, MasterCrash, GraceElapses, vars, storeVars, taskVars
<1>6. ASSUME NEW t \in Tile, upload'[t] = "produce"
      PROVE  upload[t] = "produce" \/ t \in taskBlob'
  <2>1. ASSUME NEW u \in Tile, Stage(u) \/ Produce(u) \/ UploadError(u)
        PROVE  upload[t] = "produce" \/ t \in taskBlob'
    BY <1>1, <1>6, <2>1 DEF Stage, PutTask, Produce, UploadError
  <2>2. CASE UploadCrash
    BY <1>6, <2>2 DEF UploadCrash
  <2>3. CASE UNCHANGED upload
    BY <1>6, <2>3
  <2> QED
    BY <2>1, <2>2, <2>3 DEF Next, Working, WorkerStore, WorkerPublish,
       WorkerDrop, Listener, ReaperThread, Handle, RequestArrives, ReadTiles,
       FetchResults, MarkCompleted, ForgetTiles, ForgetAttempts,
       SweepCompleted, Serve, RequestError, Handoff, MasterCrash,
       GraceElapses, uploadVars, vars
<1>7. ASSUME status' = "processing", NEW t \in Tile,
             dispatched'[t] > 0 \/ upload'[t] = "produce"
      PROVE  t \in taskBlob'
  <2>1. dispatched[t] > 0 \/ upload[t] = "produce" \/ t \in taskBlob'
    BY <1>4, <1>5, <1>6, <1>7
  <2>2. status = "processing"
    BY <1>7
  <2> QED
    BY <1>4, <1>7, <2>1, <2>2 DEF SourceInv
<1> QED
  BY <1>2, <1>3, <1>7 DEF SourceInv

\* As long as a job is processing, the input of every tile that was ever
\* produced is in the object store, so that a retry of it can succeed: nobody
\* sweeps the blobs before the status has changed for good
\* (master/reaper.py:179-188, master/app.py:296-304).
THEOREM RetriesHaveTheirSource == Spec => []SourceKept
<1>1. Init => SourceInv
  BY DEF Init, StoreInit, ReaperInit, SourceInv
<1>2. SourceInv => SourceKept
  BY DEF SourceInv, SourceKept
<1>3. TInv /\ SourceInv /\ [Next]_vars => TInv' /\ SourceInv'
  BY TypeInductive, SourceInductive
<1> QED
  BY <1>1, <1>2, <1>3, InitType, PTL DEF Spec

----------------------------------------------------------------------------
(* Which steps touch the consumers, the topic and the request handlers.    *)

\* Only the listeners and a crash move a consumer.
LEMMA ConsumerNext ==
    ASSUME [Next]_vars
    PROVE  \/ UNCHANGED consumerVars
           \/ \E m \in Replica : Listener(m) \/ MasterCrash(m)
BY DEF Next, Stage, Produce, UploadError, UploadCrash, Working, WorkerStore,
   WorkerPublish, WorkerDrop, ReaperThread, Handle, RequestArrives, ReadTiles,
   FetchResults, MarkCompleted, ForgetTiles, ForgetAttempts, SweepCompleted,
   Serve, RequestError, Handoff, GraceElapses, masterVars, vars

\* A listener and a crash leave the other replicas' consumers alone.
LEMMA ConsumerFrame ==
    ASSUME TInv, NEW m \in Replica, Listener(m) \/ MasterCrash(m),
           NEW r \in Replica, r # m
    PROVE  /\ cpc'[r] = cpc[r]
           /\ pos'[r] = pos[r]
           /\ distinct'[r] = distinct[r]
<1>1. ConsumerTypeOK
  BY DEF TInv, TypeOK
<1> QED
  BY <1>1 DEF Listener, ConsumerStep, Open, Assign, Close, Poll, Record, Count,
     Hlen, GetJob, Flip, Commit, Evict, ConsumerError, MasterCrash,
     ConsumerCrash, Goto, ConsumerTypeOK

\* The results topic only grows.
LEMMA LogGrows ==
    ASSUME TInv, [Next]_vars
    PROVE  /\ Len(log) \in Nat /\ Len(log') \in Nat
           /\ Len(log) <= Len(log')
           /\ \A i \in 1..Len(log) : log'[i] = log[i]
<1>1. log \in Seq(Tile)
  BY DEF TInv, TypeOK, StoreTypeOK
<1>2. log' = log \/ \E t \in Tile : log' = Append(log, t)
  <2>1. ASSUME NEW t \in Tile, Working(t)
        PROVE  log' = log \/ log' = Append(log, t)
    BY <2>1 DEF Working, WorkerStore, WorkerPublish, WorkerDrop, resultVars
  <2>2. ASSUME NEW m \in Replica, Listener(m) \/ ReaperThread(m)
        PROVE  log' = log
    BY <2>2 DEF Listener, ConsumerStep, Open, Assign, Close, Poll, Record,
       Count, Hlen, GetJob, Flip, Commit, Evict, ConsumerError, ReaperThread,
       ReaperStep, StartSweep, ReadMissing, ReadAbandoned, Degrade,
       SweepDegraded, IncrTile, Republish, BlobGone, GiveUp, Stamp,
       ReaperError, storeVars, resultVars
  <2> QED
    BY <2>1, <2>2 DEF Next, Stage, Produce, UploadError, UploadCrash, Handle,
       RequestArrives, ReadTiles, FetchResults, MarkCompleted, ForgetTiles,
       ForgetAttempts, SweepCompleted, Serve, RequestError, Handoff,
       MasterCrash, GraceElapses, vars, storeVars, resultVars
<1> QED
  BY <1>1, <1>2

----------------------------------------------------------------------------
(* What any listener does with its messages.  The detection jobs have the  *)
(* same loop, so this is stated of a step, not of the actions.             *)

\* The listener of m stays where it is, or takes a step of the loop in which no
\* Redis command raises.
Advances(m) ==
    \/ cpc'[m] = cpc[m] /\ pos'[m] = pos[m] /\ distinct'[m] = distinct[m]
    \/ /\ cpc[m] = "poll" /\ cpc'[m] = "record"
       /\ pos[m] < Len(log) /\ pos'[m] = pos[m] + 1
    \/ /\ pos'[m] = pos[m]
       /\ \/ /\ cpc[m] = "record" /\ cpc'[m] \in {"count", "hlen"}
             /\ tiles' = tiles \cup {log[pos[m]]}
          \/ cpc[m] = "count" /\ cpc'[m] = "hlen"
          \/ /\ cpc[m] = "hlen" /\ cpc'[m] = "get_job"
             /\ distinct'[m] = Cardinality(tiles)
          \/ /\ cpc[m] = "get_job"
             /\ cpc'[m] = IF Complete(status, distinct[m]) THEN "flip" ELSE "commit"
          \/ cpc[m] = "flip" /\ status' # "processing"
          \/ cpc[m] \notin {"poll", "record", "count", "hlen", "get_job", "flip"}

\* The listener of p records its message and changes nothing else.
Records(p) ==
    /\ cpc[p] = "record" /\ cpc'[p] \in {"count", "hlen"}
    /\ tiles' = tiles \cup {log[pos[p]]}
    /\ \A m \in Replica : m # p => cpc'[m] = cpc[m]
    /\ UNCHANGED <<log, committed, owner, pos>>

\* The topic only grows; only the owner of the partition commits, what it has
\* read; a new owner starts at the committed offset; a tile is recorded from a
\* message; no job is processing again.
Handled ==
    /\ Len(log') \in Nat /\ Len(log) <= Len(log')
    /\ \A i \in 1..Len(log) : log'[i] = log[i]
    /\ \/ committed' = committed
       \/ \E m \in Replica : cpc[m] = "commit" /\ owner = m /\ committed' = pos[m]
    /\ \A m \in Replica : owner' = m =>
          \/ pos'[m] = committed
          \/ owner = m /\ Advances(m)
    /\ ~cleaned' => ~cleaned /\ tiles \subseteq tiles'
    /\ ~cleaned' /\ tiles' = Tile /\ tiles # Tile => \E p \in Replica : Records(p)
    /\ status' = "processing" => status = "processing"

\* What is known of the messages and the listeners.
HandlingType ==
    /\ log \in Seq(Tile)
    /\ committed \in Nat
    /\ pos \in [Replica -> Nat]
    /\ distinct \in [Replica -> Nat]
    /\ \A m \in Replica : cpc[m] = "record" => pos[m] \in 1..Len(log)

----------------------------------------------------------------------------
(* A committed result is recorded.                                         *)

\* What the consumer that has the partition has read is recorded, but for the
\* message it is about to record.
CommitInv ==
    /\ committed <= Len(log)
    /\ \A m \in Replica : owner = m => pos[m] <= Len(log)
    /\ ~cleaned =>
          /\ CommittedIsRecorded
          /\ \A m \in Replica : owner = m =>
                \A i \in 1..pos[m] :
                   log[i] \in tiles \/ (cpc[m] = "record" /\ i = pos[m])

LEMMA CommitStep ==
    ASSUME HandlingType, CommitInv, Handled
    PROVE  CommitInv'
<1>1. /\ committed \in Nat /\ pos \in [Replica -> Nat]
      /\ Len(log) \in Nat /\ Len(log') \in Nat /\ Len(log) <= Len(log')
      /\ \A i \in 1..Len(log) : log'[i] = log[i]
  BY DEF HandlingType, Handled
<1>2. committed <= Len(log) /\ \A m \in Replica : owner = m => pos[m] <= Len(log)
  BY DEF CommitInv
<1>3. \/ committed' = committed
      \/ \E m \in Replica : cpc[m] = "commit" /\ owner = m /\ committed' = pos[m]
  BY DEF Handled
<1>4. committed' <= Len(log) /\ committed' \in Nat
  BY <1>1, <1>2, <1>3
\* Where an owner of the partition is.
<1>5. ASSUME NEW m \in Replica, owner' = m
      PROVE  \/ pos'[m] = committed
             \/ owner = m /\ pos[m] < Len(log) /\ pos'[m] = pos[m] + 1 /\ cpc[m] = "poll" /\ cpc'[m] = "record"
             \/ owner = m /\ pos'[m] = pos[m] /\ cpc[m] = "record" /\ tiles' = tiles \cup {log[pos[m]]}
             \/ owner = m /\ pos'[m] = pos[m] /\ (cpc[m] = "record" => cpc'[m] = "record")
  BY <1>5 DEF Handled, Advances
<1>6. ASSUME NEW m \in Replica, owner' = m
      PROVE  pos'[m] \in Nat /\ pos'[m] <= Len(log)
  BY <1>1, <1>2, <1>5, <1>6
<1>7. ASSUME ~cleaned'
      PROVE  /\ CommittedIsRecorded'
             /\ \A m \in Replica : owner' = m =>
                   \A i \in 1..pos'[m] :
                      log'[i] \in tiles' \/ (cpc'[m] = "record" /\ i = pos'[m])
  <2>1. ~cleaned /\ tiles \subseteq tiles'
    BY <1>7 DEF Handled
  <2>2. \A i \in 1..committed : log[i] \in tiles
    BY <2>1 DEF CommitInv, CommittedIsRecorded
  <2>3. \A m \in Replica : owner = m =>
           \A i \in 1..pos[m] :
              log[i] \in tiles \/ (cpc[m] = "record" /\ i = pos[m])
    BY <2>1 DEF CommitInv
  <2>4. CommittedIsRecorded'
    <3>1. \A i \in 1..committed' : log[i] \in tiles
      BY <1>3, <2>2, <2>3
    <3>2. \A i \in 1..committed' : log'[i] \in tiles'
      BY <1>1, <1>4, <2>1, <3>1
    <3> QED
      BY <3>2 DEF CommittedIsRecorded
  <2>5. ASSUME NEW m \in Replica, owner' = m, NEW i \in 1..pos'[m]
        PROVE  log'[i] \in tiles' \/ (cpc'[m] = "record" /\ i = pos'[m])
    <3>1. i \in 1..Len(log) /\ log'[i] = log[i]
      BY <1>1, <1>6, <2>5
    <3>2. CASE pos'[m] = committed
      BY <2>1, <2>2, <2>5, <3>1, <3>2
    <3>3. CASE /\ owner = m /\ pos[m] < Len(log) /\ pos'[m] = pos[m] + 1
               /\ cpc[m] = "poll" /\ cpc'[m] = "record"
      BY <1>1, <2>1, <2>3, <2>5, <3>1, <3>3
    <3>4. CASE /\ owner = m /\ pos'[m] = pos[m]
               /\ cpc[m] = "record" /\ tiles' = tiles \cup {log[pos[m]]}
      BY <2>3, <2>5, <3>1, <3>4
    <3>5. CASE owner = m /\ pos'[m] = pos[m] /\ (cpc[m] = "record" => cpc'[m] = "record")
      BY <2>1, <2>3, <2>5, <3>1, <3>5
    <3> QED
      BY <1>5, <2>5, <3>2, <3>3, <3>4, <3>5
  <2> QED
    BY <2>4, <2>5
<1> QED
  BY <1>1, <1>4, <1>6, <1>7 DEF CommitInv

----------------------------------------------------------------------------
(* A job with every tile recorded is decided on.                           *)

\* The last tile is recorded from a message that is not committed, and that no
\* owner of the partition has left behind.
LEMMA OwedFirst ==
    ASSUME HandlingType, CommitInv, Handled, ~cleaned', tiles' = Tile, tiles # Tile
    PROVE  /\ committed' < Len(log')
           /\ \A m \in Replica :
                 owner' = m => pos'[m] < Len(log') \/ Deciding(m)'
<1>1. PICK p \in Replica : Records(p)
  BY DEF Handled
<1> DEFINE j == pos[p]
<1>2. /\ j \in 1..Len(log) /\ Len(log) \in Nat
      /\ committed \in Nat /\ pos \in [Replica -> Nat]
  BY <1>1 DEF HandlingType, Records
<1>3. /\ log' = log /\ committed' = committed /\ owner' = owner /\ pos' = pos
      /\ tiles' = tiles \cup {log[j]}
      /\ cpc'[p] \in {"count", "hlen"}
      /\ \A m \in Replica : m # p => cpc'[m] = cpc[m]
  BY <1>1 DEF Records
<1>4. log[j] \notin tiles /\ ~cleaned
  BY <1>3 DEF Handled
<1>5. /\ \A i \in 1..committed : log[i] \in tiles
      /\ \A m \in Replica : owner = m =>
            \A i \in 1..pos[m] :
               log[i] \in tiles \/ (cpc[m] = "record" /\ i = pos[m])
  BY <1>4 DEF CommitInv, CommittedIsRecorded
<1>6. committed < j /\ j <= Len(log)
  BY <1>2, <1>4, <1>5
<1>7. ASSUME NEW m \in Replica, owner' = m
      PROVE  pos'[m] < Len(log') \/ Deciding(m)'
  <2>1. pos[m] < j \/ cpc[m] = "record"
    BY <1>2, <1>3, <1>4, <1>5, <1>7
  <2>2. CASE pos[m] < j
    BY <1>2, <1>3, <1>6, <2>2
  <2>3. CASE cpc[m] = "record"
    BY <1>3, <2>3 DEF Deciding
  <2> QED
    BY <2>1, <2>2, <2>3
<1> QED
  BY <1>2, <1>3, <1>6, <1>7

\* What the owner of the partition does when every tile is there.
LEMMA OwnerDecides ==
    ASSUME HandlingType, NEW m \in Replica, Advances(m), Len(log) <= Len(log'),
           Len(log') \in Nat,
           status = "processing", status' = "processing", tiles = Tile,
           pos[m] < Len(log) \/ Deciding(m)
    PROVE  pos'[m] < Len(log') \/ Deciding(m)'
<1>1. /\ pos[m] \in Nat /\ Len(log) \in Nat /\ distinct[m] \in Nat
      /\ expected_tiles = Cardinality(tiles) /\ expected_tiles' = expected_tiles
      /\ expected_tiles \in Nat
  BY JobStoreAssumption, FS_CardinalityType DEF HandlingType, expected_tiles
<1>2. CASE cpc'[m] = cpc[m] /\ pos'[m] = pos[m] /\ distinct'[m] = distinct[m]
  BY <1>1, <1>2 DEF Deciding
<1>3. CASE cpc'[m] \in {"record", "count", "hlen"}
  BY <1>3 DEF Deciding
<1>4. CASE cpc'[m] = "get_job" /\ distinct'[m] = Cardinality(tiles)
  BY <1>1, <1>4 DEF Deciding
<1>5. CASE /\ cpc[m] = "get_job" /\ pos'[m] = pos[m]
           /\ cpc'[m] = IF Complete(status, distinct[m]) THEN "flip" ELSE "commit"
  <2>1. CASE pos[m] < Len(log)
    BY <1>1, <1>5, <2>1
  <2>2. CASE Deciding(m)
    <3>1. Complete(status, distinct[m])
      BY <1>5, <2>2 DEF Deciding, Complete
    <3> QED
      BY <1>5, <3>1 DEF Deciding
  <2> QED
    BY <2>1, <2>2
<1>6. CASE /\ cpc[m] \notin {"poll", "record", "count", "hlen", "get_job", "flip"}
           /\ pos'[m] = pos[m]
  <2>1. pos[m] < Len(log)
    BY <1>6 DEF Deciding
  <2> QED
    BY <1>1, <1>6, <2>1
<1> QED
  BY <1>2, <1>3, <1>4, <1>5, <1>6 DEF Advances

LEMMA OwedStep ==
    ASSUME HandlingType, CommitInv, ReadyIsOwed, Handled
    PROVE  ReadyIsOwed'
<1> SUFFICES ASSUME status' = "processing", ~cleaned', tiles' = Tile
             PROVE  /\ committed' < Len(log')
                    /\ \A m \in Replica :
                          owner' = m => pos'[m] < Len(log') \/ Deciding(m)'
  BY DEF ReadyIsOwed
<1>1. CASE tiles # Tile
  BY <1>1, OwedFirst
<1>2. CASE tiles = Tile
  <2>1. status = "processing" /\ ~cleaned
    BY DEF Handled
  <2>2. /\ committed < Len(log)
        /\ \A m \in Replica : owner = m => pos[m] < Len(log) \/ Deciding(m)
    BY <1>2, <2>1 DEF ReadyIsOwed
  <2>3. /\ Len(log) \in Nat /\ Len(log') \in Nat /\ Len(log) <= Len(log')
        /\ committed \in Nat /\ pos \in [Replica -> Nat]
    BY DEF HandlingType, Handled
  <2>4. committed' < Len(log')
    <3>1. ASSUME NEW m \in Replica, cpc[m] = "commit", owner = m
          PROVE  pos[m] < Len(log')
      BY <2>2, <2>3, <3>1 DEF Deciding
    <3> QED
      BY <2>2, <2>3, <3>1 DEF Handled
  <2>5. ASSUME NEW m \in Replica, owner' = m
        PROVE  pos'[m] < Len(log') \/ Deciding(m)'
    <3>1. CASE pos'[m] = committed
      BY <2>2, <2>3, <3>1
    <3>2. CASE owner = m /\ Advances(m)
      BY <1>2, <2>1, <2>2, <2>3, <3>2, OwnerDecides
    <3> QED
      BY <2>5, <3>1, <3>2 DEF Handled
  <2> QED
    BY <2>4, <2>5
<1> QED
  BY <1>1, <1>2

----------------------------------------------------------------------------
(* The listeners of the OpenCV pipeline.                                   *)

\* Only the owner of the partition commits, what it has read.
LEMMA CommittedNext ==
    ASSUME [Next]_vars
    PROVE  \/ committed' = committed
           \/ \E m \in Replica : Commit(m) /\ owner = m /\ committed' = pos[m]
<1>1. ASSUME NEW m \in Replica, Listener(m)
      PROVE  \/ committed' = committed
             \/ Commit(m) /\ owner = m /\ committed' = pos[m]
  BY <1>1 DEF Listener, ConsumerStep, Open, Assign, Close, Poll, Record,
     Count, Hlen, GetJob, Flip, Commit, Evict, ConsumerError, storeVars,
     resultVars
<1>2. ASSUME NEW m \in Replica, ReaperThread(m)
      PROVE  committed' = committed
  BY <1>2 DEF ReaperThread, ReaperStep, StartSweep, ReadMissing,
     ReadAbandoned, Degrade, SweepDegraded, IncrTile, Republish, BlobGone,
     GiveUp, Stamp, ReaperError, storeVars, resultVars
<1> QED
  BY <1>1, <1>2 DEF Next, Stage, Produce, UploadError, UploadCrash, Working,
     WorkerStore, WorkerPublish, WorkerDrop, Handle, RequestArrives,
     ReadTiles, FetchResults, MarkCompleted, ForgetTiles, ForgetAttempts,
     SweepCompleted, Serve, RequestError, Handoff, MasterCrash,
     GraceElapses, vars, storeVars, resultVars

\* The owner of the partition has just been assigned it, or was its owner.
LEMMA OwnerNext ==
    ASSUME TInv, [Next]_vars, NEW m \in Replica, owner' = m
    PROVE  \/ Assign(m)
           \/ owner = m /\ Listener(m)
           \/ /\ owner = m
              /\ cpc'[m] = cpc[m] /\ pos'[m] = pos[m] /\ distinct'[m] = distinct[m]
<1>1. owner \in Replica \cup {None}
  BY DEF TInv, TypeOK, ConsumerTypeOK
<1>2. CASE UNCHANGED consumerVars
  BY <1>2 DEF consumerVars
<1>3. ASSUME NEW r \in Replica, Listener(r) \/ MasterCrash(r), r # m
      PROVE  /\ owner = m
             /\ cpc'[m] = cpc[m] /\ pos'[m] = pos[m] /\ distinct'[m] = distinct[m]
  <2>1. owner = m
    BY <1>1, <1>3, PipelineAssumption
       DEF Listener, ConsumerStep, Open, Assign, Close, Poll, Record,
           Count, Hlen, GetJob, Flip, Commit, Evict, ConsumerError,
           MasterCrash, ConsumerCrash
  <2> QED
    BY <1>3, <2>1, ConsumerFrame
<1>4. CASE Listener(m)
  BY <1>1, <1>4, PipelineAssumption
     DEF Listener, ConsumerStep, Open, Close, Poll, Record, Count, Hlen,
         GetJob, Flip, Commit, Evict, ConsumerError
<1>5. CASE MasterCrash(m)
  BY <1>1, <1>5, PipelineAssumption DEF MasterCrash, ConsumerCrash
<1> QED
  BY <1>2, <1>3, <1>4, <1>5, ConsumerNext

\* Only a listener that records it makes the last tile arrive.
LEMMA LastTile ==
    ASSUME [Next]_vars, ~cleaned', tiles' = Tile, tiles # Tile
    PROVE  \E p \in Replica : Record(p) /\ Listener(p)
<1>1. ASSUME NEW m \in Replica, ReaperThread(m)
      PROVE  tiles' = tiles
  BY <1>1 DEF ReaperThread, ReaperStep, StartSweep, ReadMissing, ReadAbandoned,
     Degrade, SweepDegraded, IncrTile, Republish, BlobGone, GiveUp, Stamp,
     ReaperError, storeVars, redisVars, SetStatus, IncrAttempts, AddAbandoned,
     SetLastReapTime
<1>2. ASSUME NEW h \in Request, Handle(h) \/ RequestError(h)
      PROVE  tiles' = tiles
  BY <1>2 DEF Handle, RequestArrives, ReadTiles, FetchResults, MarkCompleted,
     ForgetTiles, ForgetAttempts, SweepCompleted, RequestError, redisVars,
     SetStatus, DeleteTiles, DeleteAttempts
<1>3. ASSUME NEW m \in Replica, Listener(m), ~Record(m)
      PROVE  tiles' = tiles
  BY <1>3 DEF Listener, ConsumerStep, Open, Assign, Close, Poll, Count, Hlen,
     GetJob, Flip, Commit, Evict, ConsumerError, storeVars, redisVars,
     SetStatus, CountTile
<1>4. \/ tiles' = tiles
      \/ \E m \in Replica : Listener(m)
      \/ \E m \in Replica : ReaperThread(m)
      \/ \E h \in Request : Handle(h) \/ RequestError(h)
  BY DEF Next, Stage, Produce, UploadError, UploadCrash, Working, WorkerStore,
     WorkerPublish, WorkerDrop, Handoff, MasterCrash, GraceElapses, vars,
     storeVars, redisVars
<1> QED
  BY <1>1, <1>2, <1>3, <1>4

\* Every step, as long as no Redis command of a listener raises.
LEMMA NextHandled ==
    ASSUME "consumer" \notin FaultKinds, TInv, [Next]_vars
    PROVE  Handled
<1>1. /\ owner \in Replica \cup {None}
      /\ cpc \in [Replica -> ConsumerPc]
      /\ pos \in [Replica -> Nat]
      /\ distinct \in [Replica -> Nat]
  BY DEF TInv, TypeOK, ConsumerTypeOK
<1>2. ASSUME NEW m \in Replica, owner' = m
      PROVE  pos'[m] = committed \/ (owner = m /\ Advances(m))
  <2>1. CASE Assign(m)
    BY <1>1, <2>1 DEF Assign
  <2>2. CASE owner = m /\ Listener(m)
    <3>1. /\ ~Assign(m) /\ ~Close(m) /\ ~Evict(m)
          /\ ~ConsumerError(m, "ready_for_reconstruction")
      BY <1>1, <1>2, <2>2, PipelineAssumption
         DEF Assign, Close, Evict, ConsumerError, Fault
    <3> QED
      BY <1>1, <2>2, <3>1
         DEF Advances, Listener, ConsumerStep, Open, Poll, Record, RecordTile,
             Current, Count, Hlen, GetJob, Flip, SetStatus, Commit, Goto
  <2>3. CASE /\ owner = m
             /\ cpc'[m] = cpc[m] /\ pos'[m] = pos[m] /\ distinct'[m] = distinct[m]
    BY <2>3 DEF Advances
  <2> QED
    BY <1>2, <2>1, <2>2, <2>3, OwnerNext
<1>3. ASSUME ~cleaned', tiles' = Tile, tiles # Tile
      PROVE  \E p \in Replica : Records(p)
  <2>1. PICK p \in Replica : Record(p) /\ Listener(p)
    BY <1>3, LastTile
  <2>2. \A m \in Replica : m # p => cpc'[m] = cpc[m]
    BY <2>1, ConsumerFrame
  <2> QED
    BY <1>1, <2>1, <2>2 DEF Records, Record, RecordTile, Current, Goto, resultVars
<1>4. \/ committed' = committed
      \/ \E m \in Replica : cpc[m] = "commit" /\ owner = m /\ committed' = pos[m]
  BY CommittedNext DEF Commit
<1>5. ~cleaned' => ~cleaned /\ tiles \subseteq tiles'
  BY Monotonic
<1>6. /\ Len(log') \in Nat /\ Len(log) <= Len(log')
      /\ \A i \in 1..Len(log) : log'[i] = log[i]
  BY LogGrows
<1>7. status' = "processing" => status = "processing"
  BY NeverReprocessed
<1> QED
  BY <1>2, <1>3, <1>4, <1>5, <1>6, <1>7 DEF Handled

\* The two invariants are inductive together with the types.
LEMMA OwedInductive ==
    ASSUME "consumer" \notin FaultKinds
    PROVE  /\ Init => CommitInv /\ ReadyIsOwed
           /\ TInv /\ CommitInv /\ ReadyIsOwed /\ [Next]_vars
                 => TInv' /\ CommitInv' /\ ReadyIsOwed'
<1>1. Init => CommitInv /\ ReadyIsOwed
  <2> SUFFICES ASSUME Init
               PROVE  CommitInv /\ ReadyIsOwed
    OBVIOUS
  <2>1. Len(log) = 0 /\ committed = 0 /\ owner = None /\ tiles = {}
    BY DEF Init, StoreInit, ConsumerInit
  <2> QED
    BY <2>1, JobStoreAssumption, PipelineAssumption
       DEF CommitInv, CommittedIsRecorded, ReadyIsOwed
<1>2. TInv => HandlingType
  BY DEF TInv, TypeOK, StoreTypeOK, ConsumerTypeOK, PlaceInv, HandlingType
<1>3. TInv /\ CommitInv /\ ReadyIsOwed /\ [Next]_vars
         => TInv' /\ CommitInv' /\ ReadyIsOwed'
  BY <1>2, TypeInductive, NextHandled, CommitStep, OwedStep
<1> QED
  BY <1>1, <1>3

\* As long as no Redis command of a listener raises, no result is lost by a
\* crash, a handoff or a failed commit: whatever consumer commits an offset,
\* every message before it is recorded (master/results_consumer.py:86-99).
THEOREM CommittedResultsAreRecorded ==
    ASSUME "consumer" \notin FaultKinds
    PROVE  Spec => []CommittedIsRecorded
<1>1. CommitInv => CommittedIsRecorded
  BY DEF CommitInv, CommittedIsRecorded
<1> QED
  BY <1>1, OwedInductive, InitType, PTL DEF Spec

\* The safety half of JobSettles: no crash, handoff, eviction or failed commit
\* leaves a job that has every tile to nobody.  As long as no Redis command of a
\* listener raises, an uncommitted message remains, and whoever has the
\* partition, or gets it, decides on it (master/results_consumer.py:57-63,
\* 115-127).
THEOREM CompleteJobIsDecided ==
    ASSUME "consumer" \notin FaultKinds
    PROVE  Spec => []ReadyIsOwed
BY OwedInductive, InitType, PTL DEF Spec

----------------------------------------------------------------------------
(* The counter never runs ahead.                                           *)

\* The recorded tiles that no listener is about to count.
Counted ==
    {t \in tiles : \A m \in Replica : cpc[m] = "count" => log[pos[m]] # t}

\* Two listeners are never about to count the same tile, and the counter is at
\* most the number of the others.
CountInv ==
    /\ \A m \in Replica : cpc[m] = "count" => pos[m] \in 1..Len(log)
    /\ ~cleaned =>
          /\ \A m \in Replica : cpc[m] = "count" => log[pos[m]] \in tiles
          /\ \A m, n \in Replica :
                cpc[m] = "count" /\ cpc[n] = "count" /\ log[pos[m]] = log[pos[n]]
                    => m = n
          /\ count <= Cardinality(Counted)

\* A set of tiles is finite, and a smaller one has no more of them.
LEMMA TileCardinality ==
    ASSUME NEW S \in SUBSET Tile, NEW T \in SUBSET Tile
    PROVE  /\ IsFiniteSet(S) /\ Cardinality(S) \in Nat
           /\ S \subseteq T => Cardinality(S) <= Cardinality(T)
           /\ \A t \in Tile \ S : Cardinality(S \cup {t}) = Cardinality(S) + 1
<1>1. IsFiniteSet(S) /\ IsFiniteSet(T)
  BY FS_Subset, JobStoreAssumption
<1>2. Cardinality(S) \in Nat
  BY <1>1, FS_CardinalityType
<1>3. S \subseteq T => Cardinality(S) <= Cardinality(T)
  BY <1>1, FS_Subset
<1>4. \A t \in Tile \ S : Cardinality(S \cup {t}) = Cardinality(S) + 1
  BY <1>1, FS_AddElement
<1> QED
  BY <1>1, <1>2, <1>3, <1>4

\* Only the listener that has recorded a new tile is about to count it, and
\* only the one that was about to counts.
LEMMA CountNext ==
    ASSUME TInv, [Next]_vars, NEW m \in Replica, cpc'[m] = "count"
    PROVE  /\ pos'[m] = pos[m]
           /\ \/ cpc[m] = "count"
              \/ Record(m) /\ log[pos[m]] \notin tiles
<1>1. ConsumerTypeOK
  BY DEF TInv, TypeOK
<1>2. CASE UNCHANGED consumerVars
  BY <1>2 DEF consumerVars
<1>3. ASSUME NEW r \in Replica, Listener(r) \/ MasterCrash(r), r # m
      PROVE  pos'[m] = pos[m] /\ cpc[m] = "count"
  BY <1>3, ConsumerFrame
<1>4. CASE Listener(m)
  BY <1>1, <1>4 DEF Listener, ConsumerStep, Open, Assign, Close, Poll, Record,
     Count, Hlen, GetJob, Flip, Commit, Evict, ConsumerError, Goto,
     ConsumerTypeOK, Current
<1>5. CASE MasterCrash(m)
  BY <1>1, <1>5 DEF MasterCrash, ConsumerCrash, Goto, ConsumerTypeOK
<1> QED
  BY <1>2, <1>3, <1>4, <1>5, ConsumerNext

\* Nobody else writes the counter.
LEMMA CounterNext ==
    ASSUME [Next]_vars
    PROVE  count' = count \/ \E m \in Replica : Count(m)
<1>1. ASSUME NEW m \in Replica, Listener(m)
      PROVE  count' = count \/ Count(m)
  BY <1>1 DEF Listener, ConsumerStep, Open, Assign, Close, Poll, Record,
     Hlen, GetJob, Flip, Commit, Evict, ConsumerError, storeVars, redisVars,
     RecordTile, SetStatus
<1>2. ASSUME NEW m \in Replica, ReaperThread(m)
      PROVE  count' = count
  BY <1>2 DEF ReaperThread, ReaperStep, StartSweep, ReadMissing,
     ReadAbandoned, Degrade, SweepDegraded, IncrTile, Republish, BlobGone,
     GiveUp, Stamp, ReaperError, storeVars, redisVars, SetStatus,
     IncrAttempts, AddAbandoned, SetLastReapTime
<1>3. ASSUME NEW h \in Request, Handle(h) \/ RequestError(h)
      PROVE  count' = count
  BY <1>3 DEF Handle, RequestArrives, ReadTiles, FetchResults, MarkCompleted,
     ForgetTiles, ForgetAttempts, SweepCompleted, Serve, RequestError,
     redisVars, SetStatus, DeleteTiles, DeleteAttempts
<1>4. CASE UNCHANGED redisVars \/ GraceElapses \/ UNCHANGED vars
  BY <1>4 DEF redisVars, GraceElapses, vars, storeVars
<1> QED
  BY <1>1, <1>2, <1>3, <1>4 DEF Next, Stage, Produce, UploadError,
     UploadCrash, Working, WorkerStore, WorkerPublish, WorkerDrop, Handoff,
     MasterCrash

LEMMA CountInductive ==
    ASSUME TInv, CountInv, [Next]_vars
    PROVE  CountInv'
<1>1. /\ Len(log) \in Nat /\ Len(log') \in Nat
      /\ Len(log) <= Len(log')
      /\ \A i \in 1..Len(log) : log'[i] = log[i]
  BY LogGrows
<1>2. ASSUME NEW m \in Replica, cpc'[m] = "count"
      PROVE  /\ pos'[m] = pos[m]
             /\ pos[m] \in 1..Len(log)
             /\ log'[pos'[m]] = log[pos[m]]
             /\ \/ cpc[m] = "count"
                \/ Record(m) /\ log[pos[m]] \notin tiles
  <2>1. /\ pos'[m] = pos[m]
        /\ \/ cpc[m] = "count"
           \/ Record(m) /\ log[pos[m]] \notin tiles
    BY <1>2, CountNext
  <2>2. pos[m] \in 1..Len(log)
    BY <2>1 DEF CountInv, TInv, PlaceInv, Record
  <2> QED
    BY <1>1, <2>1, <2>2
<1>3. \A m \in Replica : cpc'[m] = "count" => pos'[m] \in 1..Len(log')
  BY <1>1, <1>2
<1>4. ASSUME ~cleaned'
      PROVE  /\ \A m \in Replica : cpc'[m] = "count" => log'[pos'[m]] \in tiles'
             /\ \A m, n \in Replica :
                   /\ cpc'[m] = "count" /\ cpc'[n] = "count"
                   /\ log'[pos'[m]] = log'[pos'[n]]
                   => m = n
             /\ count' <= Cardinality(Counted')
  <2>1. ~cleaned /\ tiles \subseteq tiles'
    BY <1>4, Monotonic
  <2>2. /\ \A m \in Replica : cpc[m] = "count" => log[pos[m]] \in tiles
        /\ \A m, n \in Replica :
              cpc[m] = "count" /\ cpc[n] = "count" /\ log[pos[m]] = log[pos[n]]
                  => m = n
        /\ count <= Cardinality(Counted)
    BY <2>1 DEF CountInv
  <2>3. ASSUME NEW m \in Replica, cpc'[m] = "count"
        PROVE  log'[pos'[m]] \in tiles'
    BY <1>2, <2>1, <2>2, <2>3 DEF Record, RecordTile, Current
  <2>4. ASSUME NEW m \in Replica, NEW n \in Replica,
               cpc'[m] = "count", cpc'[n] = "count",
               log'[pos'[m]] = log'[pos'[n]]
        PROVE  m = n
    <3>1. ASSUME NEW r \in Replica, NEW s \in Replica, Record(r), Record(s)
          PROVE  r = s
      <4>1. cpc \in [Replica -> ConsumerPc]
        BY DEF TInv, TypeOK, ConsumerTypeOK
      <4>2. cpc[r] = "record" /\ cpc[s] = "record"
        BY <3>1 DEF Record
      <4>3. cpc'[s] # "record"
        BY <4>1, <3>1 DEF Record, Goto
      <4> QED
        BY <4>1, <4>2, <4>3, <3>1 DEF Record, Goto
    <3> QED
      BY <1>2, <2>2, <2>4, <3>1
  <2>5. count' <= Cardinality(Counted')
    <3>1. /\ Counted \in SUBSET Tile
          /\ Counted' \in SUBSET Tile
          /\ count \in Nat
      <4>1. tiles \subseteq Tile /\ tiles' \subseteq Tile /\ count \in Nat
        BY TypeInductive DEF TInv, TypeOK, StoreTypeOK
      <4> QED
        BY <4>1 DEF Counted
    <3>2. Counted \subseteq Counted'
      <4> SUFFICES ASSUME NEW t \in Counted
                   PROVE  t \in Counted'
        OBVIOUS
      <4>1. t \in tiles /\ \A m \in Replica : cpc[m] = "count" => log[pos[m]] # t
        BY DEF Counted
      <4>2. ASSUME NEW m \in Replica, cpc'[m] = "count"
            PROVE  log'[pos'[m]] # t
        BY <1>2, <4>1, <4>2
      <4> QED
        BY <2>1, <4>1, <4>2 DEF Counted
    <3>3. CASE count' = count
      <4>1. Cardinality(Counted) <= Cardinality(Counted')
        BY <3>1, <3>2, TileCardinality
      <4>2. Cardinality(Counted) \in Nat /\ Cardinality(Counted') \in Nat
        BY <3>1, TileCardinality
      <4> QED
        BY <2>2, <3>1, <3>3, <4>1, <4>2
    <3>4. ASSUME NEW m \in Replica, Count(m)
          PROVE  count' <= Cardinality(Counted')
      <4> DEFINE t == log[pos[m]]
      <4>1. cpc[m] = "count" /\ count' = count + 1 /\ cpc'[m] # "count"
        <5>1. ConsumerTypeOK
          BY DEF TInv, TypeOK
        <5> QED
          BY <3>4, <5>1 DEF Count, CountTile, Goto, ConsumerTypeOK
      <4>2. t \in tiles /\ t \notin Counted
        BY <2>2, <4>1 DEF Counted
      <4>3. t \in Counted'
        <5>1. ASSUME NEW n \in Replica, cpc'[n] = "count"
              PROVE  log'[pos'[n]] # t
          BY <1>2, <2>2, <4>1, <4>2, <5>1
        <5> QED
          BY <2>1, <4>2, <5>1 DEF Counted
      <4>4. t \in Tile \ Counted /\ Counted \cup {t} \subseteq Counted'
        <5>1. t \in Tile
          BY <3>1, <4>3
        <5> QED
          BY <3>2, <4>2, <4>3, <5>1
      <4> HIDE DEF t
      <4>5. Cardinality(Counted \cup {t}) = Cardinality(Counted) + 1
        BY <3>1, <4>4, TileCardinality
      <4>6. Cardinality(Counted \cup {t}) <= Cardinality(Counted')
        <5>1. Counted \cup {t} \in SUBSET Tile
          BY <3>1, <4>4
        <5> QED
          BY <3>1, <4>4, <5>1, TileCardinality
      <4>7. Cardinality(Counted) \in Nat /\ Cardinality(Counted') \in Nat
        BY <3>1, TileCardinality
      <4> QED
        BY <2>2, <3>1, <4>1, <4>5, <4>6, <4>7
    <3> QED
      BY <3>3, <3>4, CounterNext
  <2> QED
    BY <2>3, <2>4, <2>5
<1> QED
  BY <1>3, <1>4 DEF CountInv

\* However often a result is delivered again and however many listeners work at
\* once, each recorded tile is counted at most once
\* (record_tile_result(), app/jobstore.py:229-263).
THEOREM CounterNeverAhead == Spec => []CountNeverAhead
<1>1. Init => CountInv
  <2> SUFFICES ASSUME Init
               PROVE  CountInv
    OBVIOUS
  <2>1. /\ count = 0 /\ tiles = {}
        /\ \A m \in Replica : cpc[m] # "count"
    BY DEF Init, StoreInit, ConsumerInit
  <2>2. Counted = {}
    BY <2>1 DEF Counted
  <2>3. Cardinality(Counted) = 0
    BY <2>2, FS_EmptySet
  <2> QED
    BY <2>1, <2>3 DEF CountInv
<1>2. TInv /\ CountInv => CountNeverAhead
  <2> SUFFICES ASSUME TInv, CountInv, ~cleaned
               PROVE  count <= Cardinality(tiles)
    BY DEF CountNeverAhead
  <2>1. tiles \in SUBSET Tile /\ Counted \in SUBSET Tile /\ count \in Nat
    BY DEF TInv, TypeOK, StoreTypeOK, Counted
  <2>2. Cardinality(Counted) <= Cardinality(tiles)
    BY <2>1, TileCardinality DEF Counted
  <2>3. Cardinality(Counted) \in Nat /\ Cardinality(tiles) \in Nat
    BY <2>1, TileCardinality
  <2> QED
    BY <2>1, <2>2, <2>3 DEF CountInv
<1>3. TInv /\ CountInv /\ [Next]_vars => TInv' /\ CountInv'
  BY TypeInductive, CountInductive
<1> QED
  BY <1>1, <1>2, <1>3, InitType, PTL DEF Spec

----------------------------------------------------------------------------
(* A job becomes ready only when it is whole.                              *)

\* What a listener has read of the number of tiles is never too much.
CompleteInv ==
    ~cleaned => \A m \in Replica :
        /\ cpc[m] = "get_job" => distinct[m] <= Cardinality(tiles)
        /\ cpc[m] = "flip" => tiles = Tile

LEMMA CompleteInductive ==
    ASSUME TInv, CompleteInv, [Next]_vars
    PROVE  CompleteInv'
<1> SUFFICES ASSUME ~cleaned', NEW m \in Replica
             PROVE  /\ cpc'[m] = "get_job" => distinct'[m] <= Cardinality(tiles')
                    /\ cpc'[m] = "flip" => tiles' = Tile
  BY DEF CompleteInv
<1>1. ~cleaned /\ tiles \subseteq tiles'
  BY Monotonic
<1>2. tiles \in SUBSET Tile /\ tiles' \in SUBSET Tile
  BY TypeInductive DEF TInv, TypeOK, StoreTypeOK
<1>3. /\ cpc[m] = "get_job" => distinct[m] <= Cardinality(tiles)
      /\ cpc[m] = "flip" => tiles = Tile
  BY <1>1 DEF CompleteInv
<1>4. ConsumerTypeOK
  BY DEF TInv, TypeOK
<1>5. /\ Cardinality(tiles) \in Nat /\ Cardinality(tiles') \in Nat
      /\ Cardinality(tiles) <= Cardinality(tiles')
  BY <1>1, <1>2, TileCardinality
<1>6. CASE cpc'[m] = cpc[m] /\ distinct'[m] = distinct[m]
  <2>1. distinct[m] \in Nat
    BY <1>4 DEF ConsumerTypeOK
  <2> QED
    BY <1>1, <1>2, <1>3, <1>5, <1>6, <2>1
<1>7. CASE Hlen(m)
  <2>1. cpc'[m] = "get_job" /\ distinct'[m] = Cardinality(tiles)
    BY <1>4, <1>7 DEF Hlen, Goto, ConsumerTypeOK
  <2> QED
    BY <1>5, <2>1
<1>8. CASE GetJob(m)
  <2>1. cpc[m] = "get_job" /\ cpc'[m] # "get_job"
    BY <1>4, <1>8 DEF GetJob, Goto, ConsumerTypeOK
  <2>2. ASSUME cpc'[m] = "flip"
        PROVE  tiles' = Tile
    <3>1. distinct[m] >= Cardinality(Tile)
      BY <1>4, <1>8, <2>2 DEF GetJob, Goto, Complete, expected_tiles,
                              ConsumerTypeOK
    <3>2. distinct[m] \in Nat /\ Cardinality(Tile) \in Nat
      BY <1>4, FS_CardinalityType, JobStoreAssumption DEF ConsumerTypeOK
    <3>3. Cardinality(tiles) >= Cardinality(Tile)
      BY <1>3, <1>5, <2>1, <3>1, <3>2
    <3>4. /\ Cardinality(tiles) <= Cardinality(Tile)
          /\ Cardinality(Tile) = Cardinality(tiles) => tiles = Tile
      BY <1>2, FS_Subset, JobStoreAssumption
    <3>5. tiles = Tile
      BY <1>5, <3>2, <3>3, <3>4
    <3> QED
      BY <1>1, <1>2, <3>5
  <2> QED
    BY <2>1, <2>2
<1>9. CASE Listener(m) /\ ~Hlen(m) /\ ~GetJob(m)
  <2>1. cpc'[m] \notin {"get_job", "flip"} \/ (cpc'[m] = cpc[m] /\ distinct'[m] = distinct[m])
    BY <1>4, <1>9 DEF Listener, ConsumerStep, Open, Assign, Close, Poll,
       Record, Count, Flip, Commit, Evict, ConsumerError, Goto, ConsumerTypeOK
  <2> QED
    BY <1>6, <2>1
<1>10. CASE MasterCrash(m)
  BY <1>4, <1>10 DEF MasterCrash, ConsumerCrash, Goto, ConsumerTypeOK
<1>11. ASSUME NEW r \in Replica, Listener(r) \/ MasterCrash(r), r # m
       PROVE  cpc'[m] = cpc[m] /\ distinct'[m] = distinct[m]
  BY <1>11, ConsumerFrame
<1>12. CASE UNCHANGED consumerVars
  BY <1>6, <1>12 DEF consumerVars
<1> QED
  BY <1>6, <1>7, <1>8, <1>9, <1>10, <1>11, <1>12, ConsumerNext

\* Only a listener's HSET makes a job ready.
LEMMA ReadyNext ==
    ASSUME [Next]_vars, status' = "ready_for_reconstruction", status # status'
    PROVE  \E m \in Replica : cpc[m] = "flip"
<1>1. ASSUME NEW m \in Replica, ReaperThread(m)
      PROVE  status' = status \/ status' = "degraded"
  BY <1>1 DEF ReaperThread, ReaperStep, StartSweep, ReadMissing,
     ReadAbandoned, Degrade, SweepDegraded, IncrTile, Republish, BlobGone,
     GiveUp, Stamp, ReaperError, storeVars, redisVars, SetStatus,
     IncrAttempts, AddAbandoned, SetLastReapTime
<1>2. ASSUME NEW m \in Replica, Listener(m)
      PROVE  status' = status \/ cpc[m] = "flip"
  BY <1>2 DEF Listener, ConsumerStep, Open, Assign, Close, Poll, Record,
     Count, Hlen, GetJob, Flip, Commit, Evict, ConsumerError, storeVars,
     redisVars, RecordTile, CountTile, SetStatus
<1>3. ASSUME NEW h \in Request, Handle(h) \/ RequestError(h)
      PROVE  status' = status \/ status' = "completed"
  BY <1>3 DEF Handle, RequestArrives, ReadTiles, FetchResults, MarkCompleted,
     ForgetTiles, ForgetAttempts, SweepCompleted, Serve, RequestError,
     redisVars, SetStatus, DeleteTiles, DeleteAttempts
<1>4. CASE UNCHANGED redisVars \/ GraceElapses \/ UNCHANGED vars
  BY <1>4 DEF redisVars, GraceElapses, vars, storeVars
<1> QED
  BY <1>1, <1>2, <1>3, <1>4 DEF Next, Stage, Produce, UploadError,
     UploadCrash, Working, WorkerStore, WorkerPublish, WorkerDrop, Handoff,
     MasterCrash

\* A job becomes ready only when every one of its tiles is recorded, whatever
\* other listeners, reapers and requests did between the listener's HLEN, its
\* get_job() and its HSET (master/results_consumer.py:53-63).
THEOREM ReadyIsComplete == Spec => ReadyOnlyWhenComplete
<1>1. Init => CompleteInv
  BY DEF Init, ConsumerInit, CompleteInv
<1>2. /\ TInv /\ CompleteInv /\ [Next]_vars
      => [status' = "ready_for_reconstruction" /\ status # status' =>
             cleaned \/ tiles = Tile]_vars
  BY ReadyNext DEF CompleteInv
<1>3. TInv /\ CompleteInv /\ [Next]_vars => TInv' /\ CompleteInv'
  BY TypeInductive, CompleteInductive
<1> QED
  BY <1>1, <1>2, <1>3, InitType, PTL DEF Spec, ReadyOnlyWhenComplete

----------------------------------------------------------------------------
(* Which steps touch the reapers.                                          *)

LEMMA ReaperNext ==
    ASSUME [Next]_vars
    PROVE  \/ UNCHANGED reaperVars
           \/ \E m \in Replica : ReaperThread(m) \/ MasterCrash(m)
BY DEF Next, Stage, Produce, UploadError, UploadCrash, Working, WorkerStore,
   WorkerPublish, WorkerDrop, Listener, Handle, RequestArrives, ReadTiles,
   FetchResults, MarkCompleted, ForgetTiles, ForgetAttempts, SweepCompleted,
   Serve, RequestError, Handoff, GraceElapses, masterVars, vars

\* A reaper and a crash leave the other replicas' reapers alone.
LEMMA ReaperFrame ==
    ASSUME TInv, NEW m \in Replica, ReaperThread(m) \/ MasterCrash(m),
           NEW r \in Replica, r # m
    PROVE  rpc'[r] = rpc[r] /\ rtile'[r] = rtile[r]
<1>1. ReaperTypeOK
  BY DEF TInv, TypeOK
<1> QED
  BY <1>1 DEF ReaperThread, ReaperStep, StartSweep, ReadMissing, ReadAbandoned,
     Degrade, SweepDegraded, IncrTile, Republish, BlobGone, GiveUp, Stamp,
     ReaperError, MasterCrash, Leave, At, NextTile, ReaperTypeOK

\* The attempt counters are deleted only after the tiles.
DeletedInOrder ==
    \A h \in Request : hpc[h] \in {"attempts", "sweep"} => cleaned

LEMMA DeletedInOrderInductive ==
    ASSUME TInv, DeletedInOrder, [Next]_vars
    PROVE  DeletedInOrder'
<1> SUFFICES ASSUME NEW h \in Request, hpc'[h] \in {"attempts", "sweep"}
             PROVE  cleaned'
  BY DEF DeletedInOrder
<1>1. hpc[h] \in {"attempts", "sweep"} \/ ForgetTiles(h)
  <2>1. hpc \in [Request -> RequestPc]
    BY DEF TInv, TypeOK
  <2>2. ASSUME NEW g \in Request, Handle(g) \/ RequestError(g)
        PROVE  hpc[h] \in {"attempts", "sweep"} \/ ForgetTiles(h)
    BY <2>1, <2>2 DEF Handle, RequestArrives, ReadTiles, FetchResults,
       MarkCompleted, ForgetTiles, ForgetAttempts, SweepCompleted, Serve,
       RequestError
  <2>3. CASE UNCHANGED hpc
    BY <2>3
  <2> QED
    BY <2>2, <2>3 DEF Next, Stage, Produce, UploadError, UploadCrash, Working,
       WorkerStore, WorkerPublish, WorkerDrop, Listener, ReaperThread, Handoff,
       MasterCrash, GraceElapses, requestVars, vars
<1>2. CASE hpc[h] \in {"attempts", "sweep"}
  BY <1>2, Monotonic DEF DeletedInOrder
<1>3. CASE ForgetTiles(h)
  BY <1>3 DEF ForgetTiles, DeleteTiles
<1> QED
  BY <1>1, <1>2, <1>3

\* Until the tiles are deleted, an attempt counter only grows.
LEMMA AttemptsGrow ==
    ASSUME TInv, DeletedInOrder, [Next]_vars, ~cleaned', NEW t \in Tile
    PROVE  /\ attempts[t] \in Nat /\ attempts'[t] \in Nat
           /\ attempts'[t] >= attempts[t]
<1>1. attempts \in [Tile -> Nat] /\ attempts' \in [Tile -> Nat]
  BY TypeInductive DEF TInv, TypeOK, StoreTypeOK
<1>2. ~cleaned
  BY Monotonic
<1>3. attempts' = attempts \/ \E u \in Tile : IncrAttempts(u)
  <2>1. ASSUME NEW h \in Request, Handle(h) \/ RequestError(h)
        PROVE  attempts' = attempts
    BY <1>2, <2>1 DEF DeletedInOrder, Handle, RequestArrives, ReadTiles,
       FetchResults, MarkCompleted, ForgetTiles, ForgetAttempts,
       SweepCompleted, Serve, RequestError, redisVars, SetStatus, DeleteTiles
  <2>2. ASSUME NEW m \in Replica, ReaperThread(m)
        PROVE  attempts' = attempts \/ \E u \in Tile : IncrAttempts(u)
    <3>1. ReaperTypeOK
      BY DEF TInv, TypeOK
    <3> QED
      BY <2>2, <3>1 DEF ReaperThread, ReaperStep, StartSweep, ReadMissing,
         ReadAbandoned, Degrade, SweepDegraded, IncrTile, Republish, BlobGone,
         GiveUp, Stamp, ReaperError, storeVars, redisVars, SetStatus,
         AddAbandoned, SetLastReapTime, ReaperTypeOK
  <2>3. ASSUME NEW m \in Replica, Listener(m)
        PROVE  attempts' = attempts
    BY <2>3 DEF Listener, ConsumerStep, Open, Assign, Close, Poll, Record,
       Count, Hlen, GetJob, Flip, Commit, Evict, ConsumerError, storeVars,
       redisVars, RecordTile, CountTile, SetStatus
  <2>4. CASE UNCHANGED redisVars \/ GraceElapses \/ UNCHANGED vars
    BY <2>4 DEF redisVars, GraceElapses, vars, storeVars
  <2> QED
    BY <2>1, <2>2, <2>3, <2>4 DEF Next, Stage, Produce, UploadError,
       UploadCrash, Working, WorkerStore, WorkerPublish, WorkerDrop, Handoff,
       MasterCrash
<1> QED
  BY <1>1, <1>3 DEF IncrAttempts

----------------------------------------------------------------------------
(* The retry budget of a tile.                                             *)

\* The reapers that have counted an attempt for t and not produced it yet.
Republishing(t) == {m \in Replica : rpc[m] = "republish" /\ t \in rtile[m]}

\* The retries that the counter has granted to t: the last value of the
\* counter that still allows one is MAX_TILE_ATTEMPTS - 1.
Granted(t) == IF attempts[t] < MAX_TILE_ATTEMPTS THEN attempts[t]
                                                 ELSE MAX_TILE_ATTEMPTS - 1

\* The upload's dispatch of t that is still to come.
Coming(t) == IF upload[t] = "done" THEN 0 ELSE 1

\* What was dispatched and what is about to be is at most the upload's dispatch
\* and the retries granted.
BudgetInv ==
    /\ DeletedInOrder
    /\ \A t \in Tile : IsFiniteSet(Republishing(t))
    /\ ~cleaned =>
          \A t \in Tile :
             dispatched[t] + Cardinality(Republishing(t)) + Coming(t)
                <= 1 + Granted(t)

\* Only a reaper that has been granted a retry of t joins those that are about
\* to produce it.
LEMMA RepublishingNext ==
    ASSUME TInv, [Next]_vars, NEW t \in Tile
    PROVE  \/ Republishing(t)' \subseteq Republishing(t)
           \/ \E m \in Replica :
                 /\ Republishing(t)' \subseteq Republishing(t) \cup {m}
                 /\ attempts'[t] = attempts[t] + 1
                 /\ attempts'[t] < MAX_TILE_ATTEMPTS
                 /\ UNCHANGED <<dispatched, upload>>
<1>1. CASE UNCHANGED reaperVars
  BY <1>1 DEF reaperVars, Republishing
<1>2. ASSUME NEW m \in Replica, MasterCrash(m)
      PROVE  Republishing(t)' \subseteq Republishing(t)
  <2>1. rpc'[m] # "republish"
    BY <1>2 DEF MasterCrash, Leave, TInv, TypeOK, ReaperTypeOK
  <2> QED
    BY <1>2, <2>1, ReaperFrame DEF Republishing
<1>3. ASSUME NEW m \in Replica, IncrTile(m), ReaperThread(m)
      PROVE  \/ Republishing(t)' \subseteq Republishing(t)
             \/ /\ Republishing(t)' \subseteq Republishing(t) \cup {m}
                /\ attempts'[t] = attempts[t] + 1
                /\ attempts'[t] < MAX_TILE_ATTEMPTS
                /\ UNCHANGED <<dispatched, upload>>
  <2>1. ReaperTypeOK /\ attempts \in [Tile -> Nat]
    BY DEF TInv, TypeOK, StoreTypeOK
  <2>2. PICK u \in todo[m] :
           /\ IncrAttempts(u)
           /\ rtile' = [rtile EXCEPT ![m] = {u}]
           /\ At(m, IF Exhausted(Attempt(u)) THEN "give_up" ELSE "republish")
    BY <1>3 DEF IncrTile
  <2>3. Republishing(t)' \subseteq Republishing(t) \cup {m}
    BY <1>3, ReaperFrame DEF Republishing
  <2>4. CASE u = t /\ ~Exhausted(Attempt(t))
    <3>1. attempts'[t] = attempts[t] + 1
      BY <2>1, <2>2, <2>4 DEF IncrAttempts
    <3>2. attempts[t] + 2 <= MAX_TILE_ATTEMPTS
      BY <2>1, <2>4, ReaperAssumption DEF Exhausted, Attempt
    <3>3. attempts'[t] < MAX_TILE_ATTEMPTS
      BY <2>1, <3>1, <3>2, ReaperAssumption
    <3>4. UNCHANGED <<dispatched, upload>>
      BY <1>3 DEF IncrTile, ReaperThread, taskVars, uploadVars
    <3> QED
      BY <2>3, <3>1, <3>3, <3>4
  <2>5. CASE u # t \/ Exhausted(Attempt(t))
    <3>1. ~(rpc'[m] = "republish" /\ t \in rtile'[m])
      BY <2>1, <2>2, <2>5 DEF At, ReaperTypeOK
    <3> QED
      BY <2>3, <3>1 DEF Republishing
  <2> QED
    BY <2>4, <2>5
<1>4. ASSUME NEW m \in Replica, ReaperThread(m), ~IncrTile(m)
      PROVE  Republishing(t)' \subseteq Republishing(t)
  <2>1. rpc'[m] # "republish"
    BY <1>4 DEF ReaperThread, ReaperStep, StartSweep, ReadMissing,
       ReadAbandoned, Degrade, SweepDegraded, Republish, BlobGone, GiveUp,
       Stamp, ReaperError, Leave, At, NextTile, TInv, TypeOK, ReaperTypeOK
  <2> QED
    BY <1>4, <2>1, ReaperFrame DEF Republishing
<1> QED
  BY <1>1, <1>2, <1>3, <1>4, ReaperNext

\* A dispatch is the upload's, or that of a reaper that was about to make it.
LEMMA DispatchNext ==
    ASSUME TInv, [Next]_vars, NEW t \in Tile
    PROVE  \/ /\ dispatched'[t] = dispatched[t]
              /\ upload[t] = "done" => upload'[t] = "done"
           \/ /\ dispatched'[t] = dispatched[t] + 1
              /\ upload[t] # "done" /\ upload'[t] = "done"
              /\ UNCHANGED reaperVars
           \/ /\ dispatched'[t] = dispatched[t] + 1
              /\ UNCHANGED upload
              /\ \E m \in Replica : /\ m \in Republishing(t)
                                    /\ Republishing(t)' \subseteq Republishing(t) \ {m}
<1>1. dispatched \in [Tile -> Nat] /\ upload \in [Tile -> UploadPc] /\ ReaperTypeOK
  BY DEF TInv, TypeOK, StoreTypeOK
<1>2. ASSUME NEW u \in Tile, Produce(u)
      PROVE  \/ dispatched'[t] = dispatched[t] /\ upload'[t] = upload[t]
             \/ /\ dispatched'[t] = dispatched[t] + 1
                /\ upload[t] # "done" /\ upload'[t] = "done"
                /\ UNCHANGED reaperVars
  BY <1>1, <1>2 DEF Produce, ProduceTask, masterVars, reaperVars
<1>3. ASSUME NEW u \in Tile, Stage(u) \/ UploadError(u) \/ UploadCrash
      PROVE  /\ dispatched' = dispatched
             /\ upload[t] = "done" => upload'[t] = "done"
  BY <1>1, <1>3 DEF Stage, UploadError, UploadCrash, taskVars
<1>4. ASSUME NEW m \in Replica, Republish(m), ReaperThread(m)
      PROVE  /\ UNCHANGED upload
             /\ \/ dispatched'[t] = dispatched[t]
                \/ /\ dispatched'[t] = dispatched[t] + 1
                   /\ m \in Republishing(t)
                   /\ Republishing(t)' \subseteq Republishing(t) \ {m}
  <2>1. PICK u \in rtile[m] : dispatched' = [dispatched EXCEPT ![u] = @ + 1]
    BY <1>4 DEF Republish, ProduceTask
  <2>2. UNCHANGED upload
    BY <1>4 DEF ReaperThread, uploadVars
  <2>3. CASE u # t
    BY <1>1, <2>1, <2>2, <2>3
  <2>4. CASE u = t
    <3>1. dispatched'[t] = dispatched[t] + 1
      BY <1>1, <2>1, <2>4
    <3>2. m \in Republishing(t)
      BY <1>4, <2>4 DEF Republish, Republishing
    <3>3. rpc'[m] # "republish"
      BY <1>1, <1>4 DEF Republish, NextTile, At, ReaperTypeOK
    <3>4. Republishing(t)' \subseteq Republishing(t) \ {m}
      BY <1>4, <3>3, ReaperFrame DEF Republishing
    <3> QED
      BY <2>2, <3>1, <3>2, <3>4
  <2> QED
    BY <2>3, <2>4
<1>5. ASSUME NEW m \in Replica, ReaperThread(m), ~Republish(m)
      PROVE  UNCHANGED <<dispatched, upload>>
  BY <1>5 DEF ReaperThread, ReaperStep, StartSweep, ReadMissing,
     ReadAbandoned, Degrade, SweepDegraded, IncrTile, BlobGone, GiveUp,
     Stamp, ReaperError, storeVars, taskVars, uploadVars
<1>6. ASSUME NEW m \in Replica, Listener(m)
      PROVE  UNCHANGED <<dispatched, upload>>
  BY <1>6 DEF Listener, ConsumerStep, Open, Assign, Close, Poll, Record,
     Count, Hlen, GetJob, Flip, Commit, Evict, ConsumerError, storeVars,
     taskVars, uploadVars
<1>7. ASSUME NEW h \in Request, Handle(h) \/ RequestError(h)
      PROVE  UNCHANGED <<dispatched, upload>>
  BY <1>7 DEF Handle, RequestArrives, ReadTiles, FetchResults, MarkCompleted,
     ForgetTiles, ForgetAttempts, SweepCompleted, Serve, RequestError,
     taskVars, uploadVars
<1>8. ASSUME NEW u \in Tile, Working(u)
      PROVE  UNCHANGED <<dispatched, upload>>
  BY <1>8 DEF Working, WorkerStore, WorkerPublish, WorkerDrop, CommitTask,
     taskVars, uploadVars
<1>9. CASE \/ \E m \in Replica : Handoff(m) \/ MasterCrash(m)
           \/ GraceElapses
           \/ UNCHANGED vars
  BY <1>9 DEF Handoff, MasterCrash, GraceElapses, vars, storeVars, taskVars,
     uploadVars
<1>10. CASE UNCHANGED <<dispatched, upload>>
  BY <1>10
<1>11. UploadCrash => \E u \in Tile : UploadCrash
  BY JobStoreAssumption
<1> QED
  BY <1>2, <1>3, <1>4, <1>5, <1>6, <1>7, <1>8, <1>9, <1>10, <1>11 DEF Next

\* One more element.
LEMMA OneMore ==
    ASSUME NEW S, NEW x, IsFiniteSet(S), NEW T, T \subseteq S \cup {x}
    PROVE  /\ IsFiniteSet(T)
           /\ Cardinality(T) <= Cardinality(S) + 1
<1>1. /\ IsFiniteSet(S \cup {x})
      /\ Cardinality(S \cup {x}) =
            IF x \in S THEN Cardinality(S) ELSE Cardinality(S) + 1
  BY FS_AddElement
<1>2. IsFiniteSet(T) /\ Cardinality(T) <= Cardinality(S \cup {x})
  BY <1>1, FS_Subset
<1>3. Cardinality(S) \in Nat /\ Cardinality(T) \in Nat
  BY <1>2, FS_CardinalityType
<1> QED
  BY <1>1, <1>2, <1>3

LEMMA BudgetInductive ==
    ASSUME TInv, BudgetInv, [Next]_vars
    PROVE  BudgetInv'
<1>1. DeletedInOrder'
  BY DeletedInOrderInductive DEF BudgetInv
<1>2. ASSUME NEW t \in Tile
      PROVE  IsFiniteSet(Republishing(t)')
  <2>1. IsFiniteSet(Republishing(t))
    BY DEF BudgetInv
  <2>2. CASE Republishing(t)' \subseteq Republishing(t)
    BY <2>1, <2>2, FS_Subset
  <2>3. ASSUME NEW m \in Replica, Republishing(t)' \subseteq Republishing(t) \cup {m}
        PROVE  IsFiniteSet(Republishing(t)')
    BY <2>1, <2>3, OneMore
  <2> QED
    BY <2>2, <2>3, RepublishingNext
<1>3. ASSUME ~cleaned', NEW t \in Tile
      PROVE  dispatched'[t] + Cardinality(Republishing(t)') + Coming(t)'
                <= 1 + Granted(t)'
  <2>1. /\ attempts[t] \in Nat /\ attempts'[t] \in Nat
        /\ attempts'[t] >= attempts[t]
    BY <1>3, AttemptsGrow DEF BudgetInv
  <2>2. dispatched[t] \in Nat /\ dispatched'[t] \in Nat
    BY TypeInductive DEF TInv, TypeOK, StoreTypeOK
  <2>3. IsFiniteSet(Republishing(t)) /\ IsFiniteSet(Republishing(t)')
    BY <1>2 DEF BudgetInv
  <2>4. Cardinality(Republishing(t)) \in Nat /\ Cardinality(Republishing(t)') \in Nat
    BY <2>3, FS_CardinalityType
  <2>5. dispatched[t] + Cardinality(Republishing(t)) + Coming(t) <= 1 + Granted(t)
    BY <1>3, Monotonic DEF BudgetInv
  <2>6. /\ Granted(t) \in Nat /\ Granted(t)' \in Nat
        /\ Granted(t)' >= Granted(t)
        /\ (/\ attempts'[t] = attempts[t] + 1
            /\ attempts'[t] < MAX_TILE_ATTEMPTS) => Granted(t)' = Granted(t) + 1
    BY <2>1, ReaperAssumption DEF Granted
  <2>7. Coming(t) \in {0, 1} /\ Coming(t)' \in {0, 1}
    BY DEF Coming
  <2>8. CASE Republishing(t)' \subseteq Republishing(t)
    <3>1. Cardinality(Republishing(t)') <= Cardinality(Republishing(t))
      BY <2>3, <2>8, FS_Subset
    <3>2. CASE /\ dispatched'[t] = dispatched[t]
               /\ upload[t] = "done" => upload'[t] = "done"
      <4>1. Coming(t)' <= Coming(t)
        BY <3>2 DEF Coming
      <4> QED
        BY <2>2, <2>4, <2>5, <2>6, <2>7, <3>1, <3>2, <4>1
    <3>3. CASE /\ dispatched'[t] = dispatched[t] + 1
               /\ upload[t] # "done" /\ upload'[t] = "done"
      <4>1. Coming(t) = 1 /\ Coming(t)' = 0
        BY <3>3 DEF Coming
      <4> QED
        BY <2>2, <2>4, <2>5, <2>6, <3>1, <3>3, <4>1
    <3>4. ASSUME dispatched'[t] = dispatched[t] + 1, UNCHANGED upload,
                 NEW m \in Replica, m \in Republishing(t),
                 Republishing(t)' \subseteq Republishing(t) \ {m}
          PROVE  dispatched'[t] + Cardinality(Republishing(t)') + Coming(t)'
                    <= 1 + Granted(t)'
      <4>1. /\ IsFiniteSet(Republishing(t) \ {m})
            /\ Cardinality(Republishing(t) \ {m})
                  = Cardinality(Republishing(t)) - 1
        BY <2>3, <3>4, FS_RemoveElement
      <4>2. Cardinality(Republishing(t)') <= Cardinality(Republishing(t) \ {m})
        BY <3>4, <4>1, FS_Subset
      <4>3. Coming(t)' = Coming(t)
        BY <3>4 DEF Coming
      <4> QED
        BY <2>2, <2>4, <2>5, <2>6, <2>7, <3>4, <4>1, <4>2, <4>3
    <3> QED
      BY <3>2, <3>3, <3>4, DispatchNext
  <2>9. ASSUME NEW m \in Replica,
               Republishing(t)' \subseteq Republishing(t) \cup {m},
               attempts'[t] = attempts[t] + 1,
               attempts'[t] < MAX_TILE_ATTEMPTS,
               UNCHANGED <<dispatched, upload>>
        PROVE  dispatched'[t] + Cardinality(Republishing(t)') + Coming(t)'
                  <= 1 + Granted(t)'
    <3>1. Cardinality(Republishing(t)') <= Cardinality(Republishing(t)) + 1
      BY <2>3, <2>9, OneMore
    <3>2. Coming(t)' = Coming(t)
      BY <2>9 DEF Coming
    <3>3. dispatched'[t] = dispatched[t]
      BY <2>9
    <3> QED
      BY <2>2, <2>4, <2>5, <2>6, <2>7, <2>9, <3>1, <3>2, <3>3
  <2> QED
    BY <2>8, <2>9, RepublishingNext
<1> QED
  BY <1>1, <1>2, <1>3 DEF BudgetInv

\* A tile is dispatched MAX_TILE_ATTEMPTS times at most, the original dispatch
\* included, however many reapers of present and former leaders sweep the job
\* at once (app/config.py:91-94, master/reaper.py:204-211).
THEOREM RetryBudget == Spec => []DispatchBound
<1>1. Init => BudgetInv
  <2> SUFFICES ASSUME Init
               PROVE  BudgetInv
    OBVIOUS
  <2>1. /\ \A h \in Request : hpc[h] = "new"
        /\ \A t \in Tile : /\ dispatched[t] = 0
                           /\ attempts[t] = 0
                           /\ Republishing(t) = {}
    BY DEF Init, StoreInit, ReaperInit, Republishing
  <2>2. \A t \in Tile : /\ IsFiniteSet(Republishing(t))
                        /\ Cardinality(Republishing(t)) = 0
    BY <2>1, FS_EmptySet
  <2>3. \A t \in Tile : Coming(t) <= 1 /\ Coming(t) \in Nat /\ Granted(t) = 0
    BY <2>1, ReaperAssumption DEF Coming, Granted
  <2> QED
    BY <2>1, <2>2, <2>3 DEF BudgetInv, DeletedInOrder
<1>2. TInv /\ BudgetInv => DispatchBound
  <2> SUFFICES ASSUME TInv, BudgetInv, ~cleaned, NEW t \in Tile
               PROVE  dispatched[t] <= MAX_TILE_ATTEMPTS
    BY DEF DispatchBound
  <2>1. dispatched[t] \in Nat /\ attempts[t] \in Nat
    BY DEF TInv, TypeOK, StoreTypeOK
  <2>2. Cardinality(Republishing(t)) \in Nat
    BY FS_CardinalityType DEF BudgetInv
  <2>3. dispatched[t] + Cardinality(Republishing(t)) + Coming(t) <= 1 + Granted(t)
    BY DEF BudgetInv
  <2> QED
    BY <2>1, <2>2, <2>3, ReaperAssumption DEF Coming, Granted
<1>3. TInv /\ BudgetInv /\ [Next]_vars => TInv' /\ BudgetInv'
  BY TypeInductive, BudgetInductive
<1> QED
  BY <1>1, <1>2, <1>3, InitType, PTL DEF Spec
=============================================================================
