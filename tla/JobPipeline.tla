---------------------------- MODULE JobPipeline ----------------------------
(***************************************************************************)
(* The life of one OpenCV job, from create_job() to its last status: the   *)
(* upload that stages and publishes its tiles (master/publisher.py), the   *)
(* workers, the results listener and the reaper of every master replica,   *)
(* and the requests to /reconstruct (master/app.py), which any replica     *)
(* serves, leader or not, and which check neither the status nor each      *)
(* other.                                                                  *)
(***************************************************************************)
EXTENDS Reaper

CONSTANTS
    Request,      \* the requests to /reconstruct
    SlowUpload    \* can the upload outlast the reaper's grace window?

ASSUME PipelineAssumption ==
    /\ None \notin Replica
    /\ SlowUpload \in BOOLEAN

VARIABLES
    upload,    \* upload[t]: where publish_tile_tasks() is with tile t
    ready,     \* the tiles whose result a worker has stored, not yet published
    hpc        \* hpc[h]: where the handler of request h is

uploadVars == <<upload>>
workerVars == <<ready>>
requestVars == <<hpc>>
vars == <<storeVars, leader, consumerVars, reaperVars,
          uploadVars, workerVars, requestVars>>

masterVars == <<leader, consumerVars, reaperVars>>

UploadPc == {"stage", "produce", "done"}

RequestPc == {"new", "tiles", "fetch", "complete", "forget", "attempts",
              "sweep", "done"}

TypeOK ==
    /\ StoreTypeOK
    /\ ConsumerTypeOK
    /\ ReaperTypeOK
    /\ upload \in [Tile -> UploadPc]
    /\ ready \in SUBSET Tile
    /\ hpc \in [Request -> RequestPc]

Init ==
    /\ StoreInit
    /\ ConsumerInit
    /\ ReaperInit
    /\ upload = [t \in Tile |-> "stage"]
    /\ ready = {}
    /\ hpc = [h \in Request |-> "new"]

----------------------------------------------------------------------------
(* publish_tile_tasks(): a pool stages the tiles, one thread produces the  *)
(* task of each one that is staged, in the order they are.                 *)

Stage(t) ==
    /\ upload[t] = "stage"
    /\ PutTask(t)
    /\ upload' = [upload EXCEPT ![t] = "produce"]
    /\ UNCHANGED <<redisVars, taskVars, resultVars, faults,
                   masterVars, workerVars, requestVars>>

\* The task may be lost after produce(): delivery_callback() only counts it.
Produce(t) ==
    /\ upload[t] = "produce"
    /\ \/ ProduceTask(t, TRUE) /\ NoFault
       \/ ProduceTask(t, FALSE) /\ Fault("delivery")
    /\ upload' = [upload EXCEPT ![t] = "done"]
    /\ UNCHANGED <<redisVars, blobVars, resultVars,
                   masterVars, workerVars, requestVars>>

\* Staging or producing raises: the tile is skipped, the others go on.
UploadError(t) ==
    /\ upload[t] # "done"
    /\ Fault("upload")
    /\ upload' = [upload EXCEPT ![t] = "done"]
    /\ UNCHANGED <<redisVars, blobVars, taskVars, resultVars,
                   masterVars, workerVars, requestVars>>

\* The master that serves the upload dies: what is left is never published.
UploadCrash ==
    /\ \E t \in Tile : upload[t] # "done"
    /\ Fault("upload")
    /\ upload' = [t \in Tile |-> "done"]
    /\ UNCHANGED <<redisVars, blobVars, taskVars, resultVars,
                   masterVars, workerVars, requestVars>>

----------------------------------------------------------------------------
(* The workers, as far as the masters can tell; Worker.tla is the detail.  *)

\* get_tile(), the operation, put_tile() of the result.
WorkerStore(t) ==
    /\ tasks[t] > 0
    /\ t \in taskBlob
    /\ t \notin ready
    /\ PutResult(t)
    /\ ready' = ready \cup {t}
    /\ UNCHANGED <<redisVars, taskVars, resultVars, faults,
                   masterVars, uploadVars, requestVars>>

\* The result is published and the task committed, or the worker dies before
\* the commit and the task is delivered again.
WorkerPublish(t) ==
    /\ t \in ready
    /\ log' = Append(log, t)
    /\ ready' = ready \ {t}
    /\ \/ CommitTask(t) /\ NoFault
       \/ UNCHANGED taskVars /\ Fault("worker")
    /\ UNCHANGED <<redisVars, blobVars, committed,
                   masterVars, uploadVars, requestVars>>

\* The task is committed without a result: it is parked on the DLQ, or lost.
\* That is a fault unless its blob is gone, when no retry can succeed.
WorkerDrop(t) ==
    /\ tasks[t] > 0
    /\ CommitTask(t)
    /\ ready' = ready \ {t}
    /\ IF t \in taskBlob \cup ready THEN Fault("worker") ELSE NoFault
    /\ UNCHANGED <<redisVars, blobVars, resultVars,
                   masterVars, uploadVars, requestVars>>

----------------------------------------------------------------------------
(* /reconstruct, reconstruct_job() of master/app.py.                       *)

Serve(h, from, to) ==
    /\ hpc[h] = from
    /\ hpc' = [hpc EXCEPT ![h] = to]
    /\ UNCHANGED <<taskVars, resultVars, masterVars, uploadVars, workerVars>>

\* get_job() finds the job, whatever its status.
RequestArrives(h) ==
    Serve(h, "new", "tiles") /\ UNCHANGED <<redisVars, blobVars, faults>>

\* get_tile_results(): 400 unless there are as many as expected.
ReadTiles(h) ==
    /\ Serve(h, "tiles", IF Cardinality(tiles) < expected_tiles
                         THEN "done" ELSE "fetch")
    /\ UNCHANGED <<redisVars, blobVars, faults>>

\* get_tile() of every result, then the reconstruction: 500 if one is gone.
FetchResults(h) ==
    /\ Serve(h, "fetch", IF resultBlob = Tile THEN "complete" ELSE "done")
    /\ UNCHANGED <<redisVars, blobVars, faults>>

\* mark_job_completed()
MarkCompleted(h) ==
    /\ Serve(h, "complete", "forget")
    /\ SetStatus("completed")
    /\ UNCHANGED <<blobVars, faults>>

\* delete_job_tile_state()
ForgetTiles(h) ==
    /\ Serve(h, "forget", "attempts")
    /\ DeleteTiles
    /\ UNCHANGED <<blobVars, faults>>

ForgetAttempts(h) ==
    /\ Serve(h, "attempts", "sweep")
    /\ DeleteAttempts
    /\ UNCHANGED <<blobVars, faults>>

\* delete_job_tiles()
SweepCompleted(h) ==
    Serve(h, "sweep", "done") /\ SweepBlobs /\ UNCHANGED redisVars

\* A call raises, or the replica dies: the handler stops where it is.
RequestError(h) ==
    /\ hpc[h] \notin {"new", "done"}
    /\ Fault("request")
    /\ hpc' = [hpc EXCEPT ![h] = "done"]
    /\ UNCHANGED <<redisVars, blobVars, taskVars, resultVars,
                   masterVars, uploadVars, workerVars>>

Handle(h) ==
    \/ RequestArrives(h) \/ ReadTiles(h) \/ FetchResults(h)
    \/ MarkCompleted(h) \/ ForgetTiles(h) \/ ForgetAttempts(h)
    \/ SweepCompleted(h)

----------------------------------------------------------------------------
(* Leadership, time and crashes.                                           *)

\* Another replica becomes the leader (LeaderElection.tla).  What the threads
\* of the former one have begun, they finish.
Handoff(m) ==
    /\ leader # m
    /\ Fault("handoff")
    /\ leader' = m
    /\ UNCHANGED <<redisVars, blobVars, taskVars, resultVars, consumerVars,
                   reaperVars, uploadVars, workerVars, requestVars>>

\* A replica dies with what its listener and its reaper were doing.
MasterCrash(m) ==
    /\ cpc[m] # "closed" \/ rpc[m] # "idle"
    /\ Fault("crash")
    /\ ConsumerCrash(m)
    /\ Leave(m)
    /\ UNCHANGED <<redisVars, blobVars, taskVars, resultVars, leader,
                   uploadVars, workerVars, requestVars>>

\* TILE_OUTSTANDING_TIMEOUT_SECONDS since the upload or the last reap.
GraceElapses ==
    /\ ~due
    /\ status = "processing"
    /\ SlowUpload \/ \A t \in Tile : upload[t] = "done"
    /\ due' = TRUE
    /\ UNCHANGED <<status, count, tiles, attempts, abandoned, cleaned,
                   blobVars, taskVars, resultVars, faults,
                   masterVars, uploadVars, workerVars, requestVars>>

----------------------------------------------------------------------------
Uploading == \E t \in Tile : Stage(t) \/ Produce(t)

Working(t) == WorkerStore(t) \/ WorkerPublish(t) \/ WorkerDrop(t)

Listening(m) ==
    /\ ConsumerStep(m)
    /\ UNCHANGED <<leader, reaperVars, uploadVars, workerVars, requestVars>>

Listener(m) ==
    /\ \/ ConsumerStep(m)
       \/ Evict(m)
       \/ ConsumerError(m, "ready_for_reconstruction")
    /\ UNCHANGED <<leader, reaperVars, uploadVars, workerVars, requestVars>>

Reaping(m) ==
    /\ ReaperStep(m)
    /\ UNCHANGED <<leader, consumerVars, uploadVars, workerVars, requestVars>>

ReaperThread(m) ==
    /\ ReaperStep(m) \/ ReaperError(m)
    /\ UNCHANGED <<leader, consumerVars, uploadVars, workerVars, requestVars>>

Next ==
    \/ \E t \in Tile : Stage(t) \/ Produce(t) \/ UploadError(t)
    \/ UploadCrash
    \/ \E t \in Tile : Working(t)
    \/ \E m \in Replica : Listener(m) \/ ReaperThread(m)
    \/ \E h \in Request : Handle(h) \/ RequestError(h)
    \/ \E m \in Replica : Handoff(m) \/ MasterCrash(m)
    \/ GraceElapses

Spec == Init /\ [][Next]_vars

\* Every thread keeps running, a task is eventually taken by some worker, and
\* time passes.  Nobody has to ask for the reconstruction.
Fairness ==
    /\ WF_vars(Uploading)
    /\ \A t \in Tile : WF_vars(Working(t))
    /\ \A m \in Replica : WF_vars(Listening(m)) /\ WF_vars(Reaping(m))
    /\ WF_vars(GraceElapses)

FairSpec == Spec /\ Fairness

----------------------------------------------------------------------------
(* Properties.                                                             *)

\* results_count never runs ahead of the distinct tiles recorded, however often
\* a result is delivered again, until /reconstruct deletes the tiles
\* (record_tile_result(), app/jobstore.py:229-263).
CountNeverAhead == ~cleaned => count <= Cardinality(tiles)

\* A job becomes ready only when every one of its tiles is recorded, whichever
\* listener decides it and whatever it read before
\* (master/results_consumer.py:53-63).
ReadyOnlyWhenComplete ==
    [][status' = "ready_for_reconstruction" /\ status # status' =>
          cleaned \/ tiles = Tile]_vars

\* A job that is given up has no tile left that a later reap could have brought
\* back: each one is recorded or was abandoned (master/reaper.py:159-173).
DegradedOnlyWhenHopeless ==
    status = "degraded" /\ ~cleaned => tiles \cup abandoned = Tile

\* While the job is processing, the input of every tile that was dispatched is
\* still there for a retry: blobs are swept only after the job has left that
\* status (app/blobstore.py:52-56, master/reaper.py:179-188).
SourceKept ==
    status = "processing" =>
        \A t \in Tile : dispatched[t] > 0 => t \in taskBlob

\* The retry budget of a tile is never exceeded, even when a former leader's
\* sweep overlaps the new leader's: the original dispatch and the reaper's add
\* up to MAX_TILE_ATTEMPTS at most (app/config.py:91-94, master/reaper.py:205).
DispatchBound ==
    ~cleaned => \A t \in Tile : dispatched[t] <= MAX_TILE_ATTEMPTS

\* No result is lost by a crash or a handoff: every committed message has been
\* recorded (master/results_consumer.py:86-99).
CommittedIsRecorded ==
    ~cleaned => \A i \in 1..committed : log[i] \in tiles

\* The listener of m has yet to read how many tiles there are, or has read that
\* none is missing.
Deciding(m) ==
    \/ cpc[m] \in {"record", "count", "hlen", "flip"}
    \/ cpc[m] = "get_job" /\ distinct[m] >= expected_tiles

\* A job that has every tile is not left processing: as long as it is, there is
\* a message nobody has committed, and the consumer that has the partition has
\* yet to read it or is deciding on it, through crashes, evictions and handoffs
\* (master/results_consumer.py:53-63, 86-99).
ReadyIsOwed ==
    status = "processing" /\ ~cleaned /\ tiles = Tile =>
        /\ committed < Len(log)
        /\ \A m \in Replica : owner = m => pos[m] < Len(log) \/ Deciding(m)

\* No job is left processing for ever: it is completed, ready or given up.
JobSettles == <>(status # "processing")

----------------------------------------------------------------------------
(* What the code or its comments say, and the program does not guarantee.  *)

\* A degraded job stays degraded: a straggler does not resurrect it
\* (master/results_consumer.py:60-61, "a terminal status" in
\* master/reaper.py:33).
DegradedIsFinal == [][status = "degraded" => status' = "degraded"]_vars

\* A completed job stays completed: it is the other terminal status
\* (app/metrics.py:51-53), and /result serves no other.
CompletedIsFinal == [][status = "completed" => status' = "completed"]_vars
=============================================================================
