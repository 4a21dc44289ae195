----------------------------- MODULE MLPipeline -----------------------------
(***************************************************************************)
(* The life of one detection job: /detect publishes its tiles to ml_tasks  *)
(* (master/ml_publisher.py), the inference workers answer with detections, *)
(* the ML listener of the leader records them and completes the job        *)
(* (master/ml_results_consumer.py).  The reaper is the one of the OpenCV   *)
(* pipeline.                                                               *)
(*                                                                         *)
(* The ML listener consumes, records and commits as the OpenCV listener    *)
(* does, so those steps are its actions.  What differs is modelled here:   *)
(* it completes the job itself, there and then sweeps the input blobs, and *)
(* keeps the tiles in Redis, which are the job's result.                   *)
(***************************************************************************)
EXTENDS JobPipeline

VARIABLES
    finished,   \* finished[m]: jobs_finished_total{completed} of replica m
    skipped     \* what an exception, a crash or a swallowed error cut short, and
                \* nothing makes up for: "message" or "sweep" (history)

mlVars == <<finished, skipped>>
allVars == <<vars, mlVars>>

MLTypeOK ==
    /\ StoreTypeOK
    /\ status # "ready_for_reconstruction"
    /\ leader \in Replica
    /\ owner \in Replica \cup {None}
    /\ cpc \in [Replica -> ConsumerPc \cup {"sweep"}]
    /\ pos \in [Replica -> Nat]
    /\ distinct \in [Replica -> Nat]
    /\ ReaperTypeOK
    /\ upload \in [Tile -> UploadPc]
    /\ finished \in [Replica -> Nat]
    /\ skipped \in SUBSET {"message", "sweep"}

MLInit ==
    /\ Init
    /\ finished = [m \in Replica |-> 0]
    /\ skipped = {}

----------------------------------------------------------------------------
(* publish_ml_tasks() stages and produces like publish_tile_tasks(), with  *)
(* an ml_task blob and no operation in the task.                           *)

PublishMLTasks ==
    /\ \E t \in Tile : Stage(t) \/ Produce(t)
    /\ UNCHANGED mlVars

PublishMLFails ==
    /\ (\E t \in Tile : UploadError(t)) \/ UploadCrash
    /\ UNCHANGED mlVars

----------------------------------------------------------------------------
(* The inference workers, as far as the masters can tell;                  *)
(* InferenceWorker.tla is the detail.  A result is a message, not a blob.  *)

\* The detections are published; the task's offset is committed, or it is
\* delivered again.
Infer(t) ==
    /\ tasks[t] > 0
    /\ t \in taskBlob
    /\ log' = Append(log, t)
    /\ \/ CommitTask(t) /\ NoFault
       \/ UNCHANGED taskVars /\ Fault("worker")
    /\ UNCHANGED <<redisVars, blobVars, committed,
                   masterVars, uploadVars, workerVars, requestVars, mlVars>>

\* A tile that cannot be read or decoded is committed without a result: the
\* reaper is to bring it back.  A fault unless its blob is gone.
Skip(t) ==
    /\ tasks[t] > 0
    /\ CommitTask(t)
    /\ IF t \in taskBlob THEN Fault("worker") ELSE NoFault
    /\ UNCHANGED <<redisVars, blobVars, resultVars,
                   masterVars, uploadVars, workerVars, requestVars, mlVars>>

----------------------------------------------------------------------------
(* The end of _process_message() of the ML listener.                       *)

\* Mutant: the status of the other pipeline.
MLFlipReady(m) ==
    /\ cpc[m] = "flip"
    /\ SetStatus("ready_for_reconstruction")
    /\ finished' = [finished EXCEPT ![m] = @ + 1]
    /\ Goto(m, "sweep")
    /\ UNCHANGED <<owner, pos, distinct, blobVars, taskVars, resultVars, faults>>

\* Mutant: the blobs are swept before the status says that the job is completed.
MLFlipSweepsFirst(m) ==
    /\ cpc[m] = "flip"
    /\ SweepBlobs
    /\ finished' = [finished EXCEPT ![m] = @ + 1]
    /\ Goto(m, "sweep")
    /\ UNCHANGED <<owner, pos, distinct, redisVars, taskVars, resultVars>>

\* HSET of the status, whatever it has become since get_job().
MLFlip(m) ==
    /\ cpc[m] = "flip"
    /\ SetStatus("completed")
    /\ finished' = [finished EXCEPT ![m] = @ + 1]
    /\ Goto(m, "sweep")
    /\ UNCHANGED <<owner, pos, distinct, blobVars, taskVars, resultVars, faults>>

\* Mutant: the blobs of a completed job are never swept, as it once was.
MLNoSweep(m) ==
    /\ cpc[m] = "sweep"
    /\ Goto(m, "commit")
    /\ UNCHANGED <<owner, pos, distinct, finished, skipped, storeVars>>

\* delete_job_tiles(): the input blobs, which are all there are.  Those that it
\* failed to delete, without saying so, stay.
MLSweep(m) ==
    /\ cpc[m] = "sweep"
    /\ SweepBlobs
    /\ skipped' = IF taskBlob' = {} THEN skipped ELSE skipped \cup {"sweep"}
    /\ Goto(m, "commit")
    /\ UNCHANGED <<owner, pos, distinct, finished,
                   redisVars, taskVars, resultVars>>

\* The sweep raises, at any point: the message stays uncommitted and blobs stay.
MLSweepError(m) ==
    /\ cpc[m] = "sweep"
    /\ Fault("consumer")
    /\ taskBlob' \in SUBSET taskBlob
    /\ Goto(m, "poll")
    /\ skipped' = skipped \cup {"sweep"}
    /\ UNCHANGED <<owner, pos, distinct, finished,
                   redisVars, resultBlob, taskVars, resultVars>>

----------------------------------------------------------------------------
MLListening(m) ==
    /\ \/ /\ \/ Open(m) \/ Assign(m) \/ Close(m) \/ Poll(m)
             \/ Record(m) \/ Count(m) \/ Hlen(m) \/ GetJob(m) \/ Commit(m)
          /\ UNCHANGED <<finished, skipped>>
       \/ MLFlip(m) /\ UNCHANGED skipped
       \/ MLSweep(m)
    /\ UNCHANGED <<leader, reaperVars, uploadVars, workerVars, requestVars>>

\* What an exception cuts short: the message and, when the status was written
\* all the same, the sweep.
MLListenerFails(m) ==
    /\ \/ Evict(m) /\ UNCHANGED <<finished, skipped>>
       \/ /\ ConsumerError(m, "completed")
          /\ skipped' = skipped \cup (IF status' = status
                                     THEN {"message"} ELSE {"message", "sweep"})
          /\ UNCHANGED finished
       \/ MLSweepError(m)
    /\ UNCHANGED <<leader, reaperVars, uploadVars, workerVars, requestVars>>

MLReaping(m) == Reaping(m) /\ UNCHANGED mlVars

Inferring(t) == Infer(t) \/ Skip(t)

\* A process that restarts counts from zero.
MLCrash(m) ==
    /\ MasterCrash(m)
    /\ finished' = [finished EXCEPT ![m] = 0]
    /\ skipped' = IF cpc[m] = "sweep" THEN skipped \cup {"sweep"} ELSE skipped

Elsewhere ==
    /\ \/ \E m \in Replica : Handoff(m) \/ ReaperThread(m)
       \/ GraceElapses
    /\ UNCHANGED mlVars

MLNext ==
    \/ PublishMLTasks \/ PublishMLFails
    \/ \E t \in Tile : Inferring(t)
    \/ \E m \in Replica : MLListening(m) \/ MLListenerFails(m) \/ MLCrash(m)
    \/ Elsewhere

MLSpec == MLInit /\ [][MLNext]_allVars

\* As for JobPipeline: the threads run, tasks are consumed, time passes.
MLFairness ==
    /\ WF_allVars(PublishMLTasks)
    /\ \A t \in Tile : WF_allVars(Inferring(t))
    /\ \A m \in Replica : WF_allVars(MLListening(m)) /\ WF_allVars(MLReaping(m))
    /\ WF_allVars(GraceElapses /\ UNCHANGED mlVars)

MLFairSpec == MLSpec /\ MLFairness

----------------------------------------------------------------------------
(* Properties.                                                             *)

\* A replica counts the same job as completed at most once, however often a
\* result is delivered again (master/ml_results_consumer.py:48-57).
FinishedOnce == \A m \in Replica : finished[m] <= 1

\* No detection job is left processing for ever, unless the listener swallowed
\* an exception on a result (master/ml_results_consumer.py:104-110).
MLJobSettles == <>(status # "processing" \/ "message" \in skipped)

\* The blobs of a completed job are deleted in the end, unless an exception, a
\* crash or an error of MinIO cut the sweep itself short: nobody sweeps a
\* completed job again (master/ml_results_consumer.py:55-71).
BlobsSwept == status = "completed" ~> (taskBlob = {} \/ "sweep" \in skipped)
=============================================================================
