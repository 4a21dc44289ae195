------------------------------- MODULE Reaper -------------------------------
(***************************************************************************)
(* The reaper thread of every master replica, master/reaper.py: it looks   *)
(* for a job that is still processing past the grace window, produces the  *)
(* tasks of its missing tiles again up to MAX_TILE_ATTEMPTS dispatches a   *)
(* tile, abandons the tiles it cannot bring back, and gives the job up     *)
(* (degraded) when every missing tile is abandoned.                        *)
(*                                                                         *)
(* One sweep is a sequence of reads and writes of Redis, MinIO and Kafka.  *)
(* is_leader() is asked before it and never again for the same job.        *)
(***************************************************************************)
EXTENDS ResultsConsumer

CONSTANT MAX_TILE_ATTEMPTS

ASSUME ReaperAssumption == MAX_TILE_ATTEMPTS \in Nat \ {0}

VARIABLES
    rpc,      \* rpc[m]: where the reaper of replica m is
    missing,  \* missing[m]: the tiles it found unrecorded
    todo,     \* todo[m]: the retryable tiles it has not dealt with yet
    rtile     \* rtile[m]: the set holding the tile it deals with, or {}

reaperVars == <<rpc, missing, todo, rtile>>

ReaperPc ==
    {"idle", "missing", "abandoned", "degrade", "sweep",
     "incr", "republish", "give_up", "stamp"}

ReaperTypeOK ==
    /\ rpc \in [Replica -> ReaperPc]
    /\ missing \in [Replica -> SUBSET Tile]
    /\ todo \in [Replica -> SUBSET Tile]
    /\ rtile \in [Replica -> SUBSET Tile]

ReaperInit ==
    /\ rpc = [m \in Replica |-> "idle"]
    /\ missing = [m \in Replica |-> {}]
    /\ todo = [m \in Replica |-> {}]
    /\ rtile = [m \in Replica |-> {}]

\* The job is left for this sweep.
Leave(m) ==
    /\ rpc' = [rpc EXCEPT ![m] = "idle"]
    /\ missing' = [missing EXCEPT ![m] = {}]
    /\ todo' = [todo EXCEPT ![m] = {}]
    /\ rtile' = [rtile EXCEPT ![m] = {}]

At(m, l) == rpc' = [rpc EXCEPT ![m] = l]

----------------------------------------------------------------------------
\* is_leader(), get_job(), get_last_reap_time(): the job is processing and
\* its grace window is over.
StartSweep(m) ==
    /\ rpc[m] = "idle"
    /\ leader = m
    /\ status = "processing"
    /\ due
    /\ At(m, "missing")
    /\ UNCHANGED <<missing, todo, rtile, storeVars>>

\* _missing_tile_ids()
ReadMissing(m) ==
    /\ rpc[m] = "missing"
    /\ IF tiles = Tile
       THEN Leave(m)
       ELSE /\ missing' = [missing EXCEPT ![m] = Tile \ tiles]
            /\ At(m, "abandoned")
            /\ UNCHANGED <<todo, rtile>>
    /\ UNCHANGED storeVars

\* Mutant: one abandoned tile is enough, as it once was.
HopelessTooSoon(miss) == miss \cap abandoned # {}

\* Nothing is left to retry: every missing tile was given up on before.
Hopeless(miss) == miss \subseteq abandoned

\* get_abandoned_tiles(): degrade the job, or retry what is retryable.
ReadAbandoned(m) ==
    /\ rpc[m] = "abandoned"
    /\ IF Hopeless(missing[m])
       THEN At(m, "degrade") /\ UNCHANGED todo
       ELSE At(m, "incr") /\ todo' = [todo EXCEPT ![m] = missing[m] \ abandoned]
    /\ missing' = [missing EXCEPT ![m] = {}]
    /\ UNCHANGED <<rtile, storeVars>>

\* Mutant: the sweep comes before the status.
DegradeSweepsFirst(m) ==
    /\ rpc[m] = "degrade"
    /\ SweepBlobs
    /\ At(m, "sweep")
    /\ UNCHANGED <<missing, todo, rtile, redisVars, taskVars, resultVars>>

\* set_job_status(degraded), whatever the status has become since it was read.
Degrade(m) ==
    /\ rpc[m] = "degrade"
    /\ SetStatus("degraded")
    /\ At(m, "sweep")
    /\ UNCHANGED <<missing, todo, rtile, blobVars, taskVars, resultVars, faults>>

\* delete_job_tiles() of the degraded job.
SweepDegraded(m) ==
    /\ rpc[m] = "sweep"
    /\ SweepBlobs
    /\ Leave(m)
    /\ UNCHANGED <<redisVars, taskVars, resultVars>>

\* Mutant: the original dispatch is not counted.
AttemptFromZero(t) == attempts[t] + 1

\* The dispatch this would be; the original one was the first.
Attempt(t) == attempts[t] + 2

Exhausted(attempt) == attempt > MAX_TILE_ATTEMPTS

\* incr_tile_attempts() of the next retryable tile.
IncrTile(m) ==
    /\ rpc[m] = "incr"
    /\ \E t \in todo[m] :
          /\ IncrAttempts(t)
          /\ rtile' = [rtile EXCEPT ![m] = {t}]
          /\ todo' = [todo EXCEPT ![m] = @ \ {t}]
          /\ At(m, IF Exhausted(Attempt(t)) THEN "give_up" ELSE "republish")
    /\ UNCHANGED <<missing, blobVars, taskVars, resultVars, faults>>

\* Done with a tile: on to the next one, or to the end of the sweep.
NextTile(m) ==
    /\ At(m, IF todo[m] = {} THEN "stamp" ELSE "incr")
    /\ rtile' = [rtile EXCEPT ![m] = {}]
    /\ UNCHANGED <<missing, todo>>

\* _republish_tile(): the blob is still there and the task is produced.  The
\* flush at the end of the sweep is not checked, so it may never arrive.
Republish(m) ==
    /\ rpc[m] = "republish"
    /\ rtile[m] \subseteq taskBlob
    /\ \E t \in rtile[m] :
          \/ ProduceTask(t, TRUE) /\ NoFault
          \/ ProduceTask(t, FALSE) /\ Fault("delivery")
    /\ NextTile(m)
    /\ UNCHANGED <<redisVars, blobVars, resultVars>>

\* _republish_tile(): tile_exists() is false.  The blob is gone, or it is there
\* and MinIO answered with an S3Error, of whatever kind.
BlobGone(m) ==
    /\ rpc[m] = "republish"
    /\ IF rtile[m] \subseteq taskBlob THEN Fault("storage") ELSE NoFault
    /\ At(m, "give_up")
    /\ UNCHANGED <<missing, todo, rtile,
                   redisVars, blobVars, taskVars, resultVars>>

\* add_abandoned_tile()
GiveUp(m) ==
    /\ rpc[m] = "give_up"
    /\ \E t \in rtile[m] : AddAbandoned(t)
    /\ NextTile(m)
    /\ UNCHANGED <<blobVars, taskVars, resultVars, faults>>

\* flush() and set_last_reap_time().
Stamp(m) ==
    /\ rpc[m] = "stamp"
    /\ SetLastReapTime
    /\ Leave(m)
    /\ UNCHANGED <<blobVars, taskVars, resultVars, faults>>

\* A call to Redis, MinIO or Kafka raises: the job is left as it is, without
\* a new last_reap_time.
ReaperError(m) ==
    /\ rpc[m] # "idle"
    /\ Fault("reaper")
    /\ Leave(m)
    /\ UNCHANGED <<redisVars, blobVars, taskVars, resultVars>>

ReaperStep(m) ==
    \/ StartSweep(m) \/ ReadMissing(m) \/ ReadAbandoned(m)
    \/ Degrade(m) \/ SweepDegraded(m)
    \/ IncrTile(m) \/ Republish(m) \/ BlobGone(m) \/ GiveUp(m) \/ Stamp(m)
=============================================================================
