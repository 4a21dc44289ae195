------------------------------ MODULE JobStore ------------------------------
(***************************************************************************)
(* What the masters and the workers share about one job of the OpenCV      *)
(* pipeline: its keys in Redis (app/jobstore.py), its blobs in MinIO       *)
(* (app/blobstore.py) and its two Kafka topics.                            *)
(*                                                                         *)
(* Every operator below is one command of one of these services, atomic    *)
(* by itself and never atomic with the next one.  Jobs share no key, so    *)
(* one job is enough.  The TTL of a day on every key is not modelled.      *)
(***************************************************************************)
EXTENDS Naturals, Sequences, FiniteSets

CONSTANTS
    Tile,               \* the tile ids, 0 .. expected_tiles - 1
    FaultKinds,         \* which failures may be injected
    MaxFaults           \* bound on the number of failures

ASSUME JobStoreAssumption ==
    /\ IsFiniteSet(Tile)
    /\ Tile # {}
    /\ MaxFaults \in Nat

VARIABLES
    status,       \* job:{id} status
    count,        \* job:{id} results_count
    due,          \* is max(timestamp, last_reap_time) past the grace window?
    tiles,        \* the fields of job:{id}:tiles
    attempts,     \* job:{id}:tile:{t}:attempts, 0 when there is no such key
    abandoned,    \* job:{id}:abandoned
    taskBlob,     \* the tiles whose input bytes are in MinIO
    resultBlob,   \* the tiles whose processed bytes are in MinIO
    tasks,        \* tasks[t]: copies of t's task no worker has committed
    log,          \* the results topic: the tile of each message
    committed,    \* the offset the result consumers' group has committed
    cleaned,      \* has delete_job_tile_state() run? (history)
    dispatched,   \* dispatched[t]: how often t's task was produced (history)
    faults        \* failures injected so far

redisVars == <<status, count, due, tiles, attempts, abandoned, cleaned>>
blobVars == <<taskBlob, resultBlob>>
taskVars == <<tasks, dispatched>>
resultVars == <<log, committed>>
storeVars == <<redisVars, blobVars, taskVars, resultVars, faults>>

Status == {"processing", "ready_for_reconstruction", "completed", "degraded"}

StoreTypeOK ==
    /\ status \in Status
    /\ count \in Nat
    /\ due \in BOOLEAN
    /\ tiles \in SUBSET Tile
    /\ attempts \in [Tile -> Nat]
    /\ abandoned \in SUBSET Tile
    /\ taskBlob \in SUBSET Tile
    /\ resultBlob \in SUBSET Tile
    /\ tasks \in [Tile -> Nat]
    /\ log \in Seq(Tile)
    /\ committed \in Nat
    /\ cleaned \in BOOLEAN
    /\ dispatched \in [Tile -> Nat]
    /\ faults \in Nat

\* create_job() has just run; nothing is staged and nothing published.
StoreInit ==
    /\ status = "processing"
    /\ count = 0
    /\ due = FALSE
    /\ tiles = {}
    /\ attempts = [t \in Tile |-> 0]
    /\ abandoned = {}
    /\ taskBlob = {}
    /\ resultBlob = {}
    /\ tasks = [t \in Tile |-> 0]
    /\ log = <<>>
    /\ committed = 0
    /\ cleaned = FALSE
    /\ dispatched = [t \in Tile |-> 0]
    /\ faults = 0

----------------------------------------------------------------------------
\* A failure of some kind, as long as the budget lasts.
Fault(kind) ==
    /\ kind \in FaultKinds
    /\ faults < MaxFaults
    /\ faults' = faults + 1

NoFault == UNCHANGED faults

----------------------------------------------------------------------------
(* Redis.                                                                  *)

\* HSET job:{id} status: set_job_status(), mark_job_completed(), and the
\* results consumer.
SetStatus(s) ==
    /\ status' = s
    /\ UNCHANGED <<count, due, tiles, attempts, abandoned, cleaned>>

\* HSET job:{id}:tiles t, the first command of record_tile_result().
RecordTile(t) ==
    /\ tiles' = tiles \cup {t}
    /\ UNCHANGED <<status, count, due, attempts, abandoned, cleaned>>

\* HINCRBY job:{id} results_count 1.
CountTile ==
    /\ count' = count + 1
    /\ UNCHANGED <<status, due, tiles, attempts, abandoned, cleaned>>

\* INCR job:{id}:tile:{t}:attempts
IncrAttempts(t) ==
    /\ attempts' = [attempts EXCEPT ![t] = @ + 1]
    /\ UNCHANGED <<status, count, due, tiles, abandoned, cleaned>>

\* SADD job:{id}:abandoned t
AddAbandoned(t) ==
    /\ abandoned' = abandoned \cup {t}
    /\ UNCHANGED <<status, count, due, tiles, attempts, cleaned>>

\* HSET job:{id} last_reap_time: a new grace window starts.
SetLastReapTime ==
    /\ due' = FALSE
    /\ UNCHANGED <<status, count, tiles, attempts, abandoned, cleaned>>

\* delete_job_tile_state() is two commands: DEL of the tiles, latencies and
\* abandoned keys, then DEL of the attempt counters a SCAN found.
DeleteTiles ==
    /\ tiles' = {}
    /\ abandoned' = {}
    /\ cleaned' = TRUE
    /\ UNCHANGED <<status, count, due, attempts>>

DeleteAttempts ==
    /\ attempts' = [t \in Tile |-> 0]
    /\ UNCHANGED <<status, count, due, tiles, abandoned, cleaned>>

----------------------------------------------------------------------------
(* MinIO and Kafka.                                                        *)

\* put_tile(job, t, 'task'), put_tile(job, t, 'result')
PutTask(t) == taskBlob' = taskBlob \cup {t} /\ UNCHANGED resultBlob
PutResult(t) == resultBlob' = resultBlob \cup {t} /\ UNCHANGED taskBlob

\* delete_job_tiles(): every blob under the job's prefix.  An S3Error and the
\* errors of single objects are logged and swallowed: the call returns all the
\* same, and any of the blobs may be left.
SweepBlobs ==
    \/ taskBlob' = {} /\ resultBlob' = {} /\ NoFault
    \/ /\ taskBlob' \in SUBSET taskBlob
       /\ resultBlob' \in SUBSET resultBlob
       /\ Fault("storage")

\* produce() to the tasks topic; the message may fail to be delivered.
ProduceTask(t, delivered) ==
    /\ tasks' = [tasks EXCEPT ![t] = IF delivered THEN @ + 1 ELSE @]
    /\ dispatched' = [dispatched EXCEPT ![t] = @ + 1]

\* A worker commits the offset of one copy of t's task.
CommitTask(t) ==
    /\ tasks' = [tasks EXCEPT ![t] = @ - 1]
    /\ UNCHANGED dispatched
=============================================================================
