# DIP in TLA+

DIP (Distributed Image Processing) cuts an uploaded image into tiles, sends one
Kafka task per tile to a pool of workers, collects the results in Redis and puts
the image together again.  It promises to do so at least once, through crashes,
lost messages, duplicated results and a change of leader.  The modules here are
a model of the parts of the program that this promise rests on; TLC checks them
on small instances, and TLAPS proves some of the results for all instances.

1. [The system](#1-the-system): components, state, operations, what makes them hard
2. [The modules](#2-the-modules) and how they correspond to the code
3. [The runs](#3-the-runs), their bounds and what they show
4. [Fairness](#4-fairness)
5. [Where the code and its comments disagree](#5-where-the-code-and-its-comments-disagree)
6. [Proofs](#6-proofs)
7. [What is not modelled](#7-what-is-not-modelled)
8. [Plan](#8-plan)

## 1. The system

```
 browser --/upload--> master replica --tasks--> worker (OpenCV) --results--> master (leader)
         --/detect-->       |        --ml_tasks-> inference (ML) --ml_results-->   |
         --/reconstruct-->  |                                                      |
                            +------------- Redis (job state, leader key) ----------+
                            +------------- MinIO (tile blobs) ---------------------+
```

Several identical *master* replicas serve HTTP.  One of them at a time is the
leader: only it runs the results listeners and the reaper.  Workers share a
consumer group on `tasks`, inference workers one on `ml_tasks`.

| component | state | operations | hard behaviour | correct when |
|---|---|---|---|---|
| leader election, `app/leader.py` | `LEADER_KEY` with a TTL in Redis; per replica an event and a deadline `_expires_at` | acquire (SET NX PX), renew and release (two scripts), `is_leader()` | slow replies, exceptions, expiry against a local clock, crashes, a database that is flushed | a replica stops acting soon after it loses the key; nobody touches another's key; there is a leader again and again |
| job state, `app/jobstore.py` | per job: a hash (status, counters, times), a hash of tiles, attempt counters, the set of abandoned tiles | one Redis command each, composed by every caller | nothing is atomic beyond one command; duplicates | the count never runs ahead; a status is final when it should be |
| blob store, `app/blobstore.py` | one object per tile for the task and for the result | put, get, delete all of a job | swept while somebody still needs it | inputs exist for as long as a retry can happen |
| results listener, `master/results_consumer.py` | a Kafka consumer, while leader | record, count, decide completion, commit | crash between record and commit, handoff in the middle of a message, swallowed exceptions | nothing is committed that is not recorded; ready means complete |
| reaper, `master/reaper.py` | none of its own; a grace window in the job | find missing tiles, republish, abandon, degrade | overlaps with a former leader's reaper and with the listener; one step of several fails | a tile's dispatches are bounded; a job is given up only when it is hopeless; no job is stuck |
| upload, `master/app.py`, `master/publisher.py` | a thread pool | create the job, stage and produce each tile | tiles fail one by one; the replica dies half-way | the reaper can bring back what was not produced |
| reconstruction, `master/app.py` | none | read tiles, fetch blobs, complete, delete | runs on any replica, at any time, twice at once | does not undo, and is not undone by, the listener and the reaper |
| OpenCV worker, `worker/main.py` | a consumer, a producer with a local queue | process with retries, publish, park on the dead letter queue, commit | `flush()` times out, delivery fails later, eviction, crash | a task is committed only once somebody has its outcome |
| inference worker, `inference/main.py` | two threads, a queue each way, a pause flag | poll, pause/resume, collect a batch, infer, hand back, commit | two threads and rebalances: tasks in a batch whose partition moved | as above; the queue is bounded; a paused consumer resumes |
| ML master side, `master/ml_*.py` | as for OpenCV jobs | publish, record, complete | completes a job, and sweeps, without `/reconstruct` | as above |
| Redis client, `app/jobstore.py` | the attempts of the call | retry of a failed command | a command whose answer was lost is executed again | nothing that was reported is missing; what is counted too often is explained by failures |
| heartbeats, `worker/main.py`, `master/heartbeat.py` | one key with a TTL per worker; a consumer per replica | send, consume, SET, scan | old messages replayed, replicas in any order, reads at different times | a dead worker disappears, a living one stays listed |
| rate limiter, `master/rate_limit.py` | timestamps per client | admit or refuse, sweep | threads, times taken before the lock | at most RATE_LIMIT per window |
| tiling, `app/imaging.py` | none | geometry of the tiles | remainders at the edge | tiles are disjoint, numbered alike by master and reaper, and cover the image |
| upload routes, `master/app.py`, `master/ml_routes.py` | a temporary file per request | rate limit, checks, tiling, create, publish | exits at every check, exceptions, a restart with another tile size | a refused upload leaves nothing; nothing oversized is decoded that the probe can recognise |
| admin routes, `master/admin_routes.py` | none | list, clean up, flush and restore | run beside everything else, in many commands | jobs survive; what is written anew expires |
| DLQ monitor, metrics, Kafka configuration, pixel operations, ONNX engine | gauges, configuration | - | - | - |

The hazards, each at the line where it bites, are in `PROJECT.json`.

## 2. The modules

```
 JobStore  <-- ResultsConsumer  <-- Reaper  <-- JobPipeline  <-- JobPipelineProofs
 (Redis, MinIO, Kafka)  (listener)             (upload, workers, /reconstruct, faults)
                                                     ^
                                                     +-- MLPipeline  <-- MLPipelineProofs

 RateLimiter, Tiling  <-- Upload  <-- UploadProofs

 RedisClient  <-- JobKeys  <-- JobKeysProofs

 Heartbeats  <-- HeartbeatsProofs         LeaderElection  <-- LeaderElectionProofs

 AtLeastOnce  <== implemented by ==  Worker           <-- WorkerProofs
                                     InferenceWorker  <-- InferenceWorkerProofs
```

(`<--` is EXTENDS, `<==` is refinement.)  `MC<M>` instantiates `M` for TLC, with
the symmetry of interchangeable replicas, workers and tiles; the symmetry is
used only in runs without liveness properties.  A definition commented as
*Mutant* is no part of the model: it is a plausible mistake in the definition
below it, listed under `mutants` in `PROJECT.json`, and breaks the property
listed with it.

**LeaderElection** - `app/leader.py`, all of it.  A call to Redis is three steps,
sent (`Wake`, `CallFails`), executed (`Execute`), answered (`ReplyArrives`,
`ReleaseReturns`), because the TTL of the key starts at the second and the
replica's deadline at the third.  There is no clock: `ttl` and `left[r]` count
down with `Tick`, a call may last `MaxCall` ticks.  With `Interference` a
command can reach Redis after its caller has given up (`late`), and
`nuclear_cleanup()` can flush the key.  `gone[r]` is a history variable: how long
the key has not been r's.

**JobStore** - one operator per Redis command, blob operation or Kafka operation
on the state of *one* job; jobs share no key.  It contains no behaviour.  The
actions of the next three modules call exactly one of them at a time, in the
order of the code, so that every interleaving of two callers is in the model.

**ResultsConsumer** - `listen_for_results()` and `_process_message()` of every
replica.  `cpc[m]` is the next command: `record` (HSET of the tile, whose answer
decides about) `count` (HINCRBY), `hlen`, `get_job` with the test of the status,
`flip` (HSET of the status), `commit`.  The consumer exists only while its replica
leads; a consumer of a former leader that is still busy loses the partition
(`Evict`), and Kafka refuses its commit.  The topic is one partition: messages of
one tile are in one partition, and order between tiles carries no meaning.

**Reaper** - `reap_once()` over the job: `missing` (HKEYS), `abandoned` (SMEMBERS),
then `degrade` and `sweep`, or per retryable tile `incr` (INCR), `republish`
(the blob is looked up, the task produced) or `give_up` (SADD), and `stamp`.
Leadership is asked before the job and not again, as in the code.

**JobPipeline** - everything else that touches the job: `publish_tile_tasks()`
(`Stage`, `Produce`, `UploadError`, `UploadCrash`), the workers as the masters see
them (`WorkerStore`, `WorkerPublish`, `WorkerDrop`), `reconstruct_job()` step by
step (`RequestArrives` ... `SweepCompleted`), `Handoff`, `MasterCrash` and the
passing of the grace window.  `leader` is a single value; that `is_leader()` can be
true of two replicas for a moment is LeaderElection's subject, and what
follows from it - the old threads finish what they have begun beside the new
leader's - is in this model through `Handoff`.

Failures are injected by `Fault(kind)`: a `cfg` chooses the kinds and how many.
`"delivery"`: a produced task is lost; `"upload"`: staging or producing raises, or the
master dies in between; `"worker"`: a result is sent twice or a task is dropped;
`"consumer"`, `"reaper"`, `"request"`: a call raises in that thread; `"commit"`: a commit is
lost; `"storage"`: `tile_exists()` or `delete_job_tiles()` meets an error of MinIO, which both
swallow; `"handoff"`, `"crash"`.  A Redis command that raises was executed or not: the HSET of a
status is both in `ConsumerError`, and an earlier command that was executed is the failure of
the one after it.

**AtLeastOnce** - the abstract specification of a group of workers: a set of handled
messages that grows, an offset that only ever covers handled ones, and every
message handled in the end.

**Worker** - `worker/main.py` on one partition: `run()` with `process_tile()`,
`publish_result()`, `send_to_dlq()`, one step per outcome, the producer's local queue
(`outbox`) and its background thread (`Deliver`, `DeliveryFails`).  `flush()` returns
with the queue empty or after its timeout, and what was not sent is *still* in
the queue.  `kind[i]` says if task i can be processed at all.

**InferenceWorker** - `inference/main.py` on one partition of `ml_tasks`.  The poller runs
`drain` (commits handed back), `pressure` (`_apply_backpressure()`), `poll`, during which Kafka
assigns and revokes the partition; the batcher runs `collect`, `publish`, which is the loop
over the batch, one task a step (`published[r]` of them are through), and `flush`.  `paused[r]`
is the program's flag, `held[r]` is what the Kafka client believes about the partition: the two
are what `_on_assign()` has to keep together.  A commit by a member of the group is accepted
for a partition that has moved: the broker checks the member, not the assignment.

**MLPipeline** - a detection job.  It extends JobPipeline, since `ml_publisher` and
the ML listener take the same steps as their siblings; its own are the end of the
ML listener (`MLFlip`, `MLSweep`: it completes the job itself and sweeps the input
blobs) and an inference worker's answer without a blob (`Infer`, `Skip`).  There is no
`/reconstruct`, and `/detect/status` only reads.  `skipped` records that an exception, a crash
or an error of MinIO that was swallowed cut a message or a sweep short.

**RateLimiter** - `@rate_limit` in one process.  `ReadClock` is before the lock, `Admit`
and `Refuse` are under it, so requests are counted in another order than they are
stamped, and the sweep (`Swept`) uses the stamp of the request that triggers it.
`request_counts[c]` is the set of the requests whose stamps are in the list of an
address: the code only filters and counts that list, so its order says nothing.
`admitted` and `admission` are the history the properties are about; the counter
of calls is kept modulo `SWEEP_EVERY`, which is all that is asked of it.

**Tiling** - pure operators: what `probe_image_dimensions()` reads of a header
(`Probed`; a JPEG is scanned byte by byte, `ScanJpeg`, with stray bytes, bare markers, segments
and fill bytes; of a PNG and a BMP the question is whether enough bytes were read),
`tile_geometries()`, and the pixels
`reconstruct_image_from_tiles()` paints.  A cell of the grid is its row and its column; the
tiles are the cells that are large enough, and the id of a tile is the number of such cells
before it in the code's loop (`Earlier`).

**Upload** - `upload_image()` and `detect_image()`, which take the same steps, in one
process: each exit is an action, since each one removes the temporary file by
itself.  `job` is a function on the requests whose job was created, and outlives
the process.  `Restart` is a process with another `TILE_SIZE`
(`bench/run_tile_size_sweep.py` does that): a job is reaped under another
configuration than it was uploaded under.  `Publish` may publish any of the tiles: those that
could not be staged or produced are counted and left out, and the answer is 200 if there is
one at all.

**RedisClient** - one Redis command as it is tried: `RedisClient._retry_operation()`
over redis-py, which repeats a command that timed out once by itself
(`retry_on_timeout=True`).

**JobKeys** - the keys of one job, with their TTLs, below the level of JobStore: each
function of `app/jobstore.py`, each listener's use of it and each clean-up of
`master/admin_routes.py` is a sequence of commands (`Program`), each command is
answered, repeated or given up (RedisClient) and was executed or not, and other
threads run in between.  `cut` records which keys somebody wrote and could not
EXPIRE.

**Heartbeats** - the sender thread of the workers, a consumer per replica with a
backlog, the SET in two steps (its TTL is computed before it is executed), and
the dashboard's two scans and MGET.  Beats carry whole seconds, the clock has
`SECOND` ticks to one.  A replica that was down comes back with a new group, at the
end of the topic, or with the old one and a backlog (`behind`).

## 3. The runs

| run | instance | distinct states | shows |
|---|---|---|---|
| `LeaderElection` | 2 replicas, TTL 2, calls up to 2 ticks, late commands and flushes, 2 faults | 397 k | a replica believes it leads for at most `MaxOverlap` after losing the key (`OverlapBounded`); nobody else takes or deletes it (`LockLostByOwner`); there is a leader again and again (`LeadershipRegained`) |
| `JobPipeline_faults` | 1 master, 2 tiles, uploads that outlast the grace window, 1 fault of seven kinds | 920 k | a job is degraded only when every tile is recorded or abandoned (`DegradedOnlyWhenHopeless`), and every job leaves `processing` (`JobSettles`) |
| `JobPipeline_reconstruct` | 1 master, 2 tiles, a request at any time, 1 exception in a handler or the listener, or 1 error of MinIO | 2.8 M | inputs are kept while the job is processing (`SourceKept`), a duplicate is not counted (`CountNeverAhead`), ready means complete (`ReadyOnlyWhenComplete`) |
| `JobPipeline_handoff` | 2 masters, 2 tiles, a handoff or a crash at any step | 4.5 M | every committed result is recorded (`CommittedIsRecorded`), the dispatches of a tile stay within `MAX_TILE_ATTEMPTS` although two reapers overlap (`DispatchBound`), and while a complete job is processing somebody decides on it or has a message to (`ReadyIsOwed`) |
| `MLPipeline` | 1 master, 2 tiles, uploads that outlast the grace window, 1 fault of eight kinds | 702 k | inputs are kept while the job is processing although the listener sweeps (`SourceKept`), a replica counts a job as finished once, every job leaves `processing` unless the listener swallowed an exception (`MLJobSettles`), and the blobs of a completed job are swept unless the sweep was cut short (`BlobsSwept`) |
| `Upload` | 3 requests, 2 clients, 5 files, 2 tile sizes, limit 1 in 3 ticks, 1 exception, partial publication or restart | 2.8 M | the rate limit holds up to the stall between clock and lock (`RateBound`) and refuses nobody without a reason; no rejected upload leaves a file or a job; nothing oversized is decoded whose header is within reach, fill bytes apart (`NeverDecodesOversized`); the layout is disjoint, complete but for strips thinner than the smallest tile, counted right, and the same for the reaper (`LayoutCovers`) |
| `JobKeys` | 1 tile, 4 calls, 2 at a time, 2 failures, expiries or crashes | 1.4 M | no key stays without a TTL (`EveryKeyExpires`); `results_count` is off by no more than the failures explain; the retry budget is never undercounted; the nuclear clean-up keeps the jobs it saw with all their fields |
| `Heartbeats` | 1 worker, 2 replicas, 18 ticks, a timeout of 12, 1 fault | 5.2 M | no late, repeated or reordered beat keeps a dead worker alive (`NoResurrection`), a steady worker stays listed through a failure (`SteadyIsListed`), the dashboard calls nobody healthy who is not (`HealthyIsAlive`) |
| `Worker` | 2 workers, 2 tasks of every kind, 2 faults of nine kinds | 66 k | Worker implements AtLeastOnce (`TaskDelivery`); each repeated answer costs a failure (`AnswersBounded`) |
| `InferenceWorker` | 2 replicas, 3 tasks (one unreadable), batches and queue of 2, 1 fault of five kinds | 424 k | InferenceWorker implements AtLeastOnce; the queue is bounded, also across rebalances; a paused consumer resumes |
| `JobPipeline_completed`, `Worker_dlq` | the smallest instance that shows it | - | section 5 |

The bounds, and why they are enough:

- *Two replicas or workers.*  Every conflict in the code is between two: the holder
  of the key and the next one, the former and the new leader, the owner of a
  partition and the one it moves to.  A third one only repeats these roles.
- *Two tiles.*  One tile is done and another is not, one is abandoned and another
  retryable, the last message and one before it.  Tiles do not interact
  otherwise.  InferenceWorker has three tasks because with a queue of two, the
  third is the one that has to wait.
- *One or two faults* per run.  A fault may come at any step; the kinds are
  combined where the code's answer to one is open to another (`Worker`: a timeout
  and then a crash).  `MaxFaults` makes the state space finite: with it duplicates,
  and so the results topic, are finite.
- *`MAX_TILE_ATTEMPTS` = 2* (3 in `app/config.py`): one retry, then the refusal.
  `max_retries` = 2 is the default of `process_tile()`.
- *TTL 2, calls up to 2 ticks*: shorter than, as long as, and beyond the TTL
  together with the interference; `MaxOverlap` is reached in both settings, so the
  bound is tight.

- *Grace window*: with `SlowUpload` the window can pass before the upload is through.  It
  is TRUE but in `JobPipeline_handoff`, where two masters leave no room for it.
- *Upload*: sizes are scaled down (tiles of 3 or 4 pixels, the smallest 2, images of 4
  to 9, five tiles at most, 30 bytes of header).  The files are a PNG and a BMP with
  remainders thinner than the smallest tile, the BMP with too many tiles under one tile size
  only, and three JPEGs that are too large: one with a stray byte, a bare marker and a
  segment before its frame header, which ends with the last byte that is read; one whose frame
  header ends one byte later; and one with a fill byte.  Three requests and a limit of one are the least
  for a client that is refused, sits out its window and is admitted while another
  one's request sweeps.
- *JobKeys*: a conflict in the code is between two functions, and one more is needed
  before them to create the job and one after to meet what they left.  Two failures: a
  lost answer and the repetition that fails as well.
- *Heartbeats*: three intervals to a timeout, as in `app/config.py`; a replica that is
  not behind takes a beat within a tick, one that is takes as long as it likes.
  With 18 ticks every beat of the first timeout can outlive its worker.

Deadlock is checked in `LeaderElection`.  The other models have
`CHECK_DEADLOCK FALSE`, since a job that is done, or a topic that is consumed,
rightly leaves nothing to do.

## 4. Fairness

Weak fairness of each thread, as a whole, is what the operating system gives:

- LeaderElection: the election thread of every replica, and time.  A crash restarts
  the process (`restart: unless-stopped` in `docker-compose.yml`).
- JobPipeline: the upload, some worker for every task (the group assigns its
  partition to a live member), the listener and the reaper of every replica, and
  the grace window.  *Not* fair: requests to `/reconstruct`, handoffs and failures.
- MLPipeline: as JobPipeline, with the ML listener and the inference workers.  Not
  fair: failures.
- Worker: the thread of every worker, and its producer's thread: librdkafka sends
  what it holds or reports its failure (`message.timeout.ms`).
- InferenceWorker: both threads and the producer's.  Strong fairness of "somebody is
  assigned the free partition" is the group coordinator's: the poller passes
  through `poll()` again and again but is not always in it.

## 5. Where the code and its comments disagree

Two of them are runs that TLC ends with a counterexample:

| run | what happens | what is said |
|---|---|---|
| `JobPipeline_completed` | the listener reads `processing`, `/reconstruct` completes the job, the listener writes `ready_for_reconstruction`: a completed job becomes ready again, with nothing left to reconstruct, and `/result` refuses it for good | `app/metrics.py:51-53` |
| `Worker_dlq` | `send_to_dlq()` ignores what `flush()` returns and `run()` what `send_to_dlq()` returns: the task is committed with its parked copy still in memory | "has to be durable before that happens", `worker/main.py:305-307` |

The next ones are stated in the modules as well, and TLC refutes each as soon as
it is put in place of the properties of the run's `.cfg` (with `SPECIFICATION Spec`):

| property, `.cfg` | what happens | what is said |
|---|---|---|
| `AtMostOneLeader`, `LeaderElection.cfg` | the deadline of a replica starts at the reply to SET NX, the key's TTL at its execution: for as long as the reply took, a second replica may lead too | `app/leader.py:58-66`, `app/metrics.py:61-63` |
| `DegradedIsFinal`, `JobPipeline_faults.cfg` | as in `JobPipeline_completed`, with the reaper in place of `/reconstruct`: a degraded job is resurrected, its blobs gone | "don't resurrect it", `master/results_consumer.py:60-61`; "a terminal status", `master/reaper.py:33` |
| `JobSettles`, `JobPipeline_faults.cfg` with the fault kind `"consumer"` (and `FairSpec`) | an exception after the HSET of the last tile leaves the job complete and `processing`; the reaper sees nothing missing, and there is no next message | "the results consumer will catch it on the next message", `master/reaper.py:154-156` |
| `CommittedIsHandled`, `InferenceWorker.cfg` | a failed batch stays uncommitted only until the next batch commits a higher offset; the consumer does not go back | "so Kafka redelivers them", `inference/main.py:200-203` |
| `NeverCountedTwice`, `JobKeys.cfg` | the INCR of an attempt is executed, its answer lost and the command repeated: by redis-py after a timeout, before the wrapper sees anything, or by the wrapper after a ConnectionError.  A tile loses an attempt of its budget | "raise immediately on TimeoutError", "a ConnectionError means the command never reached the server", `app/jobstore.py:58-71` |
| `RedundantWritesCostNothing`, `Heartbeats.cfg` | a replica that is behind overwrites a worker's key with an older beat and a shorter TTL; a living worker may disappear until its next beat | "naturally idempotent", `master/heartbeat.py:16-19` |

The counterexamples also showed the following:

- The reaper reads the status, then degrades the job three commands later: a job
  that became ready in between is degraded all the same (`master/reaper.py:173`).
- After `/reconstruct` has deleted the tiles, a late duplicate is "new" to HSET and
  counted: `results_count` exceeds `expected_tiles`, and the keys are back until their
  TTL ends (`app/jobstore.py:251-258`).  This is why `CountNeverAhead` and its like say
  `~cleaned`.
- An error between INCR and the produce burns an attempt without a dispatch
  (`master/reaper.py:205`), so that a tile may be dispatched fewer times than
  `MAX_TILE_ATTEMPTS` says (`app/config.py:91-94`).  `DispatchBound` is the direction that
  holds.
- The grace window starts at `create_job()`: a reap during a long upload abandons
  tiles whose blobs are not there *yet* (`master/reaper.py:149`, 86-88).  With
  `SlowUpload = TRUE` the model does this, so no property says that a tile is abandoned
  only when its input is gone for good.
- `tile_exists()` answers False to any `S3Error`, not only to a missing blob
  (`app/blobstore.py:57-61`, "True if a blob is still present"): an error of MinIO is enough
  for the reaper to abandon a tile whose blob is there and whose budget is not spent.
- `delete_job_tiles()` logs an `S3Error` and the errors of single objects and returns
  (`app/blobstore.py:70-79`).  No job is swept twice, so the blobs that were left stay
  for good: of a completed or degraded OpenCV job as of a detection job.  `BlobsSwept`
  excuses them.
- A fill byte FF before a marker, which JPEG allows, is read as a marker with a length
  (`app/imaging.py:59-62`): the scan jumps past the frame header, returns None, and an oversized
  file is decoded although its header was within reach.  The comment speaks of an
  "unrecognized/malformed header" only (`master/app.py:133-135`).  `NeverDecodesOversized` leaves
  these files out; without `f.filled` TLC finds the one of the run.
- `publish_tile_tasks()` returns True, and the client gets 200, if a single tile was published
  (`master/publisher.py:139-153`, which says so); the others are the reaper's.
- The listener's HSET of the status may have been executed although it raises
  (`app/jobstore.py:73-92`): the job has its status, and the steps after it are skipped, the
  sweep of a detection job among them.
- The commit of a later message passes over a results message whose processing
  failed (`master/results_consumer.py:126`); the tile is then the reaper's.
  `CommittedIsRecorded` therefore is a property of the runs without `"consumer"` faults.

- `EveryKeyExpires` makes an exception of two writes that are not followed by an EXPIRE:
  the listeners' HSET of the status (`master/results_consumer.py:63`,
  `master/ml_results_consumer.py:56`) and the publishers' HINCRBY of
  `failed_tasks`.  If the job has been cleared or has expired, they create an immortal
  key, the gap `app/jobstore.py:216-222` says is closed.
- `cleanup_orphaned_keys()` is documented to delete "job-scoped keys whose job:{id} no
  longer exists" (`master/admin_routes.py:195-196`), but classifies keys by their
  suffix alone: the companions of a job that is gone are never orphans.
  `clear_old_jobs()` leaves the attempt counters and the set of abandoned tiles to
  their TTL, and the blobs for good.
- A job created between the SCAN and the FLUSHDB of `nuclear_cleanup()` is lost, and an
  exception after the FLUSHDB loses them all; a job that finished in between gets its older
  status back, and a completed detection job its hash without its tiles: the tiles are not
  backed up (`master/admin_routes.py:264-277`).  `NuclearKeepsJobs` is about the jobs it saw,
  without a failure.
- `/detect/status` reads the job, then its tiles (`master/ml_routes.py:170`, 188).  If
  `clear_old_jobs()` (`master/admin_routes.py:317`) deletes them in between, or
  `nuclear_cleanup()` has restored the job without them, the answer says completed and is empty.
- An exception between `file.save()` and `os.remove()` leaves the temporary file
  (`master/app.py:127-174`): `NothingLeftBehind` says nothing of an answer of 500.
- A strip narrower than 16 pixels at the right or the bottom edge has no tile, and is
  black in the result (`app/imaging.py:91`); `LayoutCovers` allows exactly that.  A
  `TILE_SIZE` below 16 is not refused and leaves no tile at all; with the other defaults such an
  upload already has too many cells (`app/config.py:61-70`).

## 6. Proofs

Every theorem holds for every value of the constants its module allows: any
number of replicas, workers, requests, tiles and tasks, any timeout and bound,
any set of fault kinds, except where a hypothesis is named below.  TLC
also finds each inductive invariant true on the small instances (the set `Live` of
WorkerProofs has to be bounded for that).

**LeaderElectionProofs**

- `TypeCorrect`, and `OverlapTheorem` (`OverlapBounded`).  The bound is not inductive: it
  does not say how a deadline and the age of the loss trade off.  `IInv` adds
  `HeldInv` (while the key is r's, r's deadline is at most `MaxCall` beyond the key's TTL, and an
  executed call whose reply is on its way has used up at least what the key has lost),
  `LostInv` (once it is not, what is left of the deadline plus the time since the loss stays
  below the bound, except while r waits for the reply of its own release), `ThreadInv`
  (no event, no deadline), `KeyInv` and `LateInv`.
- `LockTheorem` (`LockLostByOwner`): of all the scripts only a release by the owner
  deletes the key (`ExecLoses`); otherwise it expires or Redis is flushed.

**JobPipelineProofs**

- `TypeCorrect`.  A position in the log must exist and the number of copies of a task
  must not fall below zero, so `TInv` adds `PlaceInv`: a listener that records has a
  message, a worker that holds a result has an uncommitted task.
- `GivenUpOnlyWhenHopeless` (`DegradedOnlyWhenHopeless`).  What the reaper has read is
  stale when it writes; the argument is that it is stale in the harmless
  direction.  `Monotonic`: recorded and abandoned tiles only grow until `/reconstruct`
  deletes them.  `HopelessInv` adds what a reaper at `abandoned` knows of its `missing`
  set, and at `degrade` that every tile is recorded or abandoned.
- `RetriesHaveTheirSource` (`SourceKept`).  `SourceInv` adds that a staged tile that is not
  produced has its blob while the job is processing, and that whoever is about to
  sweep has seen the status leave `processing`; `NeverReprocessed` shows it never
  comes back.
- `CommittedResultsAreRecorded` (`CommittedIsRecorded`).  `CommitInv`: the consumer that owns
  the partition has recorded all it has read but the message in hand; a consumer
  that was fenced off commits nothing.  The hypothesis is that no listener meets
  the fault `"consumer"`: the `except` of the loop goes on to the next message, whose
  commit passes the lost one.  With that fault the property is false, and the reaper, not the
  offset, brings the tile back.
- `CompleteJobIsDecided` (`ReadyIsOwed`), under the same hypothesis: the safety half of
  `JobSettles`.  While a job that has every tile is still processing, there is a message nobody
  has committed, and the consumer that has the partition has yet to read it or is deciding on
  it.  The core is `OwedFirst`: whoever records the last tile does so from a message that no
  owner has left behind, since what an owner has left behind is recorded (`CommitInv`); so if
  the listener that recorded it was fenced off, or dies, an owner comes to that message, and
  reads a complete HLEN.  `Handled` and `Advances` say what a step does to the messages without
  naming its action, so that the two inductions (`CommitStep`, `OwedStep`) serve both pipelines.
- `CounterNeverAhead` (`CountNeverAhead`).  `CountInv`: only the listener whose HSET was the
  first counts a tile, so no two listeners are about to count the same one, and
  the counter is at most the number of the tiles nobody is about to count (`Counted`).
- `ReadyIsComplete` (`ReadyOnlyWhenComplete`).  `CompleteInv`: the HLEN a listener has read is never
  above the number of recorded tiles, which only grows.
- `RetryBudget` (`DispatchBound`).  `BudgetInv`: for each tile, what was dispatched, the
  reapers that have counted an attempt and not produced it (`Republishing`) and the upload's
  own dispatch if it is still to come are at most one more than the attempts the
  counter has granted.  Overlapping reapers are safe because the HINCRBY, not a read, grants them.

**WorkerProofs**

- `TypeCorrect` (with `PlaceInv`).
- `WorkersDeliver`: `Spec => AtLeastOnce!Spec`, the refinement of the safety half of
  AtLeastOnce under its mapping.  `SafeInv`: before a worker commits, its message has
  gone through the queue of the producer or is the last one there, and the owner of
  the partition has left no task behind.
- `AnswersTheorem` (`AnswersBounded`).  `CountInv`: for each task, the answers given, those on their
  way (`Live`) and the poll that is still to come without a failure (`ToPoll`) are at most
  one plus the failures.

**InferenceWorkerProofs**

- `TypeCorrect`.  `LoopInv` says where the loop over the batch is.
- `QueueTheorem` (`QueueBounded`).  `PressureInv`: an owner that is paused has its assignment
  held, across every rebalance, and one that polls unpaused has seen room since; only the
  batcher, which makes more room, works on the queue in between.
- `HoldTheorem` (`HeldOnPurpose`), the safety half of `BackpressureReleased`: the consumer holds
  its assignment paused if and only if its worker remembers that it paused, so that no pause
  is left that `MayResume` would not lift.
- `InferenceDelivers`: `Spec => AtLeastOnce!Spec`, where what is handled includes what
  `_process_batch()` drops (`dropped`).  `DeliveryInv`: the queues keep the order of the
  partition, so that everything below a task is settled or ahead of it (`Ordered`), and
  what the loop has published is settled or in the producer's queue (`Sent`).

**MLPipelineProofs**

- `MLTypeCorrect` (with `MLPlaceInv`) and `FinishedTheorem` (`FinishedOnce`).  `FinishedInv`: a
  listener at `flip` has not completed the job before, and a job it has completed is no longer
  processing.
- `MLRetriesHaveTheirSource` (`SourceKept`): as `RetriesHaveTheirSource`, with the ML listener's
  sweep, which it only comes to once it has written the status.
- `CompleteMLJobIsDecided` (`MLReadyIsOwed`): the safety half of `MLJobSettles`, from `CommitStep`
  and `OwedStep`.  Here it needs no hypothesis on the faults: until a listener has in fact
  swallowed an exception (`"message" \in skipped`), every step is `Handled`.
- `CompletedIsSwept` (`SweepIsOwed`): the safety half of `BlobsSwept`.  `StagedFirst`: a tile
  that is not staged has no message, so a completed job, which has every tile (`WholeInv`, as
  `CompleteInv`), has no upload left that could put a blob after the sweep.  A sweep that
  raised, was cut short by a crash or left blobs because MinIO failed is excused (`"sweep" \in
  skipped`).

**JobKeysProofs**

- `TypeCorrect`.  `TInv`: every actor is at a command of its own function (`Placed`), and
  each function has its caller (`CallerInv`).
- `UndercountTheorem` (`NeverUndercounts`): attempts only grow, and grow before they are
  returned, unless a key was lost.
- `ExpireTheorem` (`EveryKeyExpires`).  A key without a TTL is one whose EXPIRE somebody still owes
  (`Owed`: the EXPIREs from the command an actor is at to the end of its function).
- `CountTheorem` (`CountExplained`).  `Order`: which functions can be under way as long as
  nothing was deleted; `Balance`: counter and tiles differ by at most what is between
  its HSET and its HINCRBY and the failures, in both directions.
- `NuclearTheorem` (`NuclearKeepsJobs`), with all the fields of the job.  `NuclearInv`: a
  caller that has seen the hash before FLUSHDB still has it to restore.

**UploadProofs**

- `TypeCorrect`; `RateTheorem` (`RateBound`) and `RefusalTheorem` (`RefusedForAReason`).  `RateInv`: a
  request that was let in stays counted for its address until its stamp leaves the window, and
  stamp and admission are at most `MaxStall` apart; no sweep forgets it earlier.
- `CleanTheorem` (`NothingLeftBehind`).  `Clean(r)` says, place by place, what a request has left
  so far and that it has not answered.
- `LayoutTheorem` (`LayoutCovers`).  The arithmetic is one step of the
  grid: the edges of a cell (`CellEdges`), two cells share no pixel (`CellsApart`), and a pixel lies
  in the cell its coordinates divide into (`CellsCover`).  That the ids are exactly
  0 .. `expected_tiles` - 1 is a counting argument (`Places`): "how many are before it" is an
  injection of a finite ordered set into the numbers below its size.  `LaidInv` carries the layout
  through the upload: the tiles that are published are among those of the width, the height and
  the tile size the job tells, whatever `Restart` has set since.

**HeartbeatsProofs**

- `TypeCorrect`, `DeadIsGone` (`NoResurrection`) and `DashboardIsRight` (`HealthyIsAlive`).  Neither says
  anything of a beat that is on its way, so `IInv` follows one from its worker to Redis: a queued
  beat is one its worker has sent (`BeatInv`); a SET that is on its way was computed at most
  `MaxStall` ago, and its `px` and the time it was computed add up to the stamp plus the
  timeout (`SetInv`); hence a key lives at most that `MaxStall` longer than the timeout after
  the last beat (`KeyInv`).
- `SteadyTheorem` (`SteadyIsListed`), if the timeout is long enough (`TimeoutSuffices`):

      SECOND + MaxLag + MaxStall + Disorder + (MaxFaults + 1) * HEARTBEAT_INTERVAL
          <= HEARTBEAT_TIMEOUT

  where `Disorder` is 0 if a beat is written before the next one is sent, and `MaxLag`
  otherwise.  `Heartbeats.cfg` meets it exactly (12 <= 12); with the code's 5 s and 15 s it
  allows one lost beat and up to four seconds of lag and stall.  `QueueInv` says that a queue
  is in the order of sending, and how old a beat in it and its stamp can be; `DueInv` and
  `HeardInv` say when the next beat is due, and that a worker a replica hears is alive.
  `PaceInv` is the heart: each beat of a worker that is still to be written (`Pending`), and
  the next one that is due, comes at most one interval after the one before it, and one more
  for each that was skipped.  They are counted from the time the key will expire
  (`Covered`), or, until the replica has written it, from the first beat it heard.

The proofs rest on the assumptions named in the modules (`LeaderAssumption`,
`JobStoreAssumption`, `ReaperAssumption`, `PipelineAssumption`, `HeartbeatAssumption`,
`SettingAssumption`, `WorkerAssumption`, `InferenceAssumption`, `RateAssumption`,
`UploadAssumption`, `TilingAssumption`, `ClientAssumption`, `JobKeysAssumption`).  They say
little more than that bounds are natural numbers, sets of actors are finite, and `None` is none
of the values it stands beside; `JobKeysAssumption` also says that a tile is not the name of
another key of the job, and `UploadAssumption` that the sizes of a file are natural numbers.

So a theorem states every safety property of the passing runs but one.

Only model-checked:

- `NeverDecodesOversized`: what the scan of a JPEG finds is a recursive function of its bytes,
  and what it computes for every file would take induction over them;
- the liveness properties (`LeadershipRegained`, `JobSettles`, `MLJobSettles`, `BlobsSwept`,
  `BackpressureReleased`) and the liveness half of the refinements (`TaskDelivery`): TLAPS proves
  neither ENABLED nor liveness under fairness.  What of `JobSettles`, `MLJobSettles`, `BlobsSwept`
  and `BackpressureReleased` is safety, that somebody still owes the next step, is proved;
- what the two runs that expect a violation show (section 5).

## 7. What is not modelled

- Latencies, `failed_tasks` and other fields that nothing decides on.
- Contents of blobs, pixel operations (`app/ops.py`), malformed JSON, which no
  producer of the system writes, the older BMP header with 16-bit sizes, a rotation
  `cv2.imread()` takes from EXIF, and the 413 of `MAX_CONTENT_LENGTH`, before any handler runs.
- The administrator is in JobKeys, not in the pipelines: what a clean-up does to a job under
  way there is in section 5, by reading.  A restored older status can also leave a complete job
  `processing`, or let it be finished twice.
- Steps that are one in the model and two in the code: the worker's get and put of a tile
  (`WorkerStore`; a put that comes after the sweep leaves a blob nobody reads) and the
  listener's question for the leader before its poll (`Poll`; a handoff in between is one right
  after the poll).  In Worker partitions move by eviction only,
  and a former owner's commit is refused.
- The inference engine and the suppression of overlapping boxes across tiles: they
  compute with floating-point numbers, which TLC has not.
- More than one partition of a topic, more than one job: the models follow one of
  each; jobs share no key and no message.
- A Redis command that is executed after its own repetition, except in
  LeaderElection (`late`), where it matters most.
- The last drain of a graceful shutdown of the inference worker; a crash at the
  same point, which is in the model, loses more.
- Heartbeats that were handled and not committed when a replica restarts; they are
  older than those it then reads, and a repeated SET is in the model.  The
  rounding of a TTL of less than a millisecond to zero.
- DLQ monitor, metrics, Kafka configuration: gauges and settings that no decision
  reads.  `/metadata`, `/health`, `/status`: they only read.
- The two listeners, the reaper and the election in one model: `leader` in JobPipeline
  is one value.  Two leaders at once overlap in the pipeline exactly as a former and
  a new leader's threads do after a `Handoff`, for as long as LeaderElection's
  `MaxOverlap` says.

## 8. Plan

Built: every part of the program that keeps state others decide on.  Twelve runs are
what the project keeps; a new question replaces a weaker one.

What is left:

- Shared lemmas (cardinality of a set of tiles, positions in a queue) that several proof modules
  state for themselves.
- A bound on how long a complete job can stay with nobody deciding on it: it would need the
  clock of LeaderElection in JobPipeline.
