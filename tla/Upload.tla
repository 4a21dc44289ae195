------------------------------- MODULE Upload -------------------------------
(***************************************************************************)
(* The two routes that create a job, POST /upload (master/app.py) and POST *)
(* /detect (master/ml_routes.py), in one master process: the rate limit,   *)
(* the checks, the temporary file, the tiling, create_job() and the        *)
(* publication of the tiles.  Requests run in threads of their own.        *)
(*                                                                         *)
(* The job outlives the process: a process restarted with another          *)
(* TILE_SIZE, as bench/run_tile_size_sweep.py does, reaps it.              *)
(***************************************************************************)
EXTENDS RateLimiter, Tiling

CONSTANTS
    File,                  \* the files clients send, see Tiling.tla
    TileSizes,             \* the values of TILE_SIZE
    MIN_IMAGE_SIZE,
    MAX_IMAGE_DIMENSION,
    None,
    MaxFaults              \* bound on the exceptions and restarts

ASSUME UploadAssumption ==
    /\ TileSizes \subseteq Nat \ {0}
    /\ TileSizes # {}
    /\ \A f \in File : f.width \in Nat /\ f.height \in Nat
    /\ MaxFaults \in Nat

VARIABLES
    TILE_SIZE,   \* the configuration of the running process
    file,        \* file[r]: what it sent, None but between the save and the answer
    stored,      \* the requests whose temporary file is on disk
    job,         \* job[r]: what create_job() stored of the geometry, for the
                 \* requests that came so far
    tasks,       \* tasks[r]: the tiles that were dispatched
    answer,      \* answer[r]: the status code, 0 before there is one
    faults

handlerVars == <<file, stored, job, tasks, answer>>
rateVars == <<now, ip, stamp, limiterVars>>
vars == <<now, rpc, ip, stamp, limiterVars, TILE_SIZE, handlerVars, faults>>

HandlerPc == {"new", "stamped", "admitted", "saved", "loaded", "removed",
              "created", "done"}

TypeOK ==
    /\ LimiterTypeOK
    /\ rpc \in [Request -> HandlerPc]
    /\ TILE_SIZE \in TileSizes
    /\ file \in [Request -> File \cup {None}]
    /\ stored \in SUBSET Request
    /\ DOMAIN job \subseteq Request
    /\ answer \in [Request -> {0, 200, 400, 429, 500, 503}]
    /\ faults \in 0..MaxFaults

Init ==
    /\ LimiterInit
    /\ TILE_SIZE \in TileSizes
    /\ file = [r \in Request |-> None]
    /\ stored = {}
    /\ job = [r \in {} |-> None]
    /\ tasks = [r \in Request |-> {}]
    /\ answer = [r \in Request |-> 0]
    /\ faults = 0

----------------------------------------------------------------------------
Goto(r, from, to) == rpc[r] = from /\ rpc' = [rpc EXCEPT ![r] = to]

Answer(r, code) == answer' = [answer EXCEPT ![r] = code]

\* The locals of the handler are gone when it returns.
Return(r, code) == Answer(r, code) /\ file' = [file EXCEPT ![r] = None]

Fault == faults < MaxFaults /\ faults' = faults + 1

Elsewhere == UNCHANGED <<rateVars, TILE_SIZE>>

\* The decorator.
Limit(r) ==
    /\ \/ ReadClock(r) /\ UNCHANGED answer
       \/ Admit(r) /\ UNCHANGED answer
       \/ Refuse(r) /\ Answer(r, 429)
    /\ UNCHANGED <<TILE_SIZE, file, stored, job, tasks,
                   faults>>

\* The form is bad (400), or /upload finds no heartbeat of a worker (503);
\* /detect looks, but refuses nobody: the inference workers send none.
Reject(r) ==
    /\ Goto(r, "admitted", "done")
    /\ Answer(r, 400) \/ Answer(r, 503)
    /\ Elsewhere
    /\ UNCHANGED <<file, stored, job, tasks, faults>>

\* file.save()
Save(r) ==
    /\ Goto(r, "admitted", "saved")
    /\ \E f \in File : file' = [file EXCEPT ![r] = f]
    /\ stored' = stored \cup {r}
    /\ Elsewhere
    /\ UNCHANGED <<job, tasks, answer, faults>>

\* Mutant: the file stays on disk.
TurnDownKeeps(r, from) ==
    /\ Goto(r, from, "done")
    /\ Return(r, 400)
    /\ Elsewhere
    /\ UNCHANGED <<stored, job, tasks, faults>>

\* os.remove() and 400.
TurnDown(r, from) ==
    /\ Goto(r, from, "done")
    /\ stored' = stored \ {r}
    /\ Return(r, 400)
    /\ Elsewhere
    /\ UNCHANGED <<job, tasks, faults>>

TooLarge(size) == size[1] > MAX_IMAGE_DIMENSION \/ size[2] > MAX_IMAGE_DIMENSION
TooSmall(size) == size[1] < MIN_IMAGE_SIZE \/ size[2] < MIN_IMAGE_SIZE

\* Mutant: only the width is looked at.
ProbedTooWide(f) == \E size \in Probed(f) : size[1] > MAX_IMAGE_DIMENSION

\* The header of the file says that it is too large.
ProbedTooLarge(f) == \E size \in Probed(f) : TooLarge(size)

\* probe_image_dimensions()
RejectProbed(r) ==
    /\ rpc[r] = "saved"
    /\ ProbedTooLarge(file[r])
    /\ TurnDown(r, "saved")

\* cv2.imread()
Load(r) ==
    /\ Goto(r, "saved", "loaded")
    /\ ~ProbedTooLarge(file[r])
    /\ Elsewhere
    /\ UNCHANGED <<file, stored, job, tasks, answer, faults>>

Unusable(f) ==
    \/ f.format = "not an image"
    \/ TooSmall(<<f.width, f.height>>)
    \/ TooLarge(<<f.width, f.height>>)
    \/ TooManyTiles(f.width, f.height, TILE_SIZE)

\* Not an image, too small, too large after all, or too many tiles.
RejectLoaded(r) ==
    /\ rpc[r] = "loaded"
    /\ Unusable(file[r])
    /\ TurnDown(r, "loaded")

\* split_image_into_tiles() and os.remove()
Split(r) ==
    /\ rpc[r] = "loaded"
    /\ ~Unusable(file[r])
    /\ Goto(r, "loaded", "removed")
    /\ stored' = stored \ {r}
    /\ Elsewhere
    /\ UNCHANGED <<file, job, tasks, answer, faults>>

Tiles(r) == tile_geometries(file[r].width, file[r].height, TILE_SIZE)

\* create_job() with the number of the tiles that are there.
CreateJob(r) ==
    /\ Goto(r, "removed", "created")
    /\ job' = [q \in DOMAIN job \cup {r} |->
                 IF q # r THEN job[q]
                 ELSE [width |-> file[r].width, height |-> file[r].height,
                       tile_size |-> TILE_SIZE, expected_tiles |-> Cardinality(Tiles(r))]]
    /\ Elsewhere
    /\ UNCHANGED <<file, stored, tasks, answer, faults>>

\* publish_tile_tasks() or publish_ml_tasks(): a tile that cannot be staged or
\* produced is counted and left out, and the answer is 200 if any tile was
\* published.  It is 500 if none was, or if the last flush raised; the job and
\* the tiles that were published are there all the same.
Publish(r) ==
    /\ Goto(r, "created", "done")
    /\ \E published \in SUBSET Tiles(r) :
          /\ tasks' = [tasks EXCEPT ![r] = published]
          /\ \/ /\ Return(r, IF published = {} THEN 500 ELSE 200)
                /\ IF published = Tiles(r) THEN UNCHANGED faults ELSE Fault
             \/ Return(r, 500) /\ Fault
    /\ Elsewhere
    /\ UNCHANGED <<stored, job>>

\* An exception in the handler: 500, and nothing is undone.
Exception(r) ==
    /\ rpc[r] \in {"admitted", "saved", "loaded", "removed", "created"}
    /\ rpc' = [rpc EXCEPT ![r] = "done"]
    /\ Return(r, 500)
    /\ Fault
    /\ Elsewhere
    /\ UNCHANGED <<stored, job, tasks>>

\* The process is replaced by one with another TILE_SIZE: the requests in
\* flight are gone, and so is all that the rate limiter kept.
Restart ==
    /\ Fault
    /\ TILE_SIZE' \in TileSizes \ {TILE_SIZE}
    /\ rpc' = [r \in Request |->
                  IF rpc[r] \in {"new", "done"} THEN rpc[r] ELSE "done"]
    /\ request_counts' = [c \in Client |-> {}]
    /\ calls' = 0
    /\ admitted' = {}
    /\ file' = [r \in Request |-> None]
    /\ UNCHANGED <<now, ip, stamp, admission, stored, job, tasks, answer>>

\* Mutant: the layout is computed with the tile size of the day.
LayoutNow(j) == tile_geometries(j.width, j.height, TILE_SIZE)

\* The layout the reaper computes from the job.
Layout(j) == tile_geometries(j.width, j.height, j.tile_size)

Passing ==
    Tick /\ UNCHANGED <<TILE_SIZE, handlerVars, faults>>

Handle(r) ==
    \/ Limit(r) \/ Reject(r) \/ Save(r) \/ RejectProbed(r) \/ Load(r)
    \/ RejectLoaded(r) \/ Split(r) \/ CreateJob(r) \/ Publish(r)

Next ==
    \/ \E r \in Request : Handle(r) \/ Exception(r)
    \/ Restart
    \/ Passing

Spec == Init /\ [][Next]_vars

----------------------------------------------------------------------------
(* Properties.                                                             *)

\* A client is refused only if RATE_LIMIT of its requests were let in within
\* the window: refused requests do not count, and a sweep or a thread with an
\* older stamp takes nobody's turn (master/rate_limit.py:76-88).
RefusedForAReason ==
    [][\A r \in Request :
          answer[r] = 0 /\ answer'[r] = 429 =>
              Cardinality({q \in admitted :
                              /\ ip[q] = ip[r]
                              /\ admission[q] + RATE_WINDOW > stamp[r]})
                  >= RATE_LIMIT]_vars

\* A request that is turned down leaves nothing behind, whichever check turns
\* it down, and no request that was answered without an exception leaves its
\* file on disk (master/app.py:119-206, master/ml_routes.py:82-162).
NothingLeftBehind ==
    \A r \in Request :
        /\ answer[r] \in {400, 429, 503} => r \notin stored /\ r \notin DOMAIN job
        /\ answer[r] = 200 => r \notin stored /\ r \in DOMAIN job

\* No file is decoded whose header says that it is too large, wherever the
\* segments before the frame header of a JPEG put it, unless the frame header
\* ends beyond the bytes that are read or a fill byte comes before a marker on
\* the way to it (app/imaging.py:25-71, master/app.py:129-145).
NeverDecodesOversized ==
    \A r \in Request : rpc[r] = "loaded" =>
        LET f == file[r] IN
        TooLarge(<<f.width, f.height>>) =>
            \/ f.format \notin {"png", "jpeg", "bmp"}
            \/ f.format = "jpeg" /\ (f.sof_end > HEADER_BYTES \/ f.filled)

\* What the tests of the tiling say, for every job and the tiles the reaper may
\* dispatch again: they are disjoint, their ids are the ones the listener waits
\* for and no more than MAX_TILES, and a pixel without a tile is in a strip
\* narrower than MIN_TILE at the right or the bottom edge, unless TILE_SIZE itself
\* is smaller than that.  Each tile that was dispatched is one of them, the part of
\* the image it was at the upload, even if TILE_SIZE has changed in between; the
\* ones that could not be published are for the reaper
\* (app/imaging.py:74-137, tests/test_imaging.py:43-57, app/jobstore.py:154-161,
\* master/publisher.py:139-153, master/reaper.py:191-222).
LayoutCovers ==
    \A r \in DOMAIN job :
        LET j == job[r]
            tiles == Layout(j)
        IN /\ Cardinality(tiles) = j.expected_tiles
           /\ j.expected_tiles <= MAX_TILES
           /\ {t.tile_id : t \in tiles} = 0..j.expected_tiles - 1
           /\ tasks[r] \subseteq tiles
           /\ answer[r] = 200 => tasks[r] # {}
           /\ \A t, u \in tiles :
                 t # u => Pixels(t.at) \cap Pixels(u.at) = {}
           /\ \A p \in ((0..j.width - 1) \X (0..j.height - 1)) \ Painted(tiles) :
                 \/ j.tile_size < MIN_TILE
                 \/ p[1] + MIN_TILE > j.width
                 \/ p[2] + MIN_TILE > j.height
=============================================================================
