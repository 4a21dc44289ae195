------------------------------ MODULE JobKeys ------------------------------
(***************************************************************************)
(* The keys of one job in Redis, command by command: every function of     *)
(* app/jobstore.py is a few commands, each of which can fail, time out or  *)
(* be executed twice (RedisClient.tla), and between which other threads    *)
(* run, the maintenance routes of master/admin_routes.py among them, or a  *)
(* TTL passes.                                                             *)
(***************************************************************************)
EXTENDS RedisClient, Sequences, FiniteSets

CONSTANTS
    Tile,
    MaxCalls,     \* bound on the functions called in all
    MaxBusy,      \* bound on the functions that run at a time
    None

\* Who calls the functions: the upload, the results listener, the reaper, the
\* handler of /reconstruct, and the one of the admin routes.
ASSUME JobKeysAssumption ==
    /\ Actor = {"upload", "listener", "reaper", "reconstruct", "admin"}
    /\ IsFiniteSet(Tile)
    /\ Tile \cap {"job", "tiles", "latencies", "abandoned", "leader", "stray"} = {}
    /\ MaxCalls \in Nat
    /\ MaxBusy \in Nat

\* job:{id}, its companions (a tile stands for its :attempts key), and two keys
\* of others: the leader's lock, and one that nobody knows.
JobScoped == {"job", "tiles", "latencies", "abandoned"} \cup Tile
Key == JobScoped \cup {"leader", "stray"}

VARIABLES
    job,         \* the hash job:{id}: see NoHash
    tiles,       \* the fields of job:{id}:tiles
    latencies,   \* the length of job:{id}:latencies
    abandoned,   \* the members of job:{id}:abandoned
    attempts,    \* attempts[t]: job:{id}:tile:{t}:attempts
    others,      \* which of the keys of others exist
    ttl,         \* the keys of the job that have a TTL
    call,        \* call[a]: the function a is in, or None
    step,        \* step[a]: the command it is at
    got,         \* got[a]: what it has read, see Nothing
    calls,       \* how many functions have been called
    created,     \* create_job() has not begun, has begun, has returned (history)
    cut,         \* the keys somebody wrote and did not EXPIRE (history)
    disturbed,   \* what happened to the job's keys: "expired", "deleted" (history)
    asked,       \* asked[t]: the calls of incr_tile_attempts() (history)
    returned     \* returned[t]: those that returned (history)

redisVars == <<job, tiles, latencies, abandoned, attempts, others, ttl>>
callVars == <<call, step, got, calls>>
historyVars == <<created, cut, disturbed, asked, returned>>
vars == <<clientVars, redisVars, callVars, historyVars>>

\* A hash: has it the fields of create_job(), its results_count, and is its
\* status "processing"?  It exists if it has any field.
NoHash == [exists |-> FALSE, complete |-> FALSE, open |-> FALSE, count |-> 0]
NewHash == [exists |-> TRUE, complete |-> TRUE, open |-> TRUE, count |-> 0]

\* What a function has read: keys (SCAN), the hash (HGETALL), whether the field
\* was new (HSET), the length (HLEN).
Nothing == [keys |-> {}, hash |-> NoHash, new |-> FALSE, length |-> 0]

Kind == {"create", "failed", "record", "attempt", "abandon", "status",
         "delete", "clear", "cleanup", "nuclear"}
Call == [kind : Kind, tile : Tile]
Hash == [exists : BOOLEAN, complete : BOOLEAN, open : BOOLEAN, count : Nat]

Live(k) ==
    CASE k = "job" -> job.exists
      [] k = "tiles" -> tiles # {}
      [] k = "latencies" -> latencies > 0
      [] k = "abandoned" -> abandoned # {}
      [] k \in Tile -> attempts[k] > 0
      [] OTHER -> k \in others

LiveKeys == {k \in Key : Live(k)}

TypeOK ==
    /\ ClientTypeOK
    /\ job \in Hash
    /\ ~job.exists => job = NoHash
    /\ tiles \in SUBSET Tile
    /\ latencies \in Nat
    /\ abandoned \in SUBSET Tile
    /\ attempts \in [Tile -> Nat]
    /\ others \in SUBSET {"leader", "stray"}
    /\ ttl \subseteq LiveKeys
    /\ call \in [Actor -> Call \cup {None}]
    /\ step \in [Actor -> 1..9]
    /\ \A a \in Actor : got[a].keys \subseteq Key /\ got[a].hash \in Hash
    /\ calls \in 0..MaxCalls
    /\ created \in {"no", "begun", "yes"}
    /\ cut \in SUBSET JobScoped
    /\ disturbed \in SUBSET {"expired", "deleted"}
    /\ asked \in [Tile -> Nat]
    /\ returned \in [Tile -> Nat]

Init ==
    /\ ClientInit
    /\ job = NoHash
    /\ tiles = {}
    /\ latencies = 0
    /\ abandoned = {}
    /\ attempts = [t \in Tile |-> 0]
    /\ others = {"leader", "stray"}
    /\ ttl = {}
    /\ call = [a \in Actor |-> None]
    /\ step = [a \in Actor |-> 1]
    /\ got = [a \in Actor |-> Nothing]
    /\ calls = 0
    /\ created = "no"
    /\ cut = {}
    /\ disturbed = {}
    /\ asked = [t \in Tile |-> 0]
    /\ returned = [t \in Tile |-> 0]

----------------------------------------------------------------------------
(* The functions, as the commands they send.                               *)

Cmd(name, key) == [name |-> name, key |-> key]

\* Mutant: no EXPIRE after the write.
WriteBare(name, key) == <<Cmd(name, key)>>

\* A write is followed by the EXPIRE of its key.
Write(name, key) == <<Cmd(name, key), Cmd("EXPIRE", key)>>

\* Mutant: the flush comes before the backup.
NuclearFlushFirst ==
    <<Cmd("SCAN", "job"), Cmd("FLUSHDB", "job"), Cmd("HGETALL", "job")>>
        \o Write("HSET", "job")

\* nuclear_cleanup(): backup, flush, restore.
Nuclear ==
    <<Cmd("SCAN", "job"), Cmd("HGETALL", "job"), Cmd("FLUSHDB", "job")>>
        \o Write("HSET", "job")

\* The listener's record_tile_result(), get_job() and HSET of the status.
Record ==
    Write("HSET", "tiles") \o Write("RPUSH", "latencies") \o Write("HINCRBY", "job")
        \o <<Cmd("HLEN", "tiles"), Cmd("HGETALL", "job"), Cmd("HSET", "job")>>

\* mark_job_completed(), set_job_status() and set_last_reap_time().
SetFields == Write("HSET", "job")

CreateJob == Write("HSET", "job")

\* failed_tasks of the publishers, the one counter without an EXPIRE.
RecordPublishFailure == <<Cmd("HINCRBY", "job")>>

IncrTileAttempts(t) == Write("INCR", t)

AddAbandonedTile == Write("SADD", "abandoned")

DeleteJobTileState == <<Cmd("DEL", "tiles"), Cmd("SCAN", "job"), Cmd("DEL", "job")>>

ClearOldJobs == <<Cmd("SCAN", "job"), Cmd("HGETALL", "job"), Cmd("DEL", "job")>>

CleanupOrphanedKeys == <<Cmd("SCAN", "stray"), Cmd("DEL", "stray")>>

Program(c) ==
    CASE c.kind = "create" -> CreateJob
      [] c.kind = "status" -> SetFields
      [] c.kind = "failed" -> RecordPublishFailure
      [] c.kind = "record" -> Record
      [] c.kind = "attempt" -> IncrTileAttempts(c.tile)
      [] c.kind = "abandon" -> AddAbandonedTile
      [] c.kind = "delete" -> DeleteJobTileState
      [] c.kind = "clear" -> ClearOldJobs
      [] c.kind = "cleanup" -> CleanupOrphanedKeys
      [] c.kind = "nuclear" -> Nuclear

Current(a) == Program(call[a])[step[a]]

\* The EXPIREs an actor is about to send, for a write it has or may have done.
Owed(a) ==
    IF call[a] = None THEN {}
    ELSE LET p == Program(call[a])
             next == {p[i] : i \in {step[a], step[a] + 1} \cap DOMAIN p}
         IN {cmd.key : cmd \in {c \in next : c.name = "EXPIRE"}}

\* _scan_and_classify_keys(): what is no job's, no system's and no counter's, by
\* its name.
Orphaned(keys) == keys \ (JobScoped \cup {"leader"})

\* What the DEL at this point deletes.
Targets(a) ==
    LET kind == call[a].kind
    IN CASE kind = "delete" ->
                IF step[a] = 1 THEN {"tiles", "latencies", "abandoned"}
                ELSE got[a].keys \cap Tile
         [] kind = "clear" -> {"job", "tiles", "latencies"}
         [] kind = "cleanup" -> Orphaned(got[a].keys)
         [] kind = "nuclear" -> Key

----------------------------------------------------------------------------
(* What Redis does.                                                        *)

Remove(keys, how) ==
    /\ job' = IF "job" \in keys THEN NoHash ELSE job
    /\ tiles' = IF "tiles" \in keys THEN {} ELSE tiles
    /\ latencies' = IF "latencies" \in keys THEN 0 ELSE latencies
    /\ abandoned' = IF "abandoned" \in keys THEN {} ELSE abandoned
    /\ attempts' = [t \in Tile |-> IF t \in keys THEN 0 ELSE attempts[t]]
    /\ others' = others \ keys
    /\ ttl' = ttl \ keys
    /\ disturbed' = IF keys \cap JobScoped \cap LiveKeys = {} THEN disturbed
                    ELSE disturbed \cup {how}

\* The hash after an HSET; that of nuclear_cleanup() merges the backup into what
\* others have written since.
Hashed(a) ==
    CASE call[a].kind = "create" -> {NewHash}
      [] call[a].kind = "record" -> {[job EXCEPT !.exists = TRUE, !.open = FALSE]}
      [] call[a].kind = "status" ->
            {[job EXCEPT !.exists = TRUE, !.open = open] : open \in {job.open, FALSE}}
      [] call[a].kind = "nuclear" ->
            {[got[a].hash EXCEPT !.complete = @ \/ job.complete]}

HSet(a) ==
    /\ Current(a).name = "HSET"
    /\ IF Current(a).key = "tiles"
       THEN tiles' = tiles \cup {call[a].tile} /\ UNCHANGED job
       ELSE job' \in Hashed(a) /\ UNCHANGED tiles
    /\ UNCHANGED <<latencies, abandoned, attempts, others, ttl, disturbed>>

\* INCR, HINCRBY, RPUSH and SADD.
Add(a) ==
    /\ Counting(Current(a).name)
    /\ LET key == Current(a).key
           t == call[a].tile IN
       /\ attempts' = IF key \in Tile THEN [attempts EXCEPT ![key] = @ + 1]
                      ELSE attempts
       /\ latencies' = IF key = "latencies" THEN latencies + 1 ELSE latencies
       /\ abandoned' = IF key = "abandoned" THEN abandoned \cup {t} ELSE abandoned
       /\ job' = IF key # "job" THEN job
                 ELSE IF call[a].kind = "failed" THEN [job EXCEPT !.exists = TRUE]
                 ELSE [job EXCEPT !.exists = TRUE, !.count = @ + 1]
    /\ UNCHANGED <<tiles, others, ttl, disturbed>>

Expire(a) ==
    /\ Current(a).name = "EXPIRE"
    /\ ttl' = ttl \cup ({Current(a).key} \cap LiveKeys)
    /\ UNCHANGED <<job, tiles, latencies, abandoned, attempts, others, disturbed>>

Delete(a) == Current(a).name \in {"DEL", "FLUSHDB"} /\ Remove(Targets(a), "deleted")

Read(a) ==
    /\ Current(a).name \in {"SCAN", "HGETALL", "HLEN"}
    /\ UNCHANGED <<redisVars, disturbed>>

\* The command is executed.  A write that nobody follows with an EXPIRE is
\* harmless unless it creates the key.
Execute(a) ==
    /\ HSet(a) \/ Add(a) \/ Expire(a) \/ Delete(a) \/ Read(a)
    /\ cut' = IF /\ ~job.exists
                 /\ job'.exists
                 /\ Owed(a) = {}
              THEN cut \cup {"job"} ELSE cut

\* The answer.
Reply(a) ==
    CASE Current(a).name = "SCAN" -> [got[a] EXCEPT !.keys = LiveKeys]
      [] Current(a).name = "HGETALL" -> [got[a] EXCEPT !.hash = job]
      [] Current(a).name = "HLEN" -> [got[a] EXCEPT !.length = Cardinality(tiles)]
      [] Current(a) = Cmd("HSET", "tiles") ->
            [got[a] EXCEPT !.new = call[a].tile \notin tiles]
      [] OTHER -> got[a]

----------------------------------------------------------------------------
(* What an actor does.                                                     *)

\* A function is called: by the upload once and for every tile that could not be
\* dispatched; by the listener for every result; by the reaper for a job it
\* found processing; by /reconstruct for one that is complete; by the admin.
May(a, c) ==
    \/ a = "upload" /\ c.kind = "create" /\ created = "no"
    \/ a = "upload" /\ c.kind = "failed" /\ created = "yes"
    \/ a = "listener" /\ c.kind = "record" /\ created = "yes"
    \/ a = "reaper" /\ c.kind \in {"attempt", "abandon", "status"} /\ job.open
    \/ /\ a = "reconstruct"
       /\ c.kind \in {"status", "delete"}
       /\ job.complete
       /\ ~job.open
    \/ a = "admin" /\ c.kind \in {"clear", "cleanup", "nuclear"}

Start(a) ==
    /\ call[a] = None
    /\ calls < MaxCalls
    /\ Cardinality({b \in Actor : call[b] # None}) < MaxBusy
    /\ \E c \in Call :
          /\ May(a, c)
          /\ call' = [call EXCEPT ![a] = c]
          /\ created' = IF c.kind = "create" THEN "begun" ELSE created
          /\ asked' = IF c.kind = "attempt"
                      THEN [asked EXCEPT ![c.tile] = @ + 1] ELSE asked
    /\ calls' = calls + 1
    /\ UNCHANGED <<clientVars, redisVars, step, got, cut, disturbed, returned>>

\* The function has returned, or an exception has ended it.
Leave(a) ==
    /\ call' = [call EXCEPT ![a] = None]
    /\ step' = [step EXCEPT ![a] = 1]
    /\ got' = [got EXCEPT ![a] = Nothing]

\* The early returns, after this answer.
Ends(a, answer) ==
    LET kind == call[a].kind
        i == step[a]
    IN \/ i = Len(Program(call[a]))
       \/ kind = "record" /\ i = 8
          /\ ~(answer.hash.open /\ answer.length >= Cardinality(Tile))
       \/ kind = "delete" /\ i = 2 /\ answer.keys \cap Tile = {}
       \/ kind = "clear" /\ i = 1 /\ "job" \notin answer.keys
       \/ kind = "clear" /\ i = 2 /\ ~answer.hash.exists
       \/ kind = "cleanup" /\ i = 1 /\ Orphaned(answer.keys) = {}
       \/ kind = "nuclear" /\ i = 3 /\ ~answer.hash.exists

\* Mutant: every message is counted, not every tile.
FollowingAll(a, answer) == step[a] + 1

\* A duplicate is not counted; without a job there is nothing to back up.
Following(a, answer) ==
    CASE call[a].kind = "record" /\ step[a] = 2 /\ ~answer.new -> 7
      [] call[a].kind = "nuclear" /\ step[a] = 1 /\ "job" \notin answer.keys -> 3
      [] OTHER -> step[a] + 1

Advance(a, answer) ==
    IF Ends(a, answer) THEN Leave(a)
    ELSE /\ step' = [step EXCEPT ![a] = Following(a, answer)]
         /\ got' = [got EXCEPT ![a] = answer]
         /\ UNCHANGED call

Answer(a) ==
    /\ call[a] # None
    /\ Execute(a)
    /\ Answered(a)
    /\ Advance(a, Reply(a))
    /\ returned' = IF Current(a).name = "INCR"
                   THEN [returned EXCEPT ![call[a].tile] = @ + 1] ELSE returned
    /\ created' = IF call[a].kind = "create" /\ step[a] = 2 THEN "yes" ELSE created
    /\ UNCHANGED <<calls, asked>>

Executed(a) == Execute(a) \/ UNCHANGED <<redisVars, disturbed, cut>>

\* The answer does not come; the command may have been executed.
NoAnswer(a) ==
    /\ call[a] # None
    /\ Executed(a)
    /\ Retried(a, Current(a).name)
    /\ UNCHANGED <<callVars, created, asked, returned>>

\* Mutant: the exception is swallowed, and the function goes on.
Swallow(a) ==
    /\ Advance(a, got[a])
    /\ returned' = IF Current(a).name = "INCR"
                   THEN [returned EXCEPT ![call[a].tile] = @ + 1] ELSE returned

\* The exception reaches the caller.
Raise(a) == Leave(a) /\ UNCHANGED returned

GivesUp(a) ==
    /\ call[a] # None
    /\ Raised(a, Current(a).name)
    /\ Raise(a)
    /\ \/ UNCHANGED <<redisVars, disturbed>>
       \/ HSet(a) \/ Add(a) \/ Expire(a) \/ Delete(a) \/ Read(a)
    /\ cut' = cut \cup Owed(a) \cup (IF job'.exists /\ ~job.exists THEN {"job"} ELSE {})
    /\ UNCHANGED <<calls, created, asked>>

\* The process dies in the middle of the function.
Crash(a) ==
    /\ call[a] # None
    /\ Fault
    /\ Leave(a)
    /\ cut' = cut \cup Owed(a)
    /\ attempt' = [attempt EXCEPT ![a] = 0]
    /\ again' = [again EXCEPT ![a] = FALSE]
    /\ UNCHANGED <<redisVars, calls, created, disturbed, asked, returned>>

----------------------------------------------------------------------------
\* A TTL passes: the job is a day old.
KeyExpires(k) ==
    /\ k \in ttl
    /\ Fault
    /\ Remove({k}, "expired")
    /\ UNCHANGED <<attempt, again, callVars, created, cut, asked, returned>>

\* The leader renews its lock, which a flush has deleted.
LeaderRenews ==
    /\ "leader" \notin others
    /\ others' = others \cup {"leader"}
    /\ UNCHANGED <<clientVars, job, tiles, latencies, abandoned, attempts, ttl,
                   callVars, historyVars>>

Next ==
    \/ \E a \in Actor :
          Start(a) \/ Answer(a) \/ NoAnswer(a) \/ GivesUp(a) \/ Crash(a)
    \/ \E k \in JobScoped : KeyExpires(k)
    \/ LeaderRenews

Spec == Init /\ [][Next]_vars

----------------------------------------------------------------------------
(* Properties.                                                             *)

\* No key of a job outlives it for ever: one without a TTL is about to be given
\* it, whatever other threads delete, restore or recreate in between; unless an
\* exception or a crash came between the write and the EXPIRE, or one of the two
\* writes that have no EXPIRE, the listeners' HSET of the status and the
\* publishers' HINCRBY, created it (app/jobstore.py:216-222).
EveryKeyExpires ==
    \A k \in JobScoped \cap LiveKeys :
        k \in ttl \cup cut \cup UNION {Owed(a) : a \in Actor}

\* As long as nothing is deleted, results_count differs from the number of
\* distinct tiles by the results that a failure cut short and the commands that
\* were executed twice, never by a duplicate (app/jobstore.py:229-263).
CountExplained ==
    disturbed = {} /\ (call["listener"] = None \/ step["listener"] = 1) =>
        /\ job.count <= Cardinality(tiles) + faults
        /\ Cardinality(tiles) <= job.count + faults

\* The reaper never believes it has used less of a tile's budget than it has:
\* every call that returned is counted, whatever failed in between
\* (app/jobstore.py:303-310).
NeverUndercounts ==
    disturbed = {} => \A t \in Tile : returned[t] <= attempts[t]

\* A job that was there when the nuclear clean-up looked is there when it is done,
\* and with all the fields it had when they were read, not only with the one that a
\* listener, the reaper or a publisher wrote into an empty hash in between; if none
\* of the commands has failed and the job has not expired
\* (master/admin_routes.py:257-278).
NuclearKeepsJobs ==
    [][/\ call["admin"] # None /\ call["admin"].kind = "nuclear"
       /\ step["admin"] >= 3 /\ call'["admin"] = None
       /\ "job" \in got["admin"].keys
       /\ faults = 0 /\ faults' = 0
       => /\ job'.exists
          /\ got["admin"].hash.complete => job'.complete]_vars

\* What the wrapper says of commands that are not idempotent: they "raise
\* immediately on TimeoutError", so that no call is counted twice
\* (app/jobstore.py:64-71).
NeverCountedTwice == \A t \in Tile : attempts[t] <= asked[t]
=============================================================================
