----------------------------- MODULE Heartbeats -----------------------------
(***************************************************************************)
(* The liveness of the OpenCV workers: each one sends a heartbeat every    *)
(* HEARTBEAT_INTERVAL (worker/main.py), every master replica consumes them *)
(* in a group of its own and SETs heartbeat:{worker} with a TTL            *)
(* (master/heartbeat.py), and /upload and /dashboard/data read the keys    *)
(* (master/app.py).  A replica acts on a beat some time after it was sent, *)
(* in several steps, and the replicas are not equally fast.                *)
(*                                                                         *)
(* Time is in ticks, SECOND of them to a second; all clocks agree.         *)
(***************************************************************************)
EXTENDS Naturals, Sequences, FiniteSets

CONSTANTS
    Worker,
    Replica,
    SECOND,
    HEARTBEAT_INTERVAL,
    HEARTBEAT_TIMEOUT,
    MaxLag,       \* bound on the time until a replica that has caught up
                  \* takes a beat from the topic
    MaxStall,     \* bound on the time between its reading the clock and the SET
    MaxTime,      \* bound on the clock
    MaxFaults,    \* bound on the faults
    None

ASSUME HeartbeatAssumption ==
    /\ SECOND \in Nat \ {0}
    /\ HEARTBEAT_INTERVAL \in Nat \ {0}
    /\ {HEARTBEAT_TIMEOUT, MaxLag, MaxStall, MaxTime, MaxFaults} \subseteq Nat
    /\ None \notin Nat \cup {"healthy", "unhealthy"}

VARIABLES
    now,
    due,       \* due[w]: when a worker sends its next beat, None once it is dead
    queue,     \* queue[m]: the beats after the position of m's group
    up,        \* up[m]: the replica's consumer is subscribed
    behind,    \* behind[m]: it works off what it missed while it was down
    setting,   \* setting[m]: the SET update() is about to send, or None
    key,       \* key[w]: heartbeat:{w}; it has expired at its "until"
    last_beat, \* last_beat[w]: when w last sent a beat, or None (history)
    heard,     \* heard[m][w]: since when m, up and not behind, is sent the
               \* beats of w, or None (history)
    late,      \* the workers whose key was last written by a replica that was
               \* behind (history)
    reader,    \* where the handler of GET /dashboard/data is
    active,    \* active_workers: the keys of its first SCAN
    found,     \* the keys of its second SCAN
    report,    \* report[w]: "healthy", "unhealthy" or None
    faults

workerVars == <<due, last_beat>>
replicaVars == <<queue, up, behind, setting, heard>>
keyVars == <<key, late>>
readerVars == <<reader, active, found, report>>
vars == <<now, workerVars, replicaVars, keyVars, readerVars, faults>>

Time == 0..MaxTime
Beat == [worker : Worker, stamp : Time, sent : Time]
Key == [until : Nat, last_seen : Time]
Setting == [worker : Worker, stamp : Time, px : 1..HEARTBEAT_TIMEOUT, read : Time]

\* A SET is never mistaken for none.
ASSUME SettingAssumption == None \notin Setting

TypeOK ==
    /\ now \in Time
    /\ due \in [Worker -> Nat \cup {None}]
    /\ queue \in [Replica -> Seq(Beat)]
    /\ up \in [Replica -> BOOLEAN]
    /\ behind \in [Replica -> BOOLEAN]
    /\ setting \in [Replica -> {None} \cup Setting]
    /\ key \in [Worker -> Key]
    /\ last_beat \in [Worker -> Time \cup {None}]
    /\ heard \in [Replica -> [Worker -> Time \cup {None}]]
    /\ late \in SUBSET Worker
    /\ reader \in {"new", "active", "all", "done"}
    /\ active \in SUBSET Worker
    /\ found \in SUBSET Worker
    /\ report \in [Worker -> {"healthy", "unhealthy", None}]
    /\ faults \in 0..MaxFaults

Init ==
    /\ now = 0
    /\ due \in [Worker -> 0..SECOND - 1]
    /\ queue = [m \in Replica |-> <<>>]
    /\ up = [m \in Replica |-> TRUE]
    /\ behind = [m \in Replica |-> FALSE]
    /\ setting = [m \in Replica |-> None]
    /\ key = [w \in Worker |-> [until |-> 0, last_seen |-> 0]]
    /\ last_beat = [w \in Worker |-> None]
    /\ heard = [m \in Replica |-> [w \in Worker |-> None]]
    /\ late = {}
    /\ reader = "new"
    /\ active = {}
    /\ found = {}
    /\ report = [w \in Worker |-> None]
    /\ faults = 0

Live(w) == now < key[w].until

Fault == faults < MaxFaults /\ faults' = faults + 1

----------------------------------------------------------------------------
(* The worker: HeartbeatSender.run().                                      *)

Truncated(t) == SECOND * (t \div SECOND)

\* A beat, which the broker keeps for every group, and the wait.
SendHeartbeat(w) ==
    /\ due[w] = now
    /\ due' = [due EXCEPT ![w] = now + HEARTBEAT_INTERVAL]
    /\ last_beat' = [last_beat EXCEPT ![w] = now]
    /\ queue' = [m \in Replica |->
                    Append(queue[m], [worker |-> w, sent |-> now,
                                      stamp |-> Truncated(now)])]
    /\ heard' = [m \in Replica |->
                    IF up[m] /\ ~behind[m] /\ heard[m][w] = None
                    THEN [heard[m] EXCEPT ![w] = now] ELSE heard[m]]
    /\ UNCHANGED <<now, up, behind, setting, keyVars, readerVars, faults>>

\* send_heartbeat() fails, or the delivery does: this beat is lost.
LoseHeartbeat(w) ==
    /\ due[w] = now
    /\ due' = [due EXCEPT ![w] = now + HEARTBEAT_INTERVAL]
    /\ Fault
    /\ UNCHANGED <<now, last_beat, replicaVars, keyVars, readerVars>>

StopWorker(w) ==
    /\ due[w] # None
    /\ due' = [due EXCEPT ![w] = None]
    /\ heard' = [m \in Replica |-> [heard[m] EXCEPT ![w] = None]]
    /\ UNCHANGED <<now, last_beat, queue, up, behind, setting, keyVars,
                   readerVars, faults>>

----------------------------------------------------------------------------
(* A replica: monitor_heartbeats() and WorkerHeartbeatTracker.update().    *)

\* Mutants: a TTL of the full timeout, as it once was; a beat that is too old is
\* not dropped; and a TTL in whole seconds.
RemainingFull(stamp) == HEARTBEAT_TIMEOUT
RemainingOverdue(stamp) == stamp + HEARTBEAT_TIMEOUT - now
RemainingSeconds(stamp) ==
    IF now >= stamp + HEARTBEAT_TIMEOUT THEN 0
    ELSE Truncated(stamp + HEARTBEAT_TIMEOUT - now)

\* remaining_s, 0 for a beat that is too old.
Remaining(stamp) ==
    IF now >= stamp + HEARTBEAT_TIMEOUT THEN 0
    ELSE stamp + HEARTBEAT_TIMEOUT - now

\* poll(), and update() up to the SET.
TakeBeat(m) ==
    /\ up[m]
    /\ setting[m] = None
    /\ queue[m] # <<>>
    /\ LET beat == Head(queue[m])
           px == Remaining(beat.stamp)
       IN setting' = [setting EXCEPT ![m] =
              IF px = 0 THEN None
              ELSE [worker |-> beat.worker, stamp |-> beat.stamp,
                    px |-> px, read |-> now]]
    /\ queue' = [queue EXCEPT ![m] = Tail(@)]
    /\ behind' = [behind EXCEPT ![m] = @ /\ Len(queue[m]) > 1]
    /\ UNCHANGED <<now, workerVars, up, heard, keyVars, readerVars, faults>>

\* SET with px: the life of the key begins when Redis executes it.
Write(m) ==
    /\ setting[m] # None
    /\ LET s == setting[m] IN
       /\ key' = [key EXCEPT ![s.worker] =
                     [until |-> now + s.px, last_seen |-> s.stamp]]
       /\ late' = IF s.stamp + SECOND + MaxLag <= s.read
                  THEN late \cup {s.worker} ELSE late \ {s.worker}

SetKey(m) ==
    /\ Write(m)
    /\ setting' = [setting EXCEPT ![m] = None]
    /\ UNCHANGED <<now, workerVars, queue, up, behind, heard, readerVars, faults>>

\* The answer to the SET is lost: redis-py sends it again.
SetKeyTwice(m) ==
    /\ Write(m)
    /\ Fault
    /\ UNCHANGED <<now, workerVars, replicaVars, readerVars>>

\* The SET fails: the exception is logged, and the beat is gone.
SetKeyFails(m) ==
    /\ setting[m] # None
    /\ setting' = [setting EXCEPT ![m] = None]
    /\ Fault
    /\ UNCHANGED <<now, workerVars, queue, up, behind, heard, keyVars, readerVars>>

StopReplica(m) ==
    /\ up[m]
    /\ up' = [up EXCEPT ![m] = FALSE]
    /\ setting' = [setting EXCEPT ![m] = None]
    /\ heard' = [heard EXCEPT ![m] = [w \in Worker |-> None]]
    /\ UNCHANGED <<now, workerVars, queue, behind, keyVars, readerVars, faults>>

\* A new container has a new INSTANCE_ID, hence a new group at the end of the
\* topic; a restarted one goes on where its group has committed.
StartReplica(m) ==
    /\ ~up[m]
    /\ up' = [up EXCEPT ![m] = TRUE]
    /\ queue' \in {[queue EXCEPT ![m] = <<>>], queue}
    /\ behind' = [behind EXCEPT ![m] = queue'[m] # <<>>]
    /\ UNCHANGED <<now, workerVars, setting, heard, keyVars, readerVars, faults>>

----------------------------------------------------------------------------
(* The reader: dashboard_data(); /upload does its first half.              *)

\* get_active_workers(): the keys that SCAN returns, each one not expired.
ScanActive ==
    /\ reader = "new"
    /\ reader' = "active"
    /\ active' = {w \in Worker : Live(w)}
    /\ UNCHANGED <<now, workerVars, replicaVars, keyVars, found, report, faults>>

\* get_all_heartbeats(), up to the MGET.
ScanAll ==
    /\ reader = "active"
    /\ reader' = "all"
    /\ found' = {w \in Worker : Live(w)}
    /\ UNCHANGED <<now, workerVars, replicaVars, keyVars, active, report, faults>>

\* Mutant: what the beat says, in place of how old it is.
SaysHealthy(w) == w \in found /\ Live(w)

\* is_healthy, of the value MGET returned for a key that was found.
Healthy(w) ==
    /\ w \in found
    /\ Live(w)
    /\ now < key[w].last_seen + HEARTBEAT_TIMEOUT

\* MGET, and the report.
Report ==
    /\ reader = "all"
    /\ report' = [w \in Worker |->
                     IF w \notin active THEN None
                     ELSE IF Healthy(w) THEN "healthy" ELSE "unhealthy"]
    /\ reader' = "done"
    /\ UNCHANGED <<now, workerVars, replicaVars, keyVars, found, active, faults>>

----------------------------------------------------------------------------
\* Time passes: no worker is late with its beat, no replica that has caught up
\* leaves a beat for longer than MaxLag, none holds a SET back for longer than
\* MaxStall.
Tick ==
    /\ now < MaxTime
    /\ \A w \in Worker : due[w] # now
    /\ \A m \in Replica :
          /\ up[m] /\ ~behind[m] /\ queue[m] # <<>> =>
                now < Head(queue[m]).sent + MaxLag
          /\ setting[m] # None => now < setting[m].read + MaxStall
    /\ now' = now + 1
    /\ UNCHANGED <<workerVars, replicaVars, keyVars, readerVars, faults>>

Next ==
    \/ \E w \in Worker :
          SendHeartbeat(w) \/ LoseHeartbeat(w) \/ StopWorker(w)
    \/ \E m \in Replica :
          \/ TakeBeat(m) \/ SetKey(m) \/ SetKeyTwice(m) \/ SetKeyFails(m)
          \/ StopReplica(m) \/ StartReplica(m)
    \/ ScanActive \/ ScanAll \/ Report
    \/ Tick

Spec == Init /\ [][Next]_vars

----------------------------------------------------------------------------
(* Properties.                                                             *)

\* A worker is gone HEARTBEAT_TIMEOUT after its last beat, give or take the time
\* of one SET, however late and in whatever order the replicas handle its beats:
\* no old one brings it back (master/heartbeat.py:46-62).
NoResurrection ==
    \A w \in Worker : Live(w) =>
        now < last_beat[w] + HEARTBEAT_TIMEOUT + MaxStall

\* A running worker is listed from its first beat on, as long as one replica has
\* heard it and is not behind, through a lost beat, a failed SET or a replica
\* that stops; unless a replica that was behind has overwritten its key with an
\* older beat (master/heartbeat.py:13-19).
SteadyIsListed ==
    \A w \in Worker, m \in Replica :
        /\ heard[m][w] # None
        /\ heard[m][w] + MaxLag + MaxStall + faults * HEARTBEAT_INTERVAL < now
        /\ w \notin late
        => Live(w)

\* The dashboard calls a worker healthy only if it has sent a beat within the
\* timeout, although its two SCANs and the MGET are reads of different times,
\* between which keys expire and are written (master/app.py:328-347).
HealthyIsAlive ==
    [][\A w \in Worker : report'[w] = "healthy" /\ report[w] = None =>
          now < last_beat[w] + HEARTBEAT_TIMEOUT]_vars

\* What the module says of the writes of several replicas: they "are naturally
\* idempotent", so one more of them takes nothing back
\* (master/heartbeat.py:16-19).
RedundantWritesCostNothing ==
    [][\A w \in Worker : key'[w].last_seen >= key[w].last_seen]_vars
=============================================================================
