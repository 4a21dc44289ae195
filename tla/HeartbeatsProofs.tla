-------------------------- MODULE HeartbeatsProofs --------------------------
(***************************************************************************)
(* Proofs about Heartbeats, for every number of workers and replicas, every *)
(* interval and timeout, and every bound on lag, stall, time and faults.   *)
(***************************************************************************)
EXTENDS Heartbeats, FiniteSetTheorems, WellFoundedInduction, TLAPS

\* No beat is later than the clock.
ClockInv == \A w \in Worker : last_beat[w] # None => last_beat[w] <= now

\* w has sent a beat, at the time stamp or later.
Told(w, stamp) == last_beat[w] # None /\ stamp <= last_beat[w]

BeatInv ==
    \A m \in Replica : \A i \in 1..Len(queue[m]) :
        Told(queue[m][i].worker, queue[m][i].stamp)

\* A SET on its way counts what is left of the timeout from the time it was
\* computed, which is at most MaxStall ago.
SetInv ==
    \A m \in Replica : setting[m] # None =>
        /\ Told(setting[m].worker, setting[m].stamp)
        /\ setting[m].px + setting[m].read = setting[m].stamp + HEARTBEAT_TIMEOUT
        /\ setting[m].read <= now
        /\ now <= setting[m].read + MaxStall

KeyInv ==
    \A w \in Worker : key[w].until # 0 =>
        /\ Told(w, key[w].last_seen)
        /\ key[w].until <= last_beat[w] + HEARTBEAT_TIMEOUT + MaxStall

IInv == TypeOK /\ ClockInv /\ BeatInv /\ SetInv /\ KeyInv

----------------------------------------------------------------------------
(* Types.                                                                  *)

\* A timestamp in whole seconds is a time no later than the one it is made of.
LEMMA TruncatedLeq ==
    ASSUME NEW t \in Nat
    PROVE  Truncated(t) \in Nat /\ Truncated(t) <= t
  BY HeartbeatAssumption DEF Truncated

\* What is left of a beat's timeout is between nothing and all of it.
LEMMA RemainingType ==
    ASSUME NEW stamp \in Nat, now \in Nat, stamp <= now
    PROVE  Remaining(stamp) \in 0..HEARTBEAT_TIMEOUT
  BY HeartbeatAssumption DEF Remaining

\* The initial state is well typed.
LEMMA InitType == Init => TypeOK
<1> SUFFICES ASSUME Init PROVE TypeOK
  OBVIOUS
<1>1. due \in [Worker -> Nat \cup {None}]
  BY HeartbeatAssumption DEF Init
<1>2. queue \in [Replica -> Seq(Beat)]
  BY DEF Init
<1>3. key \in [Worker -> Key]
  BY HeartbeatAssumption DEF Init, Key, Time
<1> QED
  BY <1>1, <1>2, <1>3, HeartbeatAssumption DEF Init, TypeOK, Time

\* A worker's beat, which enters every queue.
LEMMA SendType ==
    ASSUME TypeOK, NEW w \in Worker, SendHeartbeat(w)
    PROVE  TypeOK'
<1>1. now \in Time /\ now \in Nat /\ Truncated(now) \in Time
  BY TruncatedLeq, HeartbeatAssumption DEF TypeOK, Time
<1>2. due' \in [Worker -> Nat \cup {None}]
  BY <1>1, HeartbeatAssumption DEF TypeOK, SendHeartbeat
<1>3. queue' \in [Replica -> Seq(Beat)]
  <2>1. [worker |-> w, sent |-> now, stamp |-> Truncated(now)] \in Beat
    BY <1>1 DEF Beat
  <2> QED
    BY <2>1 DEF TypeOK, SendHeartbeat
<1>4. heard' \in [Replica -> [Worker -> Time \cup {None}]]
  BY <1>1 DEF TypeOK, SendHeartbeat
<1>5. last_beat' \in [Worker -> Time \cup {None}]
  BY <1>1 DEF TypeOK, SendHeartbeat
<1> QED
  BY <1>2, <1>3, <1>4, <1>5 DEF TypeOK, SendHeartbeat, keyVars, readerVars

\* The other steps of a worker.
LEMMA WorkerType ==
    ASSUME TypeOK, NEW w \in Worker, LoseHeartbeat(w) \/ StopWorker(w)
    PROVE  TypeOK'
<1>1. CASE LoseHeartbeat(w)
  <2>1. now + HEARTBEAT_INTERVAL \in Nat
    BY HeartbeatAssumption DEF TypeOK, Time
  <2>2. faults' \in 0..MaxFaults
    BY <1>1, HeartbeatAssumption DEF TypeOK, LoseHeartbeat, Fault
  <2> QED
    BY <1>1, <2>1, <2>2
       DEF TypeOK, LoseHeartbeat, replicaVars, keyVars, readerVars
<1>2. CASE StopWorker(w)
  <2>1. heard' \in [Replica -> [Worker -> Time \cup {None}]]
    BY <1>2 DEF TypeOK, StopWorker
  <2> QED
    BY <1>2, <2>1 DEF TypeOK, StopWorker, keyVars, readerVars
<1> QED
  BY <1>1, <1>2

\* The beat at the head of a queue is one that its worker has sent.
LEMMA HeadTold ==
    ASSUME TypeOK, ClockInv, BeatInv, NEW m \in Replica, queue[m] # <<>>
    PROVE  /\ Head(queue[m]) \in Beat
           /\ Tail(queue[m]) \in Seq(Beat)
           /\ Told(Head(queue[m]).worker, Head(queue[m]).stamp)
           /\ Head(queue[m]).stamp <= now
<1>1. queue[m] \in Seq(Beat) /\ Len(queue[m]) \in Nat \ {0}
  BY DEF TypeOK
<1>2. Head(queue[m]) = queue[m][1] /\ 1 \in 1..Len(queue[m])
  BY <1>1
<1>3. Head(queue[m]) \in Beat /\ Tail(queue[m]) \in Seq(Beat)
  BY <1>1
<1>4. Told(Head(queue[m]).worker, Head(queue[m]).stamp)
  BY <1>2 DEF BeatInv
<1>5. Head(queue[m]).stamp <= now
  BY <1>3, <1>4, HeartbeatAssumption DEF TypeOK, ClockInv, Told, Beat, Time
<1> QED
  BY <1>3, <1>4, <1>5

\* A SET with what remains of a beat's timeout, or none at all.
LEMMA TakeType ==
    ASSUME TypeOK, ClockInv, BeatInv, NEW m \in Replica, TakeBeat(m)
    PROVE  TypeOK'
<1> DEFINE beat == Head(queue[m])
           px == Remaining(beat.stamp)
           set == IF px = 0 THEN None
                  ELSE [worker |-> beat.worker, stamp |-> beat.stamp,
                        px |-> px, read |-> now]
<1>1. /\ beat \in Beat
      /\ Tail(queue[m]) \in Seq(Beat)
      /\ beat.stamp <= now
  BY HeadTold DEF TakeBeat
<1>2. set \in {None} \cup Setting
  <2>1. now \in Time /\ now \in Nat /\ beat.worker \in Worker /\ beat.stamp \in Time
        /\ beat.stamp \in Nat
    BY <1>1 DEF TypeOK, Beat, Time
  <2>2. px \in 0..HEARTBEAT_TIMEOUT
    BY <1>1, <2>1, RemainingType
  <2> HIDE DEF beat, px
  <2>3. px # 0 => px \in 1..HEARTBEAT_TIMEOUT
    BY <2>2, HeartbeatAssumption
  <2> QED
    BY <2>1, <2>3 DEF Setting
<1>3. setting' = [setting EXCEPT ![m] = set]
  BY DEF TakeBeat
<1> HIDE DEF beat, px, set
<1>4. setting' \in [Replica -> {None} \cup Setting]
  BY <1>2, <1>3 DEF TypeOK
<1>5. queue' \in [Replica -> Seq(Beat)]
  BY <1>1 DEF TypeOK, TakeBeat
<1>6. behind' \in [Replica -> BOOLEAN]
  <2>1. (behind[m] /\ Len(queue[m]) > 1) \in BOOLEAN
    OBVIOUS
  <2> QED
    BY <2>1 DEF TypeOK, TakeBeat
<1> QED
  BY <1>4, <1>5, <1>6 DEF TypeOK, TakeBeat, workerVars, keyVars, readerVars

\* What a SET writes is well typed, and is one of the workers' keys.
LEMMA WriteType ==
    ASSUME TypeOK, NEW m \in Replica, Write(m)
    PROVE  /\ setting[m] \in Setting
           /\ key' \in [Worker -> Key]
           /\ late' \in SUBSET Worker
<1>1. setting[m] \in Setting
  BY DEF TypeOK, Write
<1>2. [until |-> now + setting[m].px, last_seen |-> setting[m].stamp] \in Key
  BY <1>1, HeartbeatAssumption DEF TypeOK, Setting, Key, Time
<1>3. key' \in [Worker -> Key]
  BY <1>1, <1>2 DEF TypeOK, Write
<1>4. late' \in SUBSET Worker
  BY <1>1 DEF TypeOK, Write, Setting
<1> QED
  BY <1>1, <1>3, <1>4

\* The other steps of a replica.
LEMMA ReplicaType ==
    ASSUME TypeOK, NEW m \in Replica,
           \/ SetKey(m) \/ SetKeyTwice(m) \/ SetKeyFails(m)
           \/ StopReplica(m) \/ StartReplica(m)
    PROVE  TypeOK'
<1>1. CASE SetKey(m)
  BY <1>1, WriteType DEF TypeOK, SetKey, workerVars, readerVars
<1>2. CASE SetKeyTwice(m)
  <2>1. faults' \in 0..MaxFaults
    BY <1>2, HeartbeatAssumption DEF TypeOK, SetKeyTwice, Fault
  <2>2. key' \in [Worker -> Key] /\ late' \in SUBSET Worker
    BY <1>2, WriteType DEF SetKeyTwice
  <2> QED
    BY <1>2, <2>1, <2>2
       DEF TypeOK, SetKeyTwice, workerVars, replicaVars, readerVars
<1>3. CASE SetKeyFails(m)
  <2>1. faults' \in 0..MaxFaults
    BY <1>3, HeartbeatAssumption DEF TypeOK, SetKeyFails, Fault
  <2> QED
    BY <1>3, <2>1 DEF TypeOK, SetKeyFails, workerVars, keyVars, readerVars
<1>4. CASE StopReplica(m)
  <2>1. heard' \in [Replica -> [Worker -> Time \cup {None}]]
    BY <1>4 DEF TypeOK, StopReplica
  <2>2. up' \in [Replica -> BOOLEAN] /\ setting' \in [Replica -> {None} \cup Setting]
    BY <1>4 DEF TypeOK, StopReplica
  <2> QED
    BY <1>4, <2>1, <2>2 DEF TypeOK, StopReplica, workerVars, keyVars, readerVars
<1>5. CASE StartReplica(m)
  <2>1. up' \in [Replica -> BOOLEAN]
    BY <1>5 DEF TypeOK, StartReplica
  <2>2. queue' \in [Replica -> Seq(Beat)]
    <3>1. <<>> \in Seq(Beat)
      OBVIOUS
    <3> QED
      BY <1>5, <3>1 DEF TypeOK, StartReplica
  <2>3. behind' \in [Replica -> BOOLEAN]
    <3>1. (queue'[m] # <<>>) \in BOOLEAN
      OBVIOUS
    <3> QED
      BY <1>5, <3>1 DEF TypeOK, StartReplica
  <2> QED
    BY <1>5, <2>1, <2>2, <2>3 DEF TypeOK, StartReplica, workerVars, keyVars, readerVars
<1> QED
  BY <1>1, <1>2, <1>3, <1>4, <1>5

\* The reader's steps and the clock's.
LEMMA ReaderType ==
    ASSUME TypeOK, ScanActive \/ ScanAll \/ Report \/ Tick
    PROVE  TypeOK'
<1>1. CASE ScanActive
  BY <1>1 DEF TypeOK, ScanActive, workerVars, replicaVars, keyVars
<1>2. CASE ScanAll
  BY <1>2 DEF TypeOK, ScanAll, workerVars, replicaVars, keyVars
<1>3. CASE Report
  <2>1. report' \in [Worker -> {"healthy", "unhealthy", None}]
    BY <1>3 DEF Report
  <2> QED
    BY <1>3, <2>1 DEF TypeOK, Report, workerVars, replicaVars, keyVars
<1>4. CASE Tick
  <2>1. now' \in Time
    BY <1>4, HeartbeatAssumption DEF TypeOK, Tick, Time
  <2> QED
    BY <1>4, <2>1 DEF TypeOK, Tick, workerVars, replicaVars, keyVars, readerVars
<1> QED
  BY <1>1, <1>2, <1>3, <1>4

----------------------------------------------------------------------------
(* The invariant.                                                          *)

\* The invariant holds at the start, when nothing has been sent.
LEMMA InitInv == Init => IInv
<1> SUFFICES ASSUME Init PROVE IInv
  OBVIOUS
<1>1. TypeOK
  BY InitType
<1>2. ClockInv /\ SetInv /\ KeyInv
  BY DEF Init, ClockInv, SetInv, KeyInv
<1>3. BeatInv
  BY DEF Init, BeatInv
<1> QED
  BY <1>1, <1>2, <1>3 DEF IInv

\* What a beat told stays true when its worker sends another.
LEMMA SendTold ==
    ASSUME TypeOK, ClockInv, NEW v \in Worker, SendHeartbeat(v),
           NEW w \in Worker, NEW stamp \in Nat, Told(w, stamp)
    PROVE  Told(w, stamp)' /\ last_beat[w] <= last_beat'[w]
<1>1. now \in Nat /\ last_beat[w] \in Nat /\ last_beat[w] <= now
  BY DEF TypeOK, ClockInv, Told, Time
<1>2. last_beat'[w] = IF w = v THEN now ELSE last_beat[w]
  BY DEF TypeOK, SendHeartbeat
<1>3. now # None
  BY <1>1, HeartbeatAssumption
<1> QED
  BY <1>1, <1>2, <1>3 DEF Told

\* A worker sends a beat: its stamp is what it is made from, or less.
LEMMA SendSafe ==
    ASSUME IInv, NEW v \in Worker, SendHeartbeat(v)
    PROVE  IInv'
<1> USE DEF IInv
<1>1. TypeOK' /\ TypeOK
  BY SendType
<1>2. now \in Nat /\ Truncated(now) \in Nat /\ Truncated(now) <= now /\ now # None
  <2>1. now \in Nat
    BY DEF TypeOK, Time
  <2> QED
    BY <2>1, TruncatedLeq, HeartbeatAssumption
<1>3. last_beat' = [last_beat EXCEPT ![v] = now] /\ now' = now
  BY DEF SendHeartbeat
<1>4. ClockInv'
  BY <1>2, <1>3 DEF TypeOK, ClockInv
<1>5. BeatInv'
  <2> SUFFICES ASSUME NEW m \in Replica, NEW i \in 1..Len(queue'[m])
               PROVE  /\ last_beat'[queue'[m][i].worker] # None
                      /\ queue'[m][i].stamp <= last_beat'[queue'[m][i].worker]
    BY DEF BeatInv, Told
  <2> DEFINE beat == [worker |-> v, sent |-> now, stamp |-> Truncated(now)]
  <2>1. queue'[m] = Append(queue[m], beat) /\ queue[m] \in Seq(Beat)
    BY DEF SendHeartbeat, TypeOK
  <2>2. CASE i \in 1..Len(queue[m])
    <3>1. queue'[m][i] = queue[m][i] /\ queue[m][i] \in Beat
      BY <2>1, <2>2
    <3>2. queue[m][i].worker \in Worker /\ queue[m][i].stamp \in Nat
      BY <3>1 DEF Beat, Time
    <3>3. Told(queue[m][i].worker, queue[m][i].stamp)
      BY <2>2 DEF BeatInv
    <3>4. ASSUME NEW w \in Worker, NEW stamp \in Nat, Told(w, stamp)
          PROVE  last_beat'[w] # None /\ stamp <= last_beat'[w]
      BY <3>4, SendTold DEF Told
    <3>5. /\ last_beat'[queue[m][i].worker] # None
          /\ queue[m][i].stamp <= last_beat'[queue[m][i].worker]
      BY <3>2, <3>3, <3>4
    <3> QED
      BY <3>1, <3>5
  <2>3. CASE i = Len(queue[m]) + 1
    <3>1. queue'[m][i] = beat
      BY <2>1, <2>3
    <3>2. last_beat'[v] = now
      BY <1>3 DEF TypeOK
    <3> QED
      BY <1>2, <3>1, <3>2
  <2> QED
    BY <2>1, <2>2, <2>3
<1>6. SetInv'
  <2> SUFFICES ASSUME NEW m \in Replica, setting[m] # None
               PROVE  Told(setting[m].worker, setting[m].stamp)'
    BY <1>3 DEF SetInv, SendHeartbeat
  <2>1. setting[m].worker \in Worker /\ setting[m].stamp \in Nat
    BY DEF TypeOK, Setting, Time
  <2>2. Told(setting[m].worker, setting[m].stamp)
    BY DEF SetInv
  <2>3. ASSUME NEW w \in Worker, NEW stamp \in Nat, Told(w, stamp)
        PROVE  last_beat'[w] # None /\ stamp <= last_beat'[w]
    BY <2>3, SendTold DEF Told
  <2> QED
    BY <2>1, <2>2, <2>3 DEF Told, SendHeartbeat
<1>7. KeyInv'
  <2> SUFFICES ASSUME NEW w \in Worker, key[w].until # 0
               PROVE  /\ Told(w, key[w].last_seen)'
                      /\ key[w].until <= last_beat'[w] + HEARTBEAT_TIMEOUT + MaxStall
    BY DEF KeyInv, SendHeartbeat, keyVars
  <2>1. key[w] \in Key /\ key' = key
    BY DEF TypeOK, SendHeartbeat, keyVars
  <2>2. key[w].last_seen \in Nat /\ key[w].until \in Nat
    BY <2>1 DEF Key, Time
  <2>3. /\ Told(w, key[w].last_seen)
        /\ key[w].until <= last_beat[w] + HEARTBEAT_TIMEOUT + MaxStall
    BY DEF KeyInv
  <2>4. ASSUME NEW stamp \in Nat, Told(w, stamp)
        PROVE  /\ last_beat'[w] # None /\ stamp <= last_beat'[w]
               /\ last_beat[w] <= last_beat'[w]
    BY <2>4, SendTold DEF Told
  <2>5. last_beat[w] \in Nat /\ last_beat'[w] \in Nat
    BY <1>1, <2>2, <2>3, <2>4 DEF TypeOK, Told, Time
  <2> QED
    BY <2>1, <2>2, <2>3, <2>4, <2>5, HeartbeatAssumption DEF Told
<1> QED
  BY <1>1, <1>4, <1>5, <1>6, <1>7

\* A replica takes a beat: what is left of the timeout is computed from now.
LEMMA TakeSafe ==
    ASSUME IInv, NEW m \in Replica, TakeBeat(m)
    PROVE  IInv'
<1> USE DEF IInv
<1>1. TypeOK'
  BY TakeType
<1>2. ClockInv'
  BY DEF ClockInv, TakeBeat, workerVars
<1>3. KeyInv'
  BY DEF KeyInv, Told, TakeBeat, workerVars, keyVars
<1>4. BeatInv'
  <2> SUFFICES ASSUME NEW r \in Replica, NEW i \in 1..Len(queue'[r])
               PROVE  Told(queue'[r][i].worker, queue'[r][i].stamp)
    BY DEF BeatInv, Told, TakeBeat, workerVars
  <2>1. \E j \in 1..Len(queue[r]) : queue'[r][i] = queue[r][j]
    <3>1. CASE r = m
      <4>1. queue'[m] = Tail(queue[m]) /\ queue[m] \in Seq(Beat) /\ queue[m] # <<>>
        BY DEF TypeOK, TakeBeat
      <4>2. i + 1 \in 1..Len(queue[m]) /\ queue'[m][i] = queue[m][i + 1]
        BY <3>1, <4>1
      <4> QED
        BY <3>1, <4>2
    <3>2. CASE r # m
      BY <3>2 DEF TypeOK, TakeBeat
    <3> QED
      BY <3>1, <3>2
  <2> QED
    BY <2>1 DEF BeatInv
<1>5. SetInv'
  <2> SUFFICES ASSUME NEW r \in Replica, setting'[r] # None
               PROVE  /\ Told(setting'[r].worker, setting'[r].stamp)
                      /\ setting'[r].px + setting'[r].read
                            = setting'[r].stamp + HEARTBEAT_TIMEOUT
                      /\ setting'[r].read <= now
                      /\ now <= setting'[r].read + MaxStall
    BY DEF SetInv, Told, TakeBeat, workerVars
  <2>1. CASE r # m
    BY <2>1 DEF TypeOK, SetInv, TakeBeat
  <2>2. CASE r = m
    <3> DEFINE beat == Head(queue[m])
               px == Remaining(beat.stamp)
    <3>1. Told(beat.worker, beat.stamp) /\ beat.stamp \in Nat /\ now \in Nat
      <4>1. Told(beat.worker, beat.stamp) /\ beat \in Beat
        BY HeadTold DEF TakeBeat
      <4> QED
        BY <4>1 DEF TypeOK, Beat, Time
    <3>2. setting'[m] = IF px = 0 THEN None
                        ELSE [worker |-> beat.worker, stamp |-> beat.stamp,
                              px |-> px, read |-> now]
      BY DEF TypeOK, TakeBeat
    <3>3. px # 0 => px + now = beat.stamp + HEARTBEAT_TIMEOUT
      BY <3>1, HeartbeatAssumption DEF Remaining
    <3> HIDE DEF beat, px
    <3>4. setting'[m] = [worker |-> beat.worker, stamp |-> beat.stamp,
                         px |-> px, read |-> now] /\ px # 0
      BY <2>2, <3>2
    <3> QED
      BY <2>2, <3>1, <3>3, <3>4, HeartbeatAssumption
  <2> QED
    BY <2>1, <2>2
<1> QED
  BY <1>1, <1>2, <1>3, <1>4, <1>5

\* A SET makes the key live on for what was left when it was computed, from at
\* most MaxStall later.
LEMMA WriteSafe ==
    ASSUME IInv, NEW m \in Replica, Write(m), UNCHANGED last_beat
    PROVE  KeyInv'
<1> USE DEF IInv
<1>1. setting[m] \in Setting
  BY WriteType
<1> SUFFICES ASSUME NEW w \in Worker, key'[w].until # 0
             PROVE  /\ Told(w, key'[w].last_seen)
                    /\ key'[w].until <= last_beat[w] + HEARTBEAT_TIMEOUT + MaxStall
  BY DEF KeyInv, Told
<1>2. CASE w # setting[m].worker
  BY <1>2 DEF TypeOK, KeyInv, Write
<1>3. CASE w = setting[m].worker
  <2>1. key'[w] = [until |-> now + setting[m].px, last_seen |-> setting[m].stamp]
    BY <1>3 DEF TypeOK, Write
  <2>2. /\ Told(w, setting[m].stamp)
        /\ setting[m].px + setting[m].read = setting[m].stamp + HEARTBEAT_TIMEOUT
        /\ now <= setting[m].read + MaxStall
    BY <1>3 DEF SetInv, Write
  <2>3. /\ {now, setting[m].px, setting[m].read, setting[m].stamp} \subseteq Nat
        /\ last_beat[w] \in Nat /\ setting[m].stamp <= last_beat[w]
    BY <1>1, <2>2, HeartbeatAssumption DEF TypeOK, Setting, Time, Told
  <2> QED
    BY <2>1, <2>2, <2>3, HeartbeatAssumption
<1> QED
  BY <1>2, <1>3

\* The other steps of a replica leave the beats alone, or forget them.
LEMMA ReplicaSafe ==
    ASSUME IInv, NEW m \in Replica,
           \/ SetKey(m) \/ SetKeyTwice(m) \/ SetKeyFails(m)
           \/ StopReplica(m) \/ StartReplica(m)
    PROVE  IInv'
<1> USE DEF IInv
<1>1. TypeOK'
  BY ReplicaType
<1>2. now' = now /\ last_beat' = last_beat
  BY DEF SetKey, SetKeyTwice, SetKeyFails, StopReplica, StartReplica, workerVars
<1>3. ClockInv'
  BY <1>2 DEF ClockInv
<1>4. BeatInv'
  <2> SUFFICES ASSUME NEW r \in Replica, NEW i \in 1..Len(queue'[r])
               PROVE  i \in 1..Len(queue[r]) /\ queue'[r][i] = queue[r][i]
    BY <1>2 DEF BeatInv, Told
  <2>1. CASE SetKey(m) \/ SetKeyTwice(m) \/ SetKeyFails(m) \/ StopReplica(m)
    BY <2>1 DEF SetKey, SetKeyTwice, SetKeyFails, StopReplica, replicaVars
  <2>2. CASE StartReplica(m)
    <3>1. queue' = queue \/ (queue' = [queue EXCEPT ![m] = <<>>])
      BY <2>2 DEF StartReplica
    <3>2. CASE queue' # queue
      <4>1. r # m
        BY <3>1, <3>2 DEF TypeOK
      <4> QED
        BY <3>1, <3>2, <4>1 DEF TypeOK
    <3> QED
      BY <3>2
  <2> QED
    BY <2>1, <2>2
<1>5. SetInv'
  <2>1. \A r \in Replica : setting'[r] = setting[r] \/ setting'[r] = None
    BY DEF TypeOK, SetKey, SetKeyTwice, SetKeyFails, StopReplica, StartReplica,
           replicaVars
  <2> QED
    BY <1>2, <2>1 DEF SetInv, Told
<1>6. KeyInv'
  <2>1. CASE Write(m)
    BY <1>2, <2>1, WriteSafe
  <2>2. CASE key' = key
    BY <1>2, <2>2 DEF KeyInv, Told
  <2> QED
    BY <2>1, <2>2
       DEF SetKey, SetKeyTwice, SetKeyFails, StopReplica, StartReplica, keyVars
<1> QED
  BY <1>1, <1>3, <1>4, <1>5, <1>6

\* Nothing else concerns a beat; the clock waits for the SETs on their way.
LEMMA OtherSafe ==
    ASSUME IInv,
           \/ \E w \in Worker : LoseHeartbeat(w) \/ StopWorker(w)
           \/ ScanActive \/ ScanAll \/ Report \/ Tick
           \/ UNCHANGED vars
    PROVE  IInv'
<1> USE DEF IInv
<1>1. TypeOK'
  <2>1. CASE UNCHANGED vars
    BY <2>1 DEF TypeOK, vars, workerVars, replicaVars, keyVars, readerVars
  <2> QED
    BY <2>1, WorkerType, ReaderType
<1>2. /\ last_beat' = last_beat /\ queue' = queue /\ setting' = setting /\ key' = key
      /\ now' = now \/ Tick
  BY DEF LoseHeartbeat, StopWorker, ScanActive, ScanAll, Report, Tick,
         vars, workerVars, replicaVars, keyVars
<1>3. BeatInv' /\ KeyInv'
  BY <1>2 DEF BeatInv, KeyInv, Told
<1>4. now \in Nat /\ (now' = now \/ now' = now + 1)
  BY <1>2 DEF TypeOK, Time, Tick
<1>5. ClockInv'
  <2> SUFFICES ASSUME NEW w \in Worker, last_beat[w] # None
               PROVE  last_beat[w] <= now'
    BY <1>2 DEF ClockInv
  <2>1. last_beat[w] \in Nat /\ last_beat[w] <= now
    BY DEF TypeOK, ClockInv, Time
  <2> QED
    BY <1>4, <2>1
<1>6. SetInv'
  <2> SUFFICES ASSUME NEW m \in Replica, setting[m] # None
               PROVE  setting[m].read <= now' /\ now' <= setting[m].read + MaxStall
    BY <1>2 DEF SetInv, Told
  <2>1. /\ setting[m].read \in Nat
        /\ setting[m].read <= now /\ now <= setting[m].read + MaxStall
    BY DEF TypeOK, SetInv, Setting, Time
  <2>2. CASE now' = now
    BY <2>1, <2>2
  <2>3. CASE Tick
    <3>1. now < setting[m].read + MaxStall /\ now' = now + 1
      BY <2>3 DEF Tick
    <3> QED
      BY <1>4, <2>1, <3>1, HeartbeatAssumption
  <2> QED
    BY <1>2, <2>2, <2>3
<1> QED
  BY <1>1, <1>3, <1>5, <1>6

\* Every step keeps the invariant.
LEMMA StepInv == IInv /\ [Next]_vars => IInv'
  BY SendSafe, TakeSafe, ReplicaSafe, OtherSafe DEF Next

\* So it holds of every reachable state.
LEMMA Invariance == Spec => []IInv
<1>1. Init => IInv
  BY InitInv
<1>2. IInv /\ [Next]_vars => IInv'
  BY StepInv
<1> QED
  BY <1>1, <1>2, PTL DEF Spec

----------------------------------------------------------------------------
(* The theorems.                                                           *)

\* Every reachable state is well typed; in particular a SET is never sent with a
\* life of zero, which Redis refuses (master/heartbeat.py:52-60).
THEOREM TypeCorrect == Spec => []TypeOK
<1>1. IInv => TypeOK
  BY DEF IInv
<1> QED
  BY <1>1, Invariance, PTL

\* A worker that is dead is gone from Redis one timeout, and the time of one SET,
\* after its last beat, whatever the replicas do with its beats
\* (master/heartbeat.py:46-62).
THEOREM DeadIsGone == Spec => []NoResurrection
<1>1. IInv => NoResurrection
  <2> SUFFICES ASSUME IInv, NEW w \in Worker, Live(w)
               PROVE  now < last_beat[w] + HEARTBEAT_TIMEOUT + MaxStall
    BY DEF NoResurrection
  <2>1. now \in Nat /\ key[w].until \in Nat /\ now < key[w].until
    BY DEF IInv, TypeOK, Time, Key, Live
  <2>2. /\ Told(w, key[w].last_seen)
        /\ key[w].until <= last_beat[w] + HEARTBEAT_TIMEOUT + MaxStall
    BY <2>1 DEF IInv, KeyInv
  <2>3. last_beat[w] \in Nat
    BY <2>2 DEF IInv, TypeOK, Told, Time
  <2> QED
    BY <2>1, <2>2, <2>3, HeartbeatAssumption
<1> QED
  BY <1>1, Invariance, PTL

\* The dashboard calls nobody healthy whose last beat is older than the timeout,
\* although its reads are of different times (master/app.py:328-347).
THEOREM DashboardIsRight == Spec => HealthyIsAlive
<1>1. IInv /\ [Next]_vars =>
        [\A w \in Worker : report'[w] = "healthy" /\ report[w] = None =>
            now < last_beat[w] + HEARTBEAT_TIMEOUT]_vars
  <2> SUFFICES ASSUME IInv, Next, NEW w \in Worker,
                      report'[w] = "healthy", report[w] = None
               PROVE  now < last_beat[w] + HEARTBEAT_TIMEOUT
    OBVIOUS
  <2>1. Report
    <3>1. None # "healthy"
      BY HeartbeatAssumption
    <3>2. Report \/ report' = report
      BY DEF Next, SendHeartbeat, LoseHeartbeat, StopWorker, TakeBeat, SetKey,
             SetKeyTwice, SetKeyFails, StopReplica, StartReplica, ScanActive,
             ScanAll, Tick, readerVars
    <3> QED
      BY <3>1, <3>2
  <2>2. Healthy(w)
    <3>1. report'[w] = IF w \notin active THEN None
                       ELSE IF Healthy(w) THEN "healthy" ELSE "unhealthy"
      BY <2>1 DEF Report
    <3>2. None # "healthy"
      BY HeartbeatAssumption
    <3> QED
      BY <3>1, <3>2
  <2>3. now \in Nat /\ key[w] \in Key
    BY DEF IInv, TypeOK, Time
  <2>4. now < key[w].until /\ now < key[w].last_seen + HEARTBEAT_TIMEOUT
    BY <2>2 DEF Healthy, Live
  <2>5. Told(w, key[w].last_seen)
    BY <2>3, <2>4 DEF IInv, KeyInv, Key
  <2>6. last_beat[w] \in Nat /\ key[w].last_seen \in Nat
    BY <2>3, <2>5 DEF IInv, TypeOK, Told, Time, Key
  <2> QED
    BY <2>3, <2>4, <2>5, <2>6, HeartbeatAssumption DEF Told
<1> QED
  BY <1>1, Invariance, PTL DEF Spec, HealthyIsAlive
----------------------------------------------------------------------------
(* Beats that are at most so far apart.                                    *)

\* n times the interval.
Slack(n) == n * HEARTBEAT_INTERVAL

Before(P, t) == {u \in P : u < t}

\* The times in P and d are at most an interval after y - x, and one more for
\* each of the n beats that were skipped and each time of P before.
InPace(P, d, n, x, y) ==
    \A t \in P \cup {d} : t + x <= y + Slack(n + Cardinality(Before(P, t)))

\* One interval more.
LEMMA SlackStep ==
    ASSUME NEW n \in Nat
    PROVE  Slack(n) \in Nat /\ Slack(n + 1) = Slack(n) + HEARTBEAT_INTERVAL
  BY HeartbeatAssumption DEF Slack

\* More of them are more time.
LEMMA SlackGrows ==
    ASSUME NEW n \in Nat, NEW k \in Nat, n <= k
    PROVE  Slack(n) <= Slack(k)
<1>1. PICK i \in Nat : k = n + i
  <2>1. k - n \in Nat /\ k = n + (k - n)
    OBVIOUS
  <2> QED
    BY <2>1
<1>2. HEARTBEAT_INTERVAL \in Nat
  BY HeartbeatAssumption
<1>3. k * HEARTBEAT_INTERVAL = n * HEARTBEAT_INTERVAL + i * HEARTBEAT_INTERVAL
  BY <1>1, <1>2
<1>4. /\ i * HEARTBEAT_INTERVAL \in Nat
      /\ n * HEARTBEAT_INTERVAL \in Nat
  BY <1>2
<1> QED
  BY <1>3, <1>4 DEF Slack

\* The number of the times before another one.
LEMMA BeforeType ==
    ASSUME NEW P \in SUBSET Nat, IsFiniteSet(P), NEW t
    PROVE  /\ IsFiniteSet(Before(P, t))
           /\ Cardinality(Before(P, t)) \in Nat
           /\ \A n \in Nat : Slack(n + Cardinality(Before(P, t))) \in Nat
<1>1. Before(P, t) \subseteq P
  BY DEF Before
<1>2. IsFiniteSet(Before(P, t)) /\ Cardinality(Before(P, t)) \in Nat
  BY <1>1, FS_Subset, FS_CardinalityType
<1> QED
  BY <1>2, SlackStep

\* Whatever comes soon enough is in pace.
LEMMA PaceStarts ==
    ASSUME NEW P \in SUBSET Nat, IsFiniteSet(P), NEW d \in Nat, NEW n \in Nat,
           NEW x \in Nat, NEW y \in Nat,
           \A t \in P \cup {d} : t + x <= y
    PROVE  InPace(P, d, n, x, y)
<1> SUFFICES ASSUME NEW t \in P \cup {d}
             PROVE  t + x <= y + Slack(n + Cardinality(Before(P, t)))
  BY DEF InPace
<1>1. Slack(n + Cardinality(Before(P, t))) \in Nat
  BY BeforeType
<1> QED
  BY <1>1

\* One more failure allows for more.
LEMMA PaceWeakens ==
    ASSUME NEW P \in SUBSET Nat, IsFiniteSet(P), NEW d \in Nat, NEW n \in Nat,
           NEW x \in Nat, NEW y \in Nat, InPace(P, d, n, x, y),
           NEW k \in Nat, n <= k
    PROVE  InPace(P, d, k, x, y)
<1> SUFFICES ASSUME NEW t \in P \cup {d}
             PROVE  t + x <= y + Slack(k + Cardinality(Before(P, t)))
  BY DEF InPace
<1>1. PICK c \in Nat : c = Cardinality(Before(P, t))
  BY BeforeType
<1>2. t + x <= y + Slack(n + c)
  BY <1>1 DEF InPace
<1>3. n + c \in Nat /\ k + c \in Nat /\ n + c <= k + c /\ t \in Nat
  OBVIOUS
<1>4. /\ Slack(n + c) <= Slack(k + c)
      /\ Slack(n + c) \in Nat /\ Slack(k + c) \in Nat
  BY <1>3, SlackGrows, SlackStep
<1>5. t + x <= y + Slack(k + c)
  BY <1>2, <1>3, <1>4
<1> QED
  BY <1>1, <1>5

\* The next beat is sent.
LEMMA PaceSends ==
    ASSUME NEW P \in SUBSET Nat, IsFiniteSet(P), NEW d \in Nat, NEW n \in Nat,
           NEW x \in Nat, NEW y \in Nat, InPace(P, d, n, x, y),
           \A u \in P : u < d
    PROVE  InPace(P \cup {d}, d + HEARTBEAT_INTERVAL, n, x, y)
<1> DEFINE e == d + HEARTBEAT_INTERVAL
           Q == P \cup {d}
<1>0. HEARTBEAT_INTERVAL \in Nat /\ HEARTBEAT_INTERVAL > 0
  BY HeartbeatAssumption
<1> SUFFICES ASSUME NEW t \in Q \cup {e}
             PROVE  t + x <= y + Slack(n + Cardinality(Before(Q, t)))
  BY DEF InPace
<1>1. d \notin P
  OBVIOUS
<1>2. CASE t \in Q
  <2>1. Before(Q, t) = Before(P, t)
    <3>1. t \in Nat /\ t <= d
      BY <1>2
    <3> QED
      BY <3>1 DEF Before
  <2> QED
    BY <1>2, <2>1 DEF InPace
<1>3. CASE t = e
  <2>1. Before(Q, t) = P \cup {d} /\ Before(P, d) = P
    <3>1. \A u \in P \cup {d} : u < t
      BY <1>0, <1>3
    <3> QED
      BY <3>1 DEF Before
  <2>2. Cardinality(Before(Q, t)) = Cardinality(P) + 1
    BY <1>1, <2>1, FS_AddElement
  <2>3. d + x <= y + Slack(n + Cardinality(P))
    BY <2>1 DEF InPace
  <2>4. Cardinality(P) \in Nat
    BY FS_CardinalityType
  <2>5. Slack(n + (Cardinality(P) + 1)) = Slack(n + Cardinality(P)) + HEARTBEAT_INTERVAL
    <3>1. n + (Cardinality(P) + 1) = (n + Cardinality(P)) + 1
      BY <2>4
    <3> QED
      BY <2>4, <3>1, SlackStep
  <2>6. Slack(n + Cardinality(P)) \in Nat
    BY <2>4, SlackStep
  <2> QED
    BY <1>0, <1>3, <2>2, <2>3, <2>5, <2>6
<1> QED
  BY <1>2, <1>3

\* The next beat is lost.
LEMMA PaceLoses ==
    ASSUME NEW P \in SUBSET Nat, IsFiniteSet(P), NEW d \in Nat, NEW n \in Nat,
           NEW x \in Nat, NEW y \in Nat, InPace(P, d, n, x, y),
           \A u \in P : u < d
    PROVE  InPace(P, d + HEARTBEAT_INTERVAL, n + 1, x, y)
<1> DEFINE e == d + HEARTBEAT_INTERVAL
<1>0. HEARTBEAT_INTERVAL \in Nat /\ HEARTBEAT_INTERVAL > 0
  BY HeartbeatAssumption
<1> SUFFICES ASSUME NEW t \in P \cup {e}
             PROVE  t + x <= y + Slack((n + 1) + Cardinality(Before(P, t)))
  BY DEF InPace
<1>1. PICK c \in Nat : c = Cardinality(Before(P, t))
  BY BeforeType
<1>2. /\ Slack((n + 1) + c) = Slack(n + c) + HEARTBEAT_INTERVAL
      /\ Slack(n + c) \in Nat
  <2>1. (n + 1) + c = (n + c) + 1
    OBVIOUS
  <2> QED
    BY <2>1, SlackStep
<1>3. CASE t \in P
  <2>1. t + x <= y + Slack(n + c)
    BY <1>1, <1>3 DEF InPace
  <2> QED
    BY <1>0, <1>1, <1>2, <1>3, <2>1
<1>4. CASE t = e
  <2>1. Before(P, t) = Before(P, d)
    <3>1. \A u \in P : u < d /\ u < t
      BY <1>0, <1>4
    <3> QED
      BY <3>1 DEF Before
  <2>2. d + x <= y + Slack(n + c)
    BY <1>1, <2>1 DEF InPace
  <2> QED
    BY <1>0, <1>1, <1>2, <1>4, <2>2
<1> QED
  BY <1>3, <1>4

\* The first beat is taken, and counts for one that is skipped.
LEMMA PaceTakes ==
    ASSUME NEW P \in SUBSET Nat, IsFiniteSet(P), NEW d \in Nat, NEW n \in Nat,
           NEW x \in Nat, NEW y \in Nat, InPace(P, d, n, x, y),
           NEW p \in P, \A u \in P : p <= u, p < d
    PROVE  /\ InPace(P \ {p}, d, n + 1, x, y)
           /\ p + x <= y + Slack(n)
<1> DEFINE Q == P \ {p}
<1>1. InPace(Q, d, n + 1, x, y)
  <2> SUFFICES ASSUME NEW t \in Q \cup {d}
               PROVE  t + x <= y + Slack((n + 1) + Cardinality(Before(Q, t)))
    BY DEF InPace
  <2>1. p < t /\ t \in Nat
    OBVIOUS
  <2>2. Before(Q, t) = Before(P, t) \ {p} /\ p \in Before(P, t)
    BY <2>1 DEF Before
  <2>3. IsFiniteSet(Before(P, t)) /\ Cardinality(Before(P, t)) \in Nat
    BY BeforeType
  <2>4. Cardinality(Before(Q, t)) = Cardinality(Before(P, t)) - 1
    <3>1. Cardinality(Before(P, t) \ {p}) = Cardinality(Before(P, t)) - 1
      BY <2>2, <2>3, FS_RemoveElement
    <3> QED
      BY <2>2, <3>1
  <2>5. (n + 1) + Cardinality(Before(Q, t)) = n + Cardinality(Before(P, t))
    BY <2>3, <2>4
  <2> QED
    BY <2>5 DEF InPace
<1>2. p + x <= y + Slack(n)
  <2>1. Before(P, p) = {}
    <3>1. \A u \in P : ~(u < p)
      OBVIOUS
    <3> QED
      BY <3>1 DEF Before
  <2>2. n + Cardinality(Before(P, p)) = n
    BY <2>1, FS_EmptySet
  <2>3. p + x <= y + Slack(n + Cardinality(Before(P, p)))
    BY DEF InPace
  <2> QED
    BY <2>2, <2>3
<1> QED
  BY <1>1, <1>2

\* The first of all comes at most the skipped beats after y - x.
LEMMA PaceEnds ==
    ASSUME NEW P \in SUBSET Nat, IsFiniteSet(P), NEW d \in Nat, NEW n \in Nat,
           NEW x \in Nat, NEW y \in Nat, InPace(P, d, n, x, y)
    PROVE  \E t \in P \cup {d} : t + x <= y + Slack(n)
<1>1. PICK t \in P \cup {d} : Before(P, t) = {}
  <2>1. CASE P = {}
    BY <2>1 DEF Before
  <2>2. CASE P # {}
    <3>1. PICK t \in P : \A u \in P : <<u, t>> \notin OpToRel(<, Nat)
      BY <2>2, WFMin, NatLessThanWellFounded
    <3>2. \A u \in P : ~(u < t)
      BY <3>1 DEF OpToRel
    <3> QED
      BY <3>2 DEF Before
  <2> QED
    BY <2>1, <2>2
<1>2. n + Cardinality(Before(P, t)) = n
  BY <1>1, FS_EmptySet
<1>3. t + x <= y + Slack(n + Cardinality(Before(P, t)))
  BY DEF InPace
<1> QED
  BY <1>2, <1>3
----------------------------------------------------------------------------
(* The beats on their way to a replica.                                    *)

\* A beat of w sent at t is its last one, or two intervals before its next.
OnTime(w, t) ==
    due[w] # None =>
        \/ t + HEARTBEAT_INTERVAL = due[w]
        \/ t + 2 * HEARTBEAT_INTERVAL <= due[w]

Dated(m) ==
    \A i \in 1..Len(queue[m]) :
        /\ queue[m][i].sent <= now
        /\ queue[m][i].stamp <= queue[m][i].sent
        /\ queue[m][i].sent < queue[m][i].stamp + SECOND
        /\ OnTime(queue[m][i].worker, queue[m][i].sent)

\* The queue of m is in the order of sending.
Ordered(m) ==
    \A i \in 1..Len(queue[m]) : \A k \in 1..i - 1 :
        /\ queue[m][k].sent <= queue[m][i].sent
        /\ queue[m][k].worker = queue[m][i].worker =>
              queue[m][k].sent < queue[m][i].sent

\* A replica that has caught up has no old beat in its queue.
Prompt(m) ==
    up[m] /\ ~behind[m] =>
        \A i \in 1..Len(queue[m]) : now <= queue[m][i].sent + MaxLag

\* So it is with what m is about to write, of which only the stamp is left.
Stamped(m) ==
    setting[m] # None /\ due[setting[m].worker] # None =>
        /\ setting[m].stamp + HEARTBEAT_INTERVAL <= due[setting[m].worker]
        /\ \/ setting[m].stamp + 2 * HEARTBEAT_INTERVAL <= due[setting[m].worker]
           \/ due[setting[m].worker] < setting[m].stamp + SECOND + HEARTBEAT_INTERVAL

QueueInv ==
    \A m \in Replica : Dated(m) /\ Ordered(m) /\ Prompt(m) /\ Stamped(m)

\* No beat is overdue.
DueInv ==
    \A w \in Worker : due[w] # None =>
        /\ now <= due[w]
        /\ last_beat[w] # None => due[w] <= now + HEARTBEAT_INTERVAL

\* A worker that m has heard is alive, and m has caught up.
HeardInv ==
    \A m \in Replica, w \in Worker : heard[m][w] # None =>
        up[m] /\ ~behind[m] /\ due[w] # None /\ last_beat[w] # None

OrderInv == IInv /\ QueueInv /\ DueInv /\ HeardInv

\* The numbers.
LEMMA Numbers ==
    ASSUME TypeOK
    PROVE  /\ {now, faults, MaxLag, MaxStall, HEARTBEAT_TIMEOUT} \subseteq Nat
           /\ SECOND \in Nat /\ SECOND > 0
           /\ HEARTBEAT_INTERVAL \in Nat /\ HEARTBEAT_INTERVAL > 0
           /\ \A w \in Worker : due[w] # None => due[w] \in Nat
           /\ \A w \in Worker : key[w].until \in Nat
           /\ \A m \in Replica : setting[m] # None =>
                 /\ setting[m].worker \in Worker
                 /\ setting[m].stamp \in Nat
                 /\ setting[m].read \in Nat
           /\ \A m \in Replica, i \in Nat : i \in 1..Len(queue[m]) =>
                 /\ queue[m][i].worker \in Worker
                 /\ queue[m][i].sent \in Nat
                 /\ queue[m][i].stamp \in Nat
           /\ \A m \in Replica : queue[m] \in Seq(Beat) /\ Len(queue[m]) \in Nat
<1>1. \A m \in Replica, i \in Nat : i \in 1..Len(queue[m]) => queue[m][i] \in Beat
  BY DEF TypeOK
<1>2. \A m \in Replica : queue[m] \in Seq(Beat) /\ Len(queue[m]) \in Nat
  BY DEF TypeOK
<1>3. \A m \in Replica : setting[m] # None => setting[m] \in Setting
  BY DEF TypeOK
<1>4. \A w \in Worker : key[w] \in Key
  BY DEF TypeOK
<1>5. \A w \in Worker : due[w] # None => due[w] \in Nat
  BY DEF TypeOK
<1>6. now \in Nat /\ faults \in Nat
  BY HeartbeatAssumption DEF TypeOK, Time
<1>7. \A m \in Replica, i \in Nat : i \in 1..Len(queue[m]) =>
         /\ queue[m][i].worker \in Worker
         /\ queue[m][i].sent \in Nat
         /\ queue[m][i].stamp \in Nat
  BY <1>1 DEF Beat, Time
<1>8. \A m \in Replica : setting[m] # None =>
         /\ setting[m].worker \in Worker
         /\ setting[m].stamp \in Nat
         /\ setting[m].read \in Nat
  BY <1>3 DEF Setting, Time
<1>9. \A w \in Worker : key[w].until \in Nat
  BY <1>4 DEF Key
<1>10. /\ {MaxLag, MaxStall, HEARTBEAT_TIMEOUT} \subseteq Nat
       /\ SECOND \in Nat /\ SECOND > 0
       /\ HEARTBEAT_INTERVAL \in Nat /\ HEARTBEAT_INTERVAL > 0
  BY HeartbeatAssumption
<1> QED
  BY <1>2, <1>5, <1>6, <1>7, <1>8, <1>9, <1>10

\* The seconds of a time are less than one back.
LEMMA TruncatedClose ==
    ASSUME NEW t \in Nat
    PROVE  t < Truncated(t) + SECOND
  BY HeartbeatAssumption DEF Truncated

\* Every beat of a worker is at least an interval before its next.
LEMMA DatedBeat ==
    ASSUME TypeOK, QueueInv, NEW m \in Replica, NEW i \in 1..Len(queue[m])
    PROVE  LET w == queue[m][i].worker
           IN due[w] # None => queue[m][i].sent + HEARTBEAT_INTERVAL <= due[w]
<1>1. OnTime(queue[m][i].worker, queue[m][i].sent)
  BY DEF QueueInv, Dated
<1>2. /\ queue[m][i].worker \in Worker /\ queue[m][i].sent \in Nat
      /\ HEARTBEAT_INTERVAL \in Nat
      /\ due[queue[m][i].worker] # None => due[queue[m][i].worker] \in Nat
  BY Numbers
<1> QED
  BY <1>1, <1>2 DEF OnTime

\* When a worker is done with a beat, the others are one interval further back.
LEMMA OnTimeNext ==
    ASSUME TypeOK, NEW w \in Worker, NEW v \in Worker, NEW t \in Nat,
           OnTime(w, t), due[v] = now,
           due' = [due EXCEPT ![v] = now + HEARTBEAT_INTERVAL]
    PROVE  OnTime(w, t)'
<1>1. HEARTBEAT_INTERVAL \in Nat /\ now \in Nat /\ now # None
  BY Numbers, HeartbeatAssumption
<1>2. due'[w] = IF w = v THEN now + HEARTBEAT_INTERVAL ELSE due[w]
  BY DEF TypeOK
<1>3. CASE w = v
  BY <1>1, <1>2, <1>3 DEF OnTime
<1>4. CASE w # v
  BY <1>2, <1>4 DEF OnTime
<1> QED
  BY <1>3, <1>4

\* Sending keeps the order.
LEMMA SendOrder ==
    ASSUME OrderInv, NEW v \in Worker, SendHeartbeat(v)
    PROVE  \A m \in Replica : Dated(m)' /\ Ordered(m)' /\ Prompt(m)' /\ Stamped(m)'
<1> SUFFICES ASSUME NEW m \in Replica
             PROVE  Dated(m)' /\ Ordered(m)' /\ Prompt(m)' /\ Stamped(m)'
  OBVIOUS
<1> DEFINE beat == [worker |-> v, sent |-> now, stamp |-> Truncated(now)]
           n == Len(queue[m])
<1>1. TypeOK /\ Dated(m) /\ Ordered(m) /\ Prompt(m) /\ Stamped(m)
  BY DEF OrderInv, IInv, QueueInv
<1>2. /\ now \in Nat /\ now # None /\ MaxLag \in Nat
      /\ HEARTBEAT_INTERVAL \in Nat /\ HEARTBEAT_INTERVAL > 0
      /\ SECOND \in Nat /\ SECOND > 0
      /\ n \in Nat
  BY <1>1, Numbers, HeartbeatAssumption
<1>3. /\ due[v] = now /\ now' = now
      /\ due' = [due EXCEPT ![v] = now + HEARTBEAT_INTERVAL]
      /\ due'[v] = now + HEARTBEAT_INTERVAL
      /\ queue'[m] = Append(queue[m], beat)
      /\ up' = up /\ behind' = behind /\ setting' = setting
  BY <1>1 DEF SendHeartbeat, TypeOK
<1>4. /\ queue[m] \in Seq(Beat)
      /\ Len(queue'[m]) = n + 1
      /\ \A i \in 1..n : queue'[m][i] = queue[m][i]
      /\ queue'[m][n + 1] = beat
  BY <1>1, <1>3, Numbers
<1>5. Truncated(now) \in Nat /\ Truncated(now) <= now /\ now < Truncated(now) + SECOND
  BY <1>2, TruncatedLeq, TruncatedClose
<1>6. \A i \in 1..n :
         /\ queue[m][i].worker \in Worker /\ queue[m][i].sent \in Nat
         /\ queue[m][i].sent <= now
         /\ queue[m][i].worker = v => queue[m][i].sent < now
  <2> SUFFICES ASSUME NEW i \in 1..n
               PROVE  /\ queue[m][i].worker \in Worker /\ queue[m][i].sent \in Nat
                      /\ queue[m][i].sent <= now
                      /\ queue[m][i].worker = v => queue[m][i].sent < now
    OBVIOUS
  <2>1. queue[m][i].worker \in Worker /\ queue[m][i].sent \in Nat
    BY <1>1, Numbers
  <2>2. queue[m][i].worker = v => queue[m][i].sent + HEARTBEAT_INTERVAL <= now
    BY <1>2, <1>3, DatedBeat DEF OrderInv, IInv
  <2> QED
    BY <1>1, <1>2, <2>1, <2>2 DEF Dated
<1> HIDE DEF n
<1>7. Dated(m)'
  <2> SUFFICES ASSUME NEW i \in 1..n + 1
               PROVE  /\ queue'[m][i].sent <= now'
                      /\ queue'[m][i].stamp <= queue'[m][i].sent
                      /\ queue'[m][i].sent < queue'[m][i].stamp + SECOND
                      /\ OnTime(queue[m][i].worker, queue[m][i].sent)'
    BY <1>4 DEF Dated
  <2>1. CASE i \in 1..n
    <3>1. OnTime(queue[m][i].worker, queue[m][i].sent)
      BY <1>1, <2>1 DEF Dated, n
    <3>2. \A w \in Worker, t \in Nat : OnTime(w, t) => OnTime(w, t)'
      BY <1>1, <1>3, OnTimeNext
    <3>3. /\ queue[m][i].sent <= now
          /\ queue[m][i].stamp <= queue[m][i].sent
          /\ queue[m][i].sent < queue[m][i].stamp + SECOND
      BY <1>1, <2>1 DEF Dated, n
    <3>4. OnTime(queue[m][i].worker, queue[m][i].sent)'
      <4>1. ASSUME NEW w \in Worker, NEW t \in Nat, OnTime(w, t)
            PROVE  due'[w] # None =>
                      \/ t + HEARTBEAT_INTERVAL = due'[w]
                      \/ t + 2 * HEARTBEAT_INTERVAL <= due'[w]
        BY <3>2, <4>1 DEF OnTime
      <4> QED
        BY <1>4, <1>6, <2>1, <3>1, <4>1 DEF OnTime
    <3> QED
      BY <1>3, <1>4, <2>1, <3>3, <3>4
  <2>2. CASE i = n + 1
    <3>1. queue'[m][i] = beat
      BY <1>4, <2>2
    <3>2. /\ queue'[m][i].worker = v /\ queue'[m][i].sent = now
          /\ queue'[m][i].stamp = Truncated(now)
      BY <3>1
    <3>3. OnTime(queue[m][i].worker, queue[m][i].sent)'
      BY <1>3, <3>2 DEF OnTime
    <3>4. /\ queue'[m][i].sent <= now'
          /\ queue'[m][i].stamp <= queue'[m][i].sent
          /\ queue'[m][i].sent < queue'[m][i].stamp + SECOND
      <4>1. now' = now /\ now <= now
        BY <1>2, <1>3
      <4> HIDE DEF beat
      <4> QED
        BY <1>5, <3>2, <4>1
    <3> QED
      BY <3>3, <3>4
  <2> QED
    BY <1>2, <2>1, <2>2
<1>8. Ordered(m)'
  <2> SUFFICES ASSUME NEW i \in 1..n + 1, NEW k \in 1..i - 1
               PROVE  /\ queue'[m][k].sent <= queue'[m][i].sent
                      /\ queue'[m][k].worker = queue'[m][i].worker =>
                            queue'[m][k].sent < queue'[m][i].sent
    BY <1>4 DEF Ordered
  <2>1. k \in 1..n /\ queue'[m][k] = queue[m][k]
    BY <1>2, <1>4
  <2>2. CASE i \in 1..n
    <3>1. queue'[m][i] = queue[m][i]
      BY <1>4, <2>2
    <3> QED
      BY <1>1, <2>1, <2>2, <3>1 DEF Ordered, n
  <2>3. CASE i = n + 1
    <3>1. queue'[m][i] = beat
      BY <1>4, <2>3
    <3> QED
      BY <1>6, <2>1, <3>1
  <2> QED
    BY <1>2, <2>2, <2>3
<1>9. Prompt(m)'
  <2> SUFFICES ASSUME up[m], ~behind[m], NEW i \in 1..n + 1
               PROVE  now <= queue'[m][i].sent + MaxLag
    BY <1>3, <1>4 DEF Prompt
  <2>1. CASE i \in 1..n
    BY <1>1, <1>4, <2>1 DEF Prompt, n
  <2>2. CASE i = n + 1
    <3>1. queue'[m][i] = beat
      BY <1>4, <2>2
    <3> QED
      BY <1>2, <3>1
  <2> QED
    BY <1>2, <2>1, <2>2
<1>10. Stamped(m)'
  <2> SUFFICES ASSUME setting[m] # None, due'[setting[m].worker] # None
               PROVE  /\ setting[m].stamp + HEARTBEAT_INTERVAL
                             <= due'[setting[m].worker]
                      /\ \/ setting[m].stamp + 2 * HEARTBEAT_INTERVAL
                                <= due'[setting[m].worker]
                         \/ due'[setting[m].worker]
                                < setting[m].stamp + SECOND + HEARTBEAT_INTERVAL
    BY <1>3 DEF Stamped
  <2>1. setting[m].worker \in Worker /\ setting[m].stamp \in Nat
    BY <1>1, Numbers
  <2>2. CASE setting[m].worker # v
    BY <1>1, <1>3, <2>1, <2>2 DEF Stamped, TypeOK
  <2>3. CASE setting[m].worker = v
    BY <1>1, <1>2, <1>3, <2>1, <2>3 DEF Stamped
  <2> QED
    BY <2>2, <2>3
<1> QED
  BY <1>7, <1>8, <1>9, <1>10

\* So does a beat that is lost, and the end of a worker.
LEMMA WorkerOrder ==
    ASSUME OrderInv, NEW v \in Worker, LoseHeartbeat(v) \/ StopWorker(v)
    PROVE  QueueInv'
<1>1. TypeOK /\ QueueInv
  BY DEF OrderInv, IInv
<1>2. /\ now \in Nat /\ now # None
      /\ HEARTBEAT_INTERVAL \in Nat /\ HEARTBEAT_INTERVAL > 0
  BY <1>1, Numbers, HeartbeatAssumption
<1>3. UNCHANGED <<now, queue, up, behind, setting>>
  BY DEF LoseHeartbeat, StopWorker, replicaVars
<1>4. \A w \in Worker, t \in Nat : OnTime(w, t) => OnTime(w, t)'
  <2>1. CASE LoseHeartbeat(v)
    BY <1>1, <2>1, OnTimeNext DEF LoseHeartbeat
  <2>2. CASE StopWorker(v)
    BY <1>1, <2>2 DEF StopWorker, OnTime, TypeOK
  <2> QED
    BY <2>1, <2>2
<1> SUFFICES ASSUME NEW m \in Replica
             PROVE  Dated(m)' /\ Ordered(m)' /\ Prompt(m)' /\ Stamped(m)'
  BY DEF QueueInv
<1>5. Dated(m)'
  <2>1. \A i \in 1..Len(queue[m]) :
           queue[m][i].worker \in Worker /\ queue[m][i].sent \in Nat
    BY <1>1, Numbers
  <2>2. ASSUME NEW w \in Worker, NEW t \in Nat, OnTime(w, t)
        PROVE  due'[w] # None =>
                  \/ t + HEARTBEAT_INTERVAL = due'[w]
                  \/ t + 2 * HEARTBEAT_INTERVAL <= due'[w]
    BY <1>4, <2>2 DEF OnTime
  <2> QED
    BY <1>1, <1>3, <2>1, <2>2 DEF QueueInv, Dated, OnTime
<1>6. Ordered(m)' /\ Prompt(m)'
  BY <1>1, <1>3 DEF QueueInv, Ordered, Prompt
<1>7. Stamped(m)'
  <2> SUFFICES ASSUME setting[m] # None, due'[setting[m].worker] # None
               PROVE  /\ setting[m].stamp + HEARTBEAT_INTERVAL
                             <= due'[setting[m].worker]
                      /\ \/ setting[m].stamp + 2 * HEARTBEAT_INTERVAL
                                <= due'[setting[m].worker]
                         \/ due'[setting[m].worker]
                                < setting[m].stamp + SECOND + HEARTBEAT_INTERVAL
    BY <1>3 DEF Stamped
  <2>1. setting[m].worker \in Worker /\ setting[m].stamp \in Nat
    BY <1>1, Numbers
  <2>2. \/ due'[setting[m].worker] = due[setting[m].worker]
        \/ /\ LoseHeartbeat(v) /\ setting[m].worker = v
           /\ due[v] = now /\ due'[v] = now + HEARTBEAT_INTERVAL
    BY <1>1, <2>1 DEF LoseHeartbeat, StopWorker, TypeOK
  <2> QED
    BY <1>1, <1>2, <2>1, <2>2 DEF QueueInv, Stamped
<1> QED
  BY <1>5, <1>6, <1>7

\* What is left of a queue when its head is taken.
LEMMA TailOf ==
    ASSUME TypeOK, NEW m \in Replica, TakeBeat(m)
    PROVE  /\ Len(queue'[m]) = Len(queue[m]) - 1
           /\ Len(queue[m]) \in Nat \ {0}
           /\ \A i \in 1..Len(queue'[m]) :
                 i + 1 \in 1..Len(queue[m]) /\ queue'[m][i] = queue[m][i + 1]
           /\ Head(queue[m]) = queue[m][1]
           /\ \A r \in Replica : r # m => queue'[r] = queue[r]
<1>1. /\ queue[m] \in Seq(Beat) /\ queue[m] # <<>>
      /\ queue'[m] = Tail(queue[m])
      /\ \A r \in Replica : r # m => queue'[r] = queue[r]
  BY DEF TypeOK, TakeBeat
<1> QED
  BY <1>1

\* Taking a beat keeps the order.
LEMMA TakeOrder ==
    ASSUME OrderInv, NEW m \in Replica, TakeBeat(m)
    PROVE  QueueInv'
<1>1. TypeOK /\ QueueInv
  BY DEF OrderInv, IInv
<1>2. UNCHANGED <<now, due, up>>
  BY DEF TakeBeat, workerVars
<1>3. ASSUME NEW r \in Replica, r # m
      PROVE  Dated(r)' /\ Ordered(r)' /\ Prompt(r)' /\ Stamped(r)'
  <2>1. /\ queue'[r] = queue[r] /\ behind'[r] = behind[r]
        /\ setting'[r] = setting[r]
    BY <1>1, <1>3 DEF TakeBeat, TypeOK
  <2>2. Dated(r) /\ Ordered(r) /\ Prompt(r) /\ Stamped(r)
    BY <1>1 DEF QueueInv
  <2>3. Dated(r)'
    BY <1>2, <2>1, <2>2 DEF Dated, OnTime
  <2> QED
    BY <1>2, <2>1, <2>2, <2>3 DEF Ordered, Prompt, Stamped
<1>4. Dated(m) /\ Ordered(m) /\ Prompt(m)
  BY <1>1 DEF QueueInv
<1>5. /\ Len(queue'[m]) = Len(queue[m]) - 1
      /\ Len(queue[m]) \in Nat \ {0}
      /\ \A i \in 1..Len(queue'[m]) :
            i + 1 \in 1..Len(queue[m]) /\ queue'[m][i] = queue[m][i + 1]
      /\ Head(queue[m]) = queue[m][1]
  BY <1>1, TailOf
<1>6. Dated(m)'
  <2> SUFFICES ASSUME NEW i \in 1..Len(queue'[m])
               PROVE  /\ queue'[m][i].sent <= now
                      /\ queue'[m][i].stamp <= queue'[m][i].sent
                      /\ queue'[m][i].sent < queue'[m][i].stamp + SECOND
                      /\ OnTime(queue[m][i].worker, queue[m][i].sent)'
    BY <1>2 DEF Dated
  <2>1. i + 1 \in 1..Len(queue[m]) /\ queue'[m][i] = queue[m][i + 1]
    BY <1>5
  <2> QED
    BY <1>2, <1>4, <2>1 DEF Dated, OnTime
<1>7. Ordered(m)'
  <2> SUFFICES ASSUME NEW i \in 1..Len(queue'[m]), NEW k \in 1..i - 1
               PROVE  /\ queue'[m][k].sent <= queue'[m][i].sent
                      /\ queue'[m][k].worker = queue'[m][i].worker =>
                            queue'[m][k].sent < queue'[m][i].sent
    BY DEF Ordered
  <2>1. k \in 1..Len(queue'[m]) /\ k + 1 \in 1..(i + 1) - 1
    BY <1>5
  <2>2. /\ i + 1 \in 1..Len(queue[m])
        /\ queue'[m][i] = queue[m][i + 1]
        /\ queue'[m][k] = queue[m][k + 1]
    BY <1>5, <2>1
  <2> QED
    BY <1>4, <2>1, <2>2 DEF Ordered
<1>8. Prompt(m)'
  <2> SUFFICES ASSUME up[m], ~behind'[m], NEW i \in 1..Len(queue'[m])
               PROVE  now <= queue'[m][i].sent + MaxLag
    BY <1>2 DEF Prompt
  <2>1. behind'[m] = (behind[m] /\ Len(queue[m]) > 1)
    BY <1>1 DEF TakeBeat, TypeOK
  <2>2. ~behind[m]
    <3>1. Len(queue[m]) > 1
      <4>1. i \in Nat /\ i >= 1 /\ i <= Len(queue[m]) - 1
        BY <1>5
      <4> QED
        BY <1>5, <4>1
    <3> QED
      BY <2>1, <3>1
  <2>3. i + 1 \in 1..Len(queue[m]) /\ queue'[m][i] = queue[m][i + 1]
    BY <1>5
  <2> QED
    BY <1>4, <2>2, <2>3 DEF Prompt
<1>9. Stamped(m)'
  <2> DEFINE beat == queue[m][1]
  <2> SUFFICES ASSUME setting'[m] # None, due[setting'[m].worker] # None
               PROVE  /\ setting'[m].stamp + HEARTBEAT_INTERVAL
                             <= due[setting'[m].worker]
                      /\ \/ setting'[m].stamp + 2 * HEARTBEAT_INTERVAL
                                <= due[setting'[m].worker]
                         \/ due[setting'[m].worker]
                                < setting'[m].stamp + SECOND + HEARTBEAT_INTERVAL
    BY <1>2 DEF Stamped
  <2>1. setting'[m].worker = beat.worker /\ setting'[m].stamp = beat.stamp
    BY <1>1, <1>5 DEF TakeBeat, TypeOK
  <2>2. 1 \in 1..Len(queue[m])
    BY <1>5
  <2>3. /\ beat.worker \in Worker /\ beat.sent \in Nat /\ beat.stamp \in Nat
        /\ due[beat.worker] # None => due[beat.worker] \in Nat
        /\ SECOND \in Nat /\ HEARTBEAT_INTERVAL \in Nat
    BY <1>1, <2>2, Numbers
  <2>4. /\ beat.stamp <= beat.sent /\ beat.sent < beat.stamp + SECOND
        /\ OnTime(beat.worker, beat.sent)
    BY <1>4, <2>2 DEF Dated
  <2> HIDE DEF beat
  <2> QED
    BY <2>1, <2>3, <2>4 DEF OnTime
<1> QED
  BY <1>3, <1>6, <1>7, <1>8, <1>9 DEF QueueInv

\* The other steps of a replica leave the queue as it is, or empty it.
LEMMA ReplicaOrder ==
    ASSUME OrderInv, NEW m \in Replica,
           \/ SetKey(m) \/ SetKeyTwice(m) \/ SetKeyFails(m)
           \/ StopReplica(m) \/ StartReplica(m)
    PROVE  QueueInv'
<1>1. TypeOK /\ QueueInv
  BY DEF OrderInv, IInv
<1>2. UNCHANGED <<now, due>>
  BY DEF SetKey, SetKeyTwice, SetKeyFails, StopReplica, StartReplica, workerVars
<1> SUFFICES ASSUME NEW r \in Replica
             PROVE  Dated(r)' /\ Ordered(r)' /\ Prompt(r)' /\ Stamped(r)'
  BY DEF QueueInv
<1>3. Dated(r) /\ Ordered(r) /\ Prompt(r) /\ Stamped(r)
  BY <1>1 DEF QueueInv
<1>4. setting'[r] \in {setting[r], None}
  BY <1>1 DEF SetKey, SetKeyTwice, SetKeyFails, StopReplica, StartReplica,
              replicaVars, TypeOK
<1>5. Stamped(r)'
  BY <1>2, <1>3, <1>4 DEF Stamped
<1>6. \/ /\ queue'[r] = queue[r] /\ behind'[r] = behind[r]
         /\ up'[r] => up[r]
      \/ queue'[r] = <<>>
      \/ queue'[r] = queue[r] /\ behind'[r]
  <2>1. CASE StartReplica(m)
    <3>1. queue' = queue \/ queue' = [queue EXCEPT ![m] = <<>>]
      BY <2>1 DEF StartReplica
    <3>2. behind' = [behind EXCEPT ![m] = queue'[m] # <<>>]
          /\ up' = [up EXCEPT ![m] = TRUE]
      BY <2>1 DEF StartReplica
    <3>3. CASE r # m
      BY <1>1, <3>1, <3>2, <3>3 DEF TypeOK
    <3>4. CASE r = m
      <4>1. behind'[m] = (queue'[m] # <<>>)
        BY <1>1, <3>2 DEF TypeOK
      <4>2. queue'[m] = queue[m] \/ queue'[m] = <<>>
        BY <1>1, <3>1 DEF TypeOK
      <4> QED
        BY <3>4, <4>1, <4>2
    <3> QED
      BY <3>3, <3>4
  <2>2. CASE ~StartReplica(m)
    BY <1>1, <2>2 DEF SetKey, SetKeyTwice, SetKeyFails, StopReplica,
                      replicaVars, TypeOK
  <2> QED
    BY <2>1, <2>2
<1>7. CASE queue'[r] = <<>>
  <2>1. Len(queue'[r]) = 0
    BY <1>7
  <2>2. 1..Len(queue'[r]) = {}
    BY <2>1
  <2> QED
    BY <1>5, <2>2 DEF Dated, Ordered, Prompt
<1>8. CASE queue'[r] = queue[r]
  <2>1. Dated(r)' /\ Ordered(r)'
    BY <1>2, <1>3, <1>8 DEF Dated, Ordered, OnTime
  <2>2. Prompt(r)'
    BY <1>2, <1>3, <1>6, <1>7, <1>8 DEF Prompt
  <2> QED
    BY <1>5, <2>1, <2>2
<1> QED
  BY <1>6, <1>7, <1>8

\* Time only passes while no beat has waited too long.
LEMMA TickOrder ==
    ASSUME OrderInv, ScanActive \/ ScanAll \/ Report \/ Tick \/ UNCHANGED vars
    PROVE  QueueInv'
<1>1. TypeOK /\ QueueInv
  BY DEF OrderInv, IInv
<1>2. /\ UNCHANGED <<due, queue, up, behind, setting>>
      /\ now' = now \/ (Tick /\ now' = now + 1)
  BY DEF ScanActive, ScanAll, Report, Tick, vars, workerVars, replicaVars
<1> SUFFICES ASSUME NEW m \in Replica
             PROVE  Dated(m)' /\ Ordered(m)' /\ Prompt(m)' /\ Stamped(m)'
  BY DEF QueueInv
<1>3. Dated(m) /\ Ordered(m) /\ Prompt(m) /\ Stamped(m)
  BY <1>1 DEF QueueInv
<1>4. Ordered(m)' /\ Stamped(m)'
  BY <1>2, <1>3 DEF Ordered, Stamped
<1>5. /\ now \in Nat /\ MaxLag \in Nat /\ Len(queue[m]) \in Nat
      /\ queue[m] \in Seq(Beat)
      /\ \A i \in 1..Len(queue[m]) : queue[m][i].sent \in Nat
  BY <1>1, Numbers
<1>6. Dated(m)'
  <2> SUFFICES ASSUME NEW i \in 1..Len(queue[m])
               PROVE  /\ queue[m][i].sent <= now'
                      /\ queue[m][i].stamp <= queue[m][i].sent
                      /\ queue[m][i].sent < queue[m][i].stamp + SECOND
                      /\ OnTime(queue[m][i].worker, queue[m][i].sent)'
    BY <1>2 DEF Dated
  <2>1. queue[m][i].sent <= now'
    <3>1. queue[m][i].sent <= now
      BY <1>3 DEF Dated
    <3> QED
      BY <1>2, <1>5, <3>1
  <2> QED
    BY <1>2, <1>3, <2>1 DEF Dated, OnTime
<1>7. Prompt(m)'
  <2>1. CASE now' = now
    BY <1>2, <1>3, <2>1 DEF Prompt
  <2>2. CASE Tick
    <3> SUFFICES ASSUME up[m], ~behind[m], NEW i \in 1..Len(queue[m])
                 PROVE  now + 1 <= queue[m][i].sent + MaxLag
      BY <2>2 DEF Prompt, Tick, replicaVars
    <3>1. 1 \in 1..Len(queue[m]) /\ Head(queue[m]) = queue[m][1] /\ queue[m] # <<>>
      BY <1>5
    <3>2. now < queue[m][1].sent + MaxLag
      BY <2>2, <3>1 DEF Tick
    <3>3. queue[m][1].sent <= queue[m][i].sent
      <4>1. CASE i = 1
        BY <1>5, <4>1
      <4>2. CASE i # 1
        <5>1. 1 \in 1..i - 1
          BY <1>5, <4>2
        <5> QED
          BY <1>3, <5>1 DEF Ordered
      <4> QED
        BY <4>1, <4>2
    <3> QED
      BY <1>5, <3>1, <3>2, <3>3
  <2> QED
    BY <1>2, <2>1, <2>2
<1> QED
  BY <1>4, <1>6, <1>7

\* No beat becomes overdue.
LEMMA DueStep ==
    ASSUME OrderInv, [Next]_vars
    PROVE  DueInv'
<1>1. TypeOK
  BY DEF OrderInv, IInv
<1>2. /\ now \in Nat /\ now # None
      /\ HEARTBEAT_INTERVAL \in Nat /\ HEARTBEAT_INTERVAL > 0
  BY <1>1, Numbers, HeartbeatAssumption
<1> SUFFICES ASSUME NEW w \in Worker, due'[w] # None
             PROVE  /\ now' <= due'[w]
                    /\ last_beat'[w] # None => due'[w] <= now' + HEARTBEAT_INTERVAL
  BY DEF DueInv
<1>3. due[w] # None => /\ due[w] \in Nat /\ now <= due[w]
                       /\ last_beat[w] # None => due[w] <= now + HEARTBEAT_INTERVAL
  BY <1>1, Numbers DEF OrderInv, DueInv
<1>4. CASE UNCHANGED <<now, due, last_beat>>
  BY <1>3, <1>4
<1>5. ASSUME NEW v \in Worker, SendHeartbeat(v) \/ LoseHeartbeat(v)
      PROVE  /\ now' <= due'[w]
             /\ last_beat'[w] # None => due'[w] <= now' + HEARTBEAT_INTERVAL
  <2>1. /\ due' = [due EXCEPT ![v] = now + HEARTBEAT_INTERVAL]
        /\ now' = now
        /\ w # v => last_beat'[w] = last_beat[w]
    BY <1>1, <1>5 DEF SendHeartbeat, LoseHeartbeat, TypeOK
  <2>2. CASE w = v
    BY <1>1, <1>2, <2>1, <2>2 DEF TypeOK
  <2>3. CASE w # v
    BY <1>1, <1>3, <2>1, <2>3 DEF TypeOK
  <2> QED
    BY <2>2, <2>3
<1>6. ASSUME NEW v \in Worker, StopWorker(v)
      PROVE  due'[w] = due[w] /\ now' = now /\ last_beat' = last_beat
  BY <1>1, <1>6 DEF StopWorker, TypeOK
<1>7. CASE Tick
  <2>1. now' = now + 1 /\ due'[w] = due[w] /\ last_beat' = last_beat /\ due[w] # now
    BY <1>7 DEF Tick, workerVars
  <2> QED
    BY <1>2, <1>3, <2>1
<1> QED
  BY <1>3, <1>4, <1>5, <1>6, <1>7
     DEF Next, TakeBeat, SetKey, SetKeyTwice, SetKeyFails, StopReplica,
         StartReplica, ScanActive, ScanAll, Report, vars, workerVars

\* Who has been heard is alive.
LEMMA HeardStep ==
    ASSUME OrderInv, [Next]_vars
    PROVE  HeardInv'
<1>1. TypeOK /\ HeardInv
  BY DEF OrderInv, IInv
<1> SUFFICES ASSUME NEW m \in Replica, NEW w \in Worker, heard'[m][w] # None
             PROVE  up'[m] /\ ~behind'[m] /\ due'[w] # None /\ last_beat'[w] # None
  BY DEF HeardInv
<1>2. heard[m][w] # None => up[m] /\ ~behind[m] /\ due[w] # None /\ last_beat[w] # None
  BY <1>1 DEF HeardInv
<1>3. now # None /\ now + HEARTBEAT_INTERVAL # None
  BY <1>1, Numbers, HeartbeatAssumption
<1>4. CASE UNCHANGED <<up, behind, due, last_beat, heard>>
  BY <1>2, <1>4
<1>5. ASSUME NEW v \in Worker, SendHeartbeat(v)
      PROVE  up'[m] /\ ~behind'[m] /\ due'[w] # None /\ last_beat'[w] # None
  <2>1. /\ due' = [due EXCEPT ![v] = now + HEARTBEAT_INTERVAL]
        /\ last_beat' = [last_beat EXCEPT ![v] = now]
        /\ up' = up /\ behind' = behind
    BY <1>5 DEF SendHeartbeat
  <2>2. heard'[m] = IF up[m] /\ ~behind[m] /\ heard[m][v] = None
                    THEN [heard[m] EXCEPT ![v] = now] ELSE heard[m]
    BY <1>5 DEF SendHeartbeat
  <2>3. heard[m] \in [Worker -> Time \cup {None}]
    BY <1>1 DEF TypeOK
  <2>4. heard'[m][w] = heard[m][w] \/ (w = v /\ up[m] /\ ~behind[m])
    BY <2>2, <2>3
  <2>5. CASE w = v
    BY <1>1, <1>2, <1>3, <2>1, <2>4, <2>5 DEF TypeOK
  <2>6. CASE w # v
    BY <1>1, <1>2, <2>1, <2>4, <2>6 DEF TypeOK
  <2> QED
    BY <2>5, <2>6
<1>6. ASSUME NEW v \in Worker, LoseHeartbeat(v)
      PROVE  up'[m] /\ ~behind'[m] /\ due'[w] # None /\ last_beat'[w] # None
  BY <1>1, <1>2, <1>3, <1>6 DEF LoseHeartbeat, replicaVars, TypeOK
<1>7. ASSUME NEW v \in Worker, StopWorker(v)
      PROVE  up'[m] /\ ~behind'[m] /\ due'[w] # None /\ last_beat'[w] # None
  <2>1. /\ due' = [due EXCEPT ![v] = None]
        /\ last_beat' = last_beat /\ up' = up /\ behind' = behind
        /\ heard'[m] = [heard[m] EXCEPT ![v] = None]
    BY <1>7 DEF StopWorker
  <2>2. heard[m] \in [Worker -> Time \cup {None}]
    BY <1>1 DEF TypeOK
  <2>3. w # v /\ heard'[m][w] = heard[m][w]
    BY <2>1, <2>2
  <2> QED
    BY <1>1, <1>2, <2>1, <2>3 DEF TypeOK
<1>8. ASSUME NEW r \in Replica, TakeBeat(r)
      PROVE  up'[m] /\ ~behind'[m] /\ due'[w] # None /\ last_beat'[w] # None
  <2>1. /\ UNCHANGED <<up, heard, due, last_beat>>
        /\ behind' = [behind EXCEPT ![r] = @ /\ Len(queue[r]) > 1]
    BY <1>8 DEF TakeBeat, workerVars
  <2>2. ~behind[m] => ~behind'[m]
    BY <1>1, <2>1 DEF TypeOK
  <2> QED
    BY <1>2, <2>1, <2>2
<1>9. ASSUME NEW r \in Replica, StopReplica(r) \/ StartReplica(r)
      PROVE  up'[m] /\ ~behind'[m] /\ due'[w] # None /\ last_beat'[w] # None
  <2>1. m # r
    <3>1. CASE StopReplica(r)
      BY <1>1, <3>1 DEF StopReplica, TypeOK
    <3>2. CASE StartReplica(r)
      BY <1>1, <1>2, <3>2 DEF StartReplica
    <3> QED
      BY <1>9, <3>1, <3>2
  <2>2. /\ UNCHANGED <<due, last_beat>>
        /\ heard'[m] = heard[m] /\ up'[m] = up[m] /\ behind'[m] = behind[m]
    BY <1>1, <1>9, <2>1 DEF StopReplica, StartReplica, workerVars, TypeOK
  <2> QED
    BY <1>2, <2>2
<1> QED
  BY <1>4, <1>5, <1>6, <1>7, <1>8, <1>9
     DEF Next, SetKey, SetKeyTwice, SetKeyFails, ScanActive, ScanAll, Report,
         Tick, vars, workerVars, replicaVars

\* Every step keeps the order.
LEMMA OrderStep == OrderInv /\ [Next]_vars => OrderInv'
<1> SUFFICES ASSUME OrderInv, [Next]_vars
             PROVE  OrderInv'
  OBVIOUS
<1>1. IInv'
  BY StepInv DEF OrderInv
<1>2. ASSUME NEW v \in Worker, SendHeartbeat(v)
      PROVE  QueueInv'
  BY <1>2, SendOrder DEF QueueInv
<1>3. QueueInv'
  BY <1>2, WorkerOrder, TakeOrder, ReplicaOrder, TickOrder DEF Next
<1> QED
  BY <1>1, <1>3, DueStep, HeardStep DEF OrderInv

\* At the start nothing is on its way.
LEMMA InitOrder == Init => OrderInv
<1> SUFFICES ASSUME Init
             PROVE  OrderInv
  OBVIOUS
<1>1. IInv
  BY InitInv
<1>2. QueueInv
  <2>1. \A m \in Replica : Len(queue[m]) = 0 /\ setting[m] = None
    BY DEF Init
  <2>2. \A m \in Replica : 1..Len(queue[m]) = {}
    BY <2>1
  <2> QED
    BY <2>1, <2>2 DEF QueueInv, Dated, Ordered, Prompt, Stamped
<1>3. DueInv
  BY HeartbeatAssumption DEF Init, DueInv
<1>4. HeardInv
  BY DEF Init, HeardInv
<1> QED
  BY <1>1, <1>2, <1>3, <1>4 DEF OrderInv
----------------------------------------------------------------------------
(* The life of a key.                                                      *)

\* s is a SET of the key of w.
IsFor(w, s) == s # None /\ s.worker = w

\* P and d are in pace, where a SET that is not executed counts for one more
\* that is skipped, and was read from a beat that was in pace itself.
Paces(w, P, d, s, f, x, y) ==
    /\ InPace(P, d, IF IsFor(w, s) THEN f + 1 ELSE f, x, y)
    /\ IsFor(w, s) => s.read + x <= y + MaxLag + Slack(f)

\* When the beats of w were sent that are in the queue of m.
Pending(m, w) ==
    {queue[m][i].sent : i \in {k \in 1..Len(queue[m]) : queue[m][k].worker = w}}

\* The beats of w that m has not written, and the next one, come at most one
\* interval after y - x and another one for each beat that is skipped.
PacedBy(m, w, x, y) ==
    Paces(w, Pending(m, w), due[w], setting[m], faults, x, y)

\* How much older than the last beat of a worker the one may be that another
\* replica writes: nothing, if every beat is written before the next one is sent.
Disorder ==
    IF SECOND + MaxLag + MaxStall <= HEARTBEAT_INTERVAL THEN 0 ELSE MaxLag

\* The next beat of w that m writes comes before its key expires, unless too many
\* are skipped.
Covered(m, w) ==
    \/ w \in late
    \/ PacedBy(m, w, HEARTBEAT_TIMEOUT + 1,
               key[w].until + SECOND + HEARTBEAT_INTERVAL + Disorder)

\* Until m has written the key, the beats are counted from the first one.
PaceInv ==
    \A m \in Replica, w \in Worker : heard[m][w] # None =>
        PacedBy(m, w, 0, heard[m][w]) \/ Covered(m, w)

\* The timeout is long enough for MaxFaults beats to be skipped.
TimeoutSuffices ==
    SECOND + MaxLag + MaxStall + Disorder
        + (MaxFaults + 1) * HEARTBEAT_INTERVAL <= HEARTBEAT_TIMEOUT

\* What a step of the worker, or a failure, does to the pace.
LEMMA PacesSteps ==
    ASSUME NEW P \in SUBSET Nat, IsFiniteSet(P), NEW d \in Nat, NEW f \in Nat,
           NEW x \in Nat, NEW y \in Nat, NEW w, NEW s,
           IsFor(w, s) => s.read \in Nat,
           Paces(w, P, d, s, f, x, y)
    PROVE  /\ \A k \in Nat : f <= k => Paces(w, P, d, s, k, x, y)
           /\ (\A u \in P : u < d) =>
                 /\ Paces(w, P \cup {d}, d + HEARTBEAT_INTERVAL, s, f, x, y)
                 /\ Paces(w, P, d + HEARTBEAT_INTERVAL, s, f + 1, x, y)
           /\ IsFor(w, s) => Paces(w, P, d, None, f + 1, x, y)
<1> DEFINE n == IF IsFor(w, s) THEN f + 1 ELSE f
<1>1. InPace(P, d, n, x, y) /\ n \in Nat
  BY DEF Paces
<1>2. ASSUME NEW k \in Nat, f <= k, IsFor(w, s)
      PROVE  s.read + x <= y + MaxLag + Slack(k)
  <2>1. s.read + x <= y + MaxLag + Slack(f)
    BY <1>2 DEF Paces
  <2>2. Slack(f) <= Slack(k) /\ Slack(f) \in Nat /\ Slack(k) \in Nat
    BY <1>2, SlackGrows, SlackStep
  <2>3. s.read \in Nat /\ MaxLag \in Nat
    BY <1>2, HeartbeatAssumption
  <2> QED
    BY <2>1, <2>2, <2>3
<1>3. ASSUME NEW k \in Nat, f <= k
      PROVE  Paces(w, P, d, s, k, x, y)
  <2>1. CASE IsFor(w, s)
    <3>1. InPace(P, d, k + 1, x, y)
      BY <1>1, <1>3, <2>1, PaceWeakens
    <3> QED
      BY <1>2, <1>3, <2>1, <3>1 DEF Paces
  <2>2. CASE ~IsFor(w, s)
    <3>1. InPace(P, d, k, x, y)
      BY <1>1, <1>3, <2>2, PaceWeakens
    <3> QED
      BY <2>2, <3>1 DEF Paces
  <2> QED
    BY <2>1, <2>2
<1>4. ASSUME \A u \in P : u < d
      PROVE  Paces(w, P \cup {d}, d + HEARTBEAT_INTERVAL, s, f, x, y)
  <2>1. InPace(P \cup {d}, d + HEARTBEAT_INTERVAL, n, x, y)
    BY <1>1, <1>4, PaceSends
  <2> QED
    BY <2>1 DEF Paces
<1>5. ASSUME \A u \in P : u < d
      PROVE  Paces(w, P, d + HEARTBEAT_INTERVAL, s, f + 1, x, y)
  <2>1. InPace(P, d + HEARTBEAT_INTERVAL, n + 1, x, y)
    BY <1>1, <1>5, PaceLoses
  <2>2. n + 1 = IF IsFor(w, s) THEN (f + 1) + 1 ELSE f + 1
    OBVIOUS
  <2>3. IsFor(w, s) => s.read + x <= y + MaxLag + Slack(f + 1)
    BY <1>2
  <2> QED
    BY <2>1, <2>2, <2>3 DEF Paces
<1>6. ASSUME IsFor(w, s)
      PROVE  Paces(w, P, d, None, f + 1, x, y)
  BY <1>1, <1>6 DEF Paces, IsFor
<1> QED
  BY <1>3, <1>4, <1>5, <1>6

\* The first beat becomes the SET.
LEMMA PacesTake ==
    ASSUME NEW P \in SUBSET Nat, IsFiniteSet(P), NEW d \in Nat, NEW f \in Nat,
           NEW x \in Nat, NEW y \in Nat, NEW w, NEW s,
           Paces(w, P, d, None, f, x, y),
           NEW p \in P, \A u \in P : p <= u, p < d,
           IsFor(w, s), s.read \in Nat, s.read <= p + MaxLag
    PROVE  Paces(w, P \ {p}, d, s, f, x, y)
<1>1. InPace(P, d, f, x, y)
  BY DEF Paces, IsFor
<1>2. InPace(P \ {p}, d, f + 1, x, y) /\ p + x <= y + Slack(f)
  BY <1>1, PaceTakes
<1>3. Slack(f) \in Nat /\ MaxLag \in Nat /\ p \in Nat
  BY SlackStep, HeartbeatAssumption
<1>4. s.read + x <= y + MaxLag + Slack(f)
  BY <1>2, <1>3
<1> QED
  BY <1>2, <1>4 DEF Paces

\* What has been written recently enough is in pace.
LEMMA PacesFresh ==
    ASSUME NEW P \in SUBSET Nat, IsFiniteSet(P), NEW d \in Nat, NEW f \in Nat,
           NEW x \in Nat, NEW y \in Nat, NEW w, NEW s,
           \A u \in P : u < d,
           IsFor(w, s) => s.read \in Nat /\ s.read <= d,
           d + x <= y
    PROVE  Paces(w, P, d, s, f, x, y)
<1>1. \A t \in P \cup {d} : t + x <= y
  OBVIOUS
<1>2. InPace(P, d, IF IsFor(w, s) THEN f + 1 ELSE f, x, y)
  BY <1>1, PaceStarts
<1>3. Slack(f) \in Nat /\ MaxLag \in Nat
  BY SlackStep, HeartbeatAssumption
<1>4. IsFor(w, s) => s.read + x <= y + MaxLag + Slack(f)
  BY <1>3
<1> QED
  BY <1>2, <1>4 DEF Paces

\* What is pending is a finite set of times before the next beat.
LEMMA PendingType ==
    ASSUME TypeOK, QueueInv, NEW m \in Replica, NEW w \in Worker
    PROVE  /\ Pending(m, w) \in SUBSET Nat
           /\ IsFiniteSet(Pending(m, w))
           /\ \A u \in Pending(m, w) : u <= now
           /\ due[w] # None => \A u \in Pending(m, w) : u < due[w]
           /\ up[m] /\ ~behind[m] => \A u \in Pending(m, w) : now <= u + MaxLag
<1>1. /\ now \in Nat
      /\ HEARTBEAT_INTERVAL \in Nat /\ HEARTBEAT_INTERVAL > 0
      /\ due[w] # None => due[w] \in Nat
      /\ \A i \in 1..Len(queue[m]) : queue[m][i].sent \in Nat
  BY Numbers
<1>2. \A i \in 1..Len(queue[m]) :
         /\ queue[m][i].sent <= now
         /\ queue[m][i].worker = w /\ due[w] # None =>
               queue[m][i].sent + HEARTBEAT_INTERVAL <= due[w]
         /\ up[m] /\ ~behind[m] => now <= queue[m][i].sent + MaxLag
  BY DatedBeat DEF QueueInv, Dated, Prompt
<1>3. \A u \in Pending(m, w) :
         \E i \in 1..Len(queue[m]) : queue[m][i].worker = w /\ u = queue[m][i].sent
  BY DEF Pending
<1>4. Pending(m, w) \in SUBSET Nat /\ \A u \in Pending(m, w) : u <= now
  BY <1>1, <1>2, <1>3
<1>5. IsFiniteSet(Pending(m, w))
  BY <1>1, <1>4, FS_BoundedSetOfNaturals
<1> QED
  BY <1>1, <1>2, <1>3, <1>4, <1>5

\* A beat that is sent is pending at every replica.
LEMMA PendingSent ==
    ASSUME TypeOK, NEW v \in Worker, SendHeartbeat(v),
           NEW m \in Replica, NEW w \in Worker
    PROVE  Pending(m, w)' = IF w = v THEN Pending(m, w) \cup {now} ELSE Pending(m, w)
<1> DEFINE beat == [worker |-> v, sent |-> now, stamp |-> Truncated(now)]
           n == Len(queue[m])
<1>1. queue[m] \in Seq(Beat) /\ queue'[m] = Append(queue[m], beat) /\ n \in Nat
  BY DEF TypeOK, SendHeartbeat
<1>2. /\ Len(queue'[m]) = n + 1
      /\ \A i \in 1..n : queue'[m][i] = queue[m][i]
      /\ queue'[m][n + 1] = beat
  BY <1>1
<1>3. beat.worker = v /\ beat.sent = now
  OBVIOUS
<1> HIDE DEF n, beat
<1>4. 1..n + 1 = 1..n \cup {n + 1}
  BY <1>1
<1>5. /\ \A u : u \in Pending(m, w)' <=>
            \E i \in 1..n + 1 : queue'[m][i].worker = w /\ u = queue'[m][i].sent
      /\ \A u : u \in Pending(m, w) <=>
            \E i \in 1..n : queue[m][i].worker = w /\ u = queue[m][i].sent
  BY <1>2 DEF Pending, n
<1>6. CASE w = v
  <2>1. \A u : u \in Pending(m, w)' <=> u \in Pending(m, w) \/ u = now
    BY <1>2, <1>3, <1>4, <1>5, <1>6
  <2> QED
    BY <1>6, <2>1
<1>7. CASE w # v
  <2>1. \A u : u \in Pending(m, w)' <=> u \in Pending(m, w)
    BY <1>2, <1>3, <1>4, <1>5, <1>7
  <2> QED
    BY <1>7, <2>1
<1> QED
  BY <1>6, <1>7

\* A beat that is taken was the first one, and is no longer pending.
LEMMA PendingTaken ==
    ASSUME TypeOK, QueueInv, NEW r \in Replica, TakeBeat(r),
           NEW m \in Replica, NEW w \in Worker
    PROVE  IF m = r /\ Head(queue[r]).worker = w
           THEN LET p == Head(queue[r]).sent
                IN /\ p \in Pending(m, w)
                   /\ \A u \in Pending(m, w) : p <= u
                   /\ Pending(m, w)' = Pending(m, w) \ {p}
           ELSE Pending(m, w)' = Pending(m, w)
<1>1. /\ Len(queue'[r]) = Len(queue[r]) - 1
      /\ Len(queue[r]) \in Nat \ {0}
      /\ \A i \in 1..Len(queue'[r]) :
            i + 1 \in 1..Len(queue[r]) /\ queue'[r][i] = queue[r][i + 1]
      /\ Head(queue[r]) = queue[r][1]
      /\ \A q \in Replica : q # r => queue'[q] = queue[q]
  BY TailOf
<1>2. CASE m # r
  BY <1>1, <1>2 DEF Pending
<1>3. CASE m = r
  <2> DEFINE n == Len(queue[r])
  <2>1. n \in Nat /\ n >= 1 /\ 1..n = {1} \cup {i + 1 : i \in 1..n - 1}
    <3>1. n \in Nat /\ n >= 1
      BY <1>1
    <3>2. \A i \in 1..n : i = 1 \/ (i - 1 \in 1..n - 1 /\ i = (i - 1) + 1)
      BY <3>1
    <3>3. \A i \in 1..n - 1 : i + 1 \in 1..n
      BY <3>1
    <3> QED
      BY <3>1, <3>2, <3>3
  <2>2. \A i \in 1..n - 1 : queue'[r][i] = queue[r][i + 1]
    BY <1>1
  <2>3. Len(queue'[r]) = n - 1
    BY <1>1
  <2> HIDE DEF n
  <2>4. /\ \A u : u \in Pending(r, w)' <=>
              \E i \in 1..n - 1 : /\ queue[r][i + 1].worker = w
                                  /\ u = queue[r][i + 1].sent
        /\ \A u : u \in Pending(r, w) <=>
              \E i \in 1..n : queue[r][i].worker = w /\ u = queue[r][i].sent
    BY <2>2, <2>3 DEF Pending, n
  <2>5. \A u : u \in Pending(r, w) <=>
           \/ queue[r][1].worker = w /\ u = queue[r][1].sent
           \/ u \in Pending(r, w)'
    BY <2>1, <2>4
  <2>6. CASE queue[r][1].worker # w
    <3>1. Pending(r, w)' = Pending(r, w)
      BY <2>5, <2>6
    <3> QED
      BY <1>1, <1>3, <2>6, <3>1
  <2>7. CASE queue[r][1].worker = w
    <3> DEFINE p == queue[r][1].sent
    <3>1. \A i \in 1..n - 1 : queue[r][i + 1].worker = w => p < queue[r][i + 1].sent
      <4>1. \A i \in 1..n - 1 : i + 1 \in 1..n /\ 1 \in 1..(i + 1) - 1
        BY <2>1
      <4> QED
        BY <2>7, <4>1 DEF QueueInv, Ordered, n
    <3>2. /\ p \in Nat
          /\ \A i \in 1..n : queue[r][i].sent \in Nat
      BY <2>1, Numbers DEF n
    <3>3. \A u \in Pending(r, w)' : u \in Nat /\ p < u
      <4>1. \A i \in 1..n - 1 : i + 1 \in 1..n
        BY <2>1
      <4> QED
        BY <2>4, <3>1, <3>2, <4>1
    <3>4. \A u : u \in Pending(r, w) <=> u = p \/ u \in Pending(r, w)'
      BY <2>5, <2>7
    <3> HIDE DEF p
    <3>5. p \in Pending(r, w) /\ \A u \in Pending(r, w) : p <= u
      BY <3>2, <3>3, <3>4
    <3>6. p \notin Pending(r, w)'
      BY <3>2, <3>3
    <3>7. Pending(r, w)' = Pending(r, w) \ {p}
      BY <3>4, <3>6
    <3> QED
      BY <1>1, <1>3, <2>7, <3>5, <3>7 DEF p
  <2> QED
    BY <2>6, <2>7
<1> QED
  BY <1>2, <1>3

\* The timeout is also longer than a beat can be old when it is taken.
LEMMA TimeoutAge ==
    ASSUME TimeoutSuffices
    PROVE  /\ SECOND + MaxLag <= HEARTBEAT_TIMEOUT
           /\ Disorder \in Nat
<1>1. /\ SECOND \in Nat /\ MaxLag \in Nat /\ MaxStall \in Nat
      /\ HEARTBEAT_TIMEOUT \in Nat
      /\ HEARTBEAT_INTERVAL \in Nat /\ MaxFaults \in Nat
  BY HeartbeatAssumption
<1>2. Disorder \in Nat
  BY <1>1 DEF Disorder
<1>3. (MaxFaults + 1) * HEARTBEAT_INTERVAL \in Nat
  BY <1>1
<1> QED
  BY <1>1, <1>2, <1>3 DEF TimeoutSuffices

\* A key that is written with a beat that is not old lives on until long after
\* the next beat: what is written in the order of sending is at most a second
\* old in its stamp, and anything else at most MaxLag more.
LEMMA FreshWrite ==
    ASSUME OrderInv, NEW r \in Replica, Write(r), NEW w \in Worker,
           w = setting[r].worker, w \notin late',
           due[w] # None, last_beat[w] # None
    PROVE  due[w] + (HEARTBEAT_TIMEOUT + 1)
              <= key'[w].until + SECOND + HEARTBEAT_INTERVAL + Disorder
<1> DEFINE s == setting[r]
<1>1. TypeOK /\ SetInv /\ Stamped(r) /\ s # None
  BY DEF OrderInv, IInv, QueueInv, Write
<1>2. /\ s.stamp \in Nat /\ s.read \in Nat /\ s.px \in Nat
  <2>1. s \in Setting
    BY <1>1 DEF TypeOK
  <2> QED
    BY <2>1, HeartbeatAssumption DEF Setting, Time
<1>3. key'[w].until = now + s.px
  BY <1>1 DEF TypeOK, Write
<1>4. s.read < s.stamp + SECOND + MaxLag
  <2>1. ~(s.stamp + SECOND + MaxLag <= s.read)
    BY DEF Write
  <2> QED
    BY <1>2, <2>1, HeartbeatAssumption
<1>5. /\ s.px + s.read = s.stamp + HEARTBEAT_TIMEOUT
      /\ s.read <= now /\ now <= s.read + MaxStall
  BY <1>1 DEF SetInv
<1>6. /\ due[w] <= now + HEARTBEAT_INTERVAL
      /\ due[w] \in Nat /\ now \in Nat
  BY <1>1, Numbers DEF OrderInv, DueInv
<1>7. \/ s.stamp + 2 * HEARTBEAT_INTERVAL <= due[w]
      \/ due[w] < s.stamp + SECOND + HEARTBEAT_INTERVAL
  BY <1>1 DEF Stamped
<1>8. /\ SECOND \in Nat /\ MaxLag \in Nat /\ MaxStall \in Nat
      /\ HEARTBEAT_TIMEOUT \in Nat /\ HEARTBEAT_INTERVAL \in Nat
  BY HeartbeatAssumption
<1> HIDE DEF s
<1>9. due[w] + 1 + s.read <= now + s.stamp + SECOND + HEARTBEAT_INTERVAL + Disorder
  <2>1. CASE SECOND + MaxLag + MaxStall <= HEARTBEAT_INTERVAL
    <3>1. due[w] < s.stamp + SECOND + HEARTBEAT_INTERVAL
      BY <1>2, <1>4, <1>5, <1>6, <1>7, <1>8, <2>1
    <3>2. Disorder = 0
      BY <2>1 DEF Disorder
    <3> QED
      BY <1>2, <1>5, <1>6, <1>8, <3>1, <3>2
  <2>2. CASE ~(SECOND + MaxLag + MaxStall <= HEARTBEAT_INTERVAL)
    <3>1. Disorder = MaxLag
      BY <2>2 DEF Disorder
    <3> QED
      BY <1>2, <1>4, <1>6, <1>8, <3>1
  <2> QED
    BY <2>1, <2>2
<1>10. Disorder \in Nat
  BY <1>8 DEF Disorder
<1> QED
  BY <1>2, <1>3, <1>5, <1>6, <1>8, <1>9, <1>10

\* What does not concern w and m at all leaves them in pace.
LEMMA PacesSame ==
    ASSUME TypeOK, QueueInv, NEW m \in Replica, NEW w \in Worker,
           NEW x \in Nat, NEW y \in Nat, due[w] # None,
           Paces(w, Pending(m, w), due[w], setting[m], faults, x, y),
           Pending(m, w)' = Pending(m, w), due'[w] = due[w],
           \/ setting'[m] = setting[m]
           \/ ~IsFor(w, setting[m]) /\ ~IsFor(w, setting'[m]),
           faults' = faults \/ faults' = faults + 1
    PROVE  Paces(w, Pending(m, w)', due'[w], setting'[m], faults', x, y)
<1>1. /\ Pending(m, w) \in SUBSET Nat /\ IsFiniteSet(Pending(m, w))
      /\ due[w] \in Nat /\ faults \in Nat
      /\ IsFor(w, setting[m]) => setting[m].read \in Nat
  BY PendingType, Numbers DEF IsFor
<1>2. Paces(w, Pending(m, w), due[w], setting[m], faults', x, y)
  <2>1. faults' \in Nat /\ faults <= faults'
    BY <1>1
  <2> HIDE DEF Pending
  <2> QED
    BY <1>1, <2>1, PacesSteps
<1> QED
  BY <1>2 DEF Paces

\* Both kinds of Paces: the one before the step, and its numbers.
LEMMA PacesNumbers ==
    ASSUME OrderInv, NEW m \in Replica, NEW w \in Worker, heard[m][w] # None
    PROVE  /\ TypeOK /\ QueueInv
           /\ up[m] /\ ~behind[m] /\ due[w] # None /\ last_beat[w] # None
           /\ Pending(m, w) \in SUBSET Nat /\ IsFiniteSet(Pending(m, w))
           /\ \A u \in Pending(m, w) : u <= now /\ u < due[w] /\ now <= u + MaxLag
           /\ due[w] \in Nat /\ faults \in Nat /\ now \in Nat
           /\ now <= due[w] /\ due[w] <= now + HEARTBEAT_INTERVAL
           /\ IsFor(w, setting[m]) =>
                 /\ setting[m].read \in Nat
                 /\ setting[m].read <= now
                 /\ now <= setting[m].read + MaxStall
<1>1. TypeOK /\ QueueInv /\ SetInv
  BY DEF OrderInv, IInv
<1>2. up[m] /\ ~behind[m] /\ due[w] # None /\ last_beat[w] # None
  BY DEF OrderInv, HeardInv
<1>3. due[w] \in Nat /\ faults \in Nat /\ now \in Nat
  BY <1>1, <1>2, Numbers
<1>4. now <= due[w] /\ due[w] <= now + HEARTBEAT_INTERVAL
  BY <1>2 DEF OrderInv, DueInv
<1>5. IsFor(w, setting[m]) =>
         /\ setting[m].read \in Nat
         /\ setting[m].read <= now
         /\ now <= setting[m].read + MaxStall
  BY <1>1, Numbers DEF IsFor, SetInv
<1> QED
  BY <1>1, <1>2, <1>3, <1>4, <1>5, PendingType

\* A step of the worker.
LEMMA WorkerPaces ==
    ASSUME OrderInv, NEW m \in Replica, NEW w \in Worker,
           heard[m][w] # None, heard'[m][w] # None,
           NEW v \in Worker, SendHeartbeat(v) \/ LoseHeartbeat(v) \/ StopWorker(v),
           NEW x \in Nat, NEW y \in Nat,
           Paces(w, Pending(m, w), due[w], setting[m], faults, x, y)
    PROVE  Paces(w, Pending(m, w)', due'[w], setting'[m], faults', x, y)
<1> DEFINE P == Pending(m, w)
           d == due[w]
           s == setting[m]
           f == faults
<1>1. /\ TypeOK /\ QueueInv /\ due[w] # None
      /\ P \in SUBSET Nat /\ IsFiniteSet(P) /\ \A u \in P : u < d
      /\ d \in Nat /\ f \in Nat /\ now \in Nat
      /\ IsFor(w, s) => s.read \in Nat
  BY PacesNumbers
<1>2. /\ \A k \in Nat : f <= k => Paces(w, P, d, s, k, x, y)
      /\ Paces(w, P \cup {d}, d + HEARTBEAT_INTERVAL, s, f, x, y)
      /\ Paces(w, P, d + HEARTBEAT_INTERVAL, s, f + 1, x, y)
  <2> HIDE DEF P, d, s, f
  <2> QED
    BY <1>1, PacesSteps DEF P, d, s, f
<1>3. CASE SendHeartbeat(v)
  <2>1. P' = IF w = v THEN P \cup {now} ELSE P
    BY <1>1, <1>3, PendingSent
  <2>2. /\ due' = [due EXCEPT ![v] = now + HEARTBEAT_INTERVAL] /\ due[v] = now
        /\ setting' = setting /\ faults' = faults
    BY <1>3 DEF SendHeartbeat
  <2>3. CASE w = v
    <3>1. P' = P \cup {d} /\ d' = d + HEARTBEAT_INTERVAL /\ s' = s /\ f' = f
      BY <1>1, <2>1, <2>2, <2>3 DEF TypeOK
    <3> HIDE DEF P, d, s, f
    <3>2. Paces(w, P', d', s', f', x, y)
      BY <1>2, <3>1
    <3> QED
      BY <3>2 DEF P, d, s, f
  <2>4. CASE w # v
    <3>1. P' = P /\ d' = d
      BY <1>1, <2>1, <2>2, <2>4 DEF TypeOK
    <3> QED
      BY <1>1, <2>2, <3>1, PacesSame
  <2> QED
    BY <2>3, <2>4
<1>4. CASE LoseHeartbeat(v)
  <2>1. /\ due' = [due EXCEPT ![v] = now + HEARTBEAT_INTERVAL] /\ due[v] = now
        /\ setting' = setting /\ faults' = faults + 1 /\ queue' = queue
    BY <1>4 DEF LoseHeartbeat, Fault, replicaVars
  <2>2. P' = P
    BY <2>1 DEF Pending
  <2>3. CASE w = v
    <3>1. d' = d + HEARTBEAT_INTERVAL
      BY <1>1, <2>1, <2>3 DEF TypeOK
    <3>2. s' = s /\ f' = f + 1
      BY <2>1
    <3> HIDE DEF P, d, s, f
    <3>3. Paces(w, P', d', s', f', x, y)
      BY <1>2, <2>2, <3>1, <3>2
    <3> QED
      BY <3>3 DEF P, d, s, f
  <2>4. CASE w # v
    <3>1. d' = d
      BY <1>1, <2>1, <2>4 DEF TypeOK
    <3> QED
      BY <1>1, <2>1, <2>2, <3>1, PacesSame
  <2> QED
    BY <2>3, <2>4
<1>5. CASE StopWorker(v)
  <2>1. w # v
    BY <1>1, <1>5 DEF StopWorker, TypeOK
  <2>2. d' = d /\ setting' = setting /\ faults' = faults /\ queue' = queue
    BY <1>1, <1>5, <2>1 DEF StopWorker, TypeOK
  <2>3. P' = P
    BY <2>2 DEF Pending
  <2> QED
    BY <1>1, <2>2, <2>3, PacesSame
<1> QED
  BY <1>3, <1>4, <1>5

\* A beat is taken: as it is not old, a SET follows.
LEMMA TakePaces ==
    ASSUME TimeoutSuffices, OrderInv, NEW m \in Replica, NEW w \in Worker,
           heard[m][w] # None, NEW r \in Replica, TakeBeat(r),
           NEW x \in Nat, NEW y \in Nat,
           Paces(w, Pending(m, w), due[w], setting[m], faults, x, y)
    PROVE  Paces(w, Pending(m, w)', due'[w], setting'[m], faults', x, y)
<1> DEFINE P == Pending(m, w)
           beat == Head(queue[r])
<1>1. /\ TypeOK /\ QueueInv /\ due[w] # None
      /\ P \in SUBSET Nat /\ IsFiniteSet(P)
      /\ \A u \in P : u < due[w] /\ now <= u + MaxLag
      /\ due[w] \in Nat /\ faults \in Nat /\ now \in Nat
  BY PacesNumbers
<1>2. due' = due /\ faults' = faults
  BY DEF TakeBeat, workerVars
<1>3. IF m = r /\ beat.worker = w
      THEN /\ beat.sent \in P
           /\ \A u \in P : beat.sent <= u
           /\ P' = P \ {beat.sent}
      ELSE P' = P
  BY <1>1, PendingTaken
<1>4. CASE m # r
  <2>1. setting'[m] = setting[m]
    BY <1>1, <1>4 DEF TakeBeat, TypeOK
  <2> QED
    BY <1>1, <1>2, <1>3, <1>4, <2>1, PacesSame
<1>5. ASSUME m = r
      PROVE  /\ setting[m] = None
             /\ setting'[m] = IF Remaining(beat.stamp) = 0 THEN None
                              ELSE [worker |-> beat.worker, stamp |-> beat.stamp,
                                    px |-> Remaining(beat.stamp), read |-> now]
  BY <1>1, <1>5 DEF TakeBeat, TypeOK
<1>6. CASE m = r /\ beat.worker # w
  <2>1. ~IsFor(w, setting[m]) /\ ~IsFor(w, setting'[m])
    BY <1>5, <1>6 DEF IsFor
  <2> QED
    BY <1>1, <1>2, <1>3, <1>6, <2>1, PacesSame
<1>7. CASE m = r /\ beat.worker = w
  <2>1. /\ beat.sent \in P /\ \A u \in P : beat.sent <= u
        /\ P' = P \ {beat.sent}
    BY <1>3, <1>7
  <2>2. /\ beat.sent \in Nat /\ beat.stamp \in Nat
        /\ beat.sent < beat.stamp + SECOND
    <3>1. beat = queue[m][1] /\ 1 \in 1..Len(queue[m])
      BY <1>1, <1>7 DEF TakeBeat, TypeOK
    <3> HIDE DEF beat
    <3> QED
      BY <1>1, <3>1, Numbers DEF QueueInv, Dated
  <2>3. Remaining(beat.stamp) # 0
    <3>1. now <= beat.sent + MaxLag
      BY <1>1, <2>1
    <3>2. now < beat.stamp + HEARTBEAT_TIMEOUT
      <4> HIDE DEF beat
      <4> QED
        BY <1>1, <2>2, <3>1, TimeoutAge, HeartbeatAssumption
    <3> HIDE DEF beat
    <3> QED
      BY <1>1, <2>2, <3>2, HeartbeatAssumption DEF Remaining
  <2>4. setting'[m] = [worker |-> beat.worker, stamp |-> beat.stamp,
                       px |-> Remaining(beat.stamp), read |-> now]
    BY <1>5, <1>7, <2>3
  <2>5. setting'[m] # None /\ setting'[m].worker = w /\ setting'[m].read = now
    <3>1. setting'[m].worker = w /\ setting'[m].read = now
      BY <1>7, <2>4
    <3>2. setting'[m] \in Setting
      <4>1. beat \in Beat /\ Remaining(beat.stamp) \in 0..HEARTBEAT_TIMEOUT
        <5>1. beat \in Beat /\ beat.stamp <= now
          BY <1>1, HeadTold DEF OrderInv, IInv, TakeBeat
        <5> HIDE DEF beat
        <5> QED
          BY <1>1, <2>2, <5>1, RemainingType
      <4> HIDE DEF beat
      <4>2. now \in Time
        BY <1>1 DEF TypeOK
      <4> QED
        BY <2>3, <2>4, <4>1, <4>2, HeartbeatAssumption DEF Setting, Beat
    <3> QED
      BY <3>1, <3>2, SettingAssumption
  <2>6. /\ IsFor(w, setting'[m]) /\ setting'[m].read \in Nat
        /\ setting'[m].read <= beat.sent + MaxLag
    BY <1>1, <2>1, <2>5 DEF IsFor
  <2>7. Paces(w, P, due[w], None, faults, x, y)
    BY <1>5, <1>7
  <2>8. Paces(w, P \ {beat.sent}, due[w], setting'[m], faults, x, y)
    <3> HIDE DEF P, beat
    <3> QED
      BY <1>1, <2>1, <2>6, <2>7, PacesTake
  <2> QED
    BY <1>2, <2>1, <2>8
<1> QED
  BY <1>4, <1>6, <1>7

\* The other steps of a replica, but for a SET of the key of w.
LEMMA ReplicaPaces ==
    ASSUME OrderInv, NEW m \in Replica, NEW w \in Worker,
           heard[m][w] # None, heard'[m][w] # None,
           NEW r \in Replica,
           \/ (SetKey(r) \/ SetKeyTwice(r)) /\ ~IsFor(w, setting[r])
           \/ SetKeyFails(r) \/ StopReplica(r) \/ StartReplica(r),
           NEW x \in Nat, NEW y \in Nat,
           Paces(w, Pending(m, w), due[w], setting[m], faults, x, y)
    PROVE  Paces(w, Pending(m, w)', due'[w], setting'[m], faults', x, y)
<1> DEFINE P == Pending(m, w)
           d == due[w]
           s == setting[m]
           f == faults
<1>1. /\ TypeOK /\ QueueInv /\ due[w] # None /\ up[m]
      /\ P \in SUBSET Nat /\ IsFiniteSet(P) /\ \A u \in P : u < d
      /\ d \in Nat /\ f \in Nat /\ now \in Nat
      /\ IsFor(w, s) => s.read \in Nat
  BY PacesNumbers
<1>2. /\ due' = due
      /\ faults' = faults \/ faults' = faults + 1
  BY DEF SetKey, SetKeyTwice, SetKeyFails, StopReplica, StartReplica, Fault,
         workerVars
<1>3. queue'[m] = queue[m]
  <2>1. CASE StartReplica(r)
    <3>1. r # m
      BY <1>1, <2>1 DEF StartReplica
    <3> QED
      BY <1>1, <2>1, <3>1 DEF StartReplica, TypeOK
  <2> QED
    BY <2>1 DEF SetKey, SetKeyTwice, SetKeyFails, StopReplica, replicaVars
<1>4. P' = P
  BY <1>3 DEF Pending
<1>5. ASSUME setting'[m] = setting[m] \/ (~IsFor(w, s) /\ ~IsFor(w, setting'[m]))
      PROVE  Paces(w, P', due'[w], setting'[m], faults', x, y)
  BY <1>1, <1>2, <1>4, <1>5, PacesSame
<1>6. CASE SetKeyFails(r) /\ r = m /\ IsFor(w, s)
  <2>1. setting'[m] = None /\ faults' = f + 1
    BY <1>1, <1>6 DEF SetKeyFails, Fault, TypeOK
  <2>2. Paces(w, P, d, None, f + 1, x, y)
    <3> HIDE DEF P, d, s, f
    <3> QED
      BY <1>1, <1>6, PacesSteps DEF P, d, s, f
  <2> QED
    BY <1>2, <1>4, <2>1, <2>2
<1>7. CASE ~(SetKeyFails(r) /\ r = m /\ IsFor(w, s))
  <2>1. CASE r # m \/ SetKeyTwice(r) \/ StartReplica(r)
    <3>1. setting'[m] = setting[m]
      BY <1>1, <2>1 DEF TypeOK, SetKey, SetKeyTwice, SetKeyFails, StopReplica,
                        StartReplica, replicaVars
    <3> QED
      BY <1>5, <3>1
  <2>2. CASE r = m /\ (SetKey(r) \/ SetKeyFails(r)) /\ ~IsFor(w, s)
    <3>1. setting'[m] = None
      BY <1>1, <2>2 DEF TypeOK, SetKey, SetKeyFails
    <3> QED
      BY <1>5, <2>2, <3>1 DEF IsFor
  <2>3. CASE r = m /\ StopReplica(r)
    <3>1. heard'[m][w] = None
      BY <1>1, <2>3 DEF TypeOK, StopReplica
    <3> QED
      BY <3>1
  <2> QED
    BY <1>7, <2>1, <2>2, <2>3
<1> QED
  BY <1>6, <1>7

\* No step but a SET of its key puts w out of pace at a replica that goes on
\* hearing it.
LEMMA NextPaces ==
    ASSUME TimeoutSuffices, OrderInv, [Next]_vars,
           NEW m \in Replica, NEW w \in Worker,
           heard[m][w] # None, heard'[m][w] # None,
           ~\E r \in Replica :
                (SetKey(r) \/ SetKeyTwice(r)) /\ IsFor(w, setting[r]),
           NEW x \in Nat, NEW y \in Nat,
           Paces(w, Pending(m, w), due[w], setting[m], faults, x, y)
    PROVE  Paces(w, Pending(m, w)', due'[w], setting'[m], faults', x, y)
<1>1. ASSUME NEW v \in Worker, SendHeartbeat(v) \/ LoseHeartbeat(v) \/ StopWorker(v)
      PROVE  Paces(w, Pending(m, w)', due'[w], setting'[m], faults', x, y)
  BY <1>1, WorkerPaces
<1>2. ASSUME NEW r \in Replica, TakeBeat(r)
      PROVE  Paces(w, Pending(m, w)', due'[w], setting'[m], faults', x, y)
  BY <1>2, TakePaces
<1>3. ASSUME NEW r \in Replica,
             \/ SetKey(r) \/ SetKeyTwice(r) \/ SetKeyFails(r)
             \/ StopReplica(r) \/ StartReplica(r)
      PROVE  Paces(w, Pending(m, w)', due'[w], setting'[m], faults', x, y)
  BY <1>3, ReplicaPaces
<1>4. ASSUME ScanActive \/ ScanAll \/ Report \/ Tick \/ UNCHANGED vars
      PROVE  Paces(w, Pending(m, w)', due'[w], setting'[m], faults', x, y)
  <2>1. queue' = queue /\ due' = due /\ setting' = setting /\ faults' = faults
    BY <1>4 DEF ScanActive, ScanAll, Report, Tick, vars, workerVars, replicaVars
  <2>2. Pending(m, w)' = Pending(m, w)
    BY <2>1 DEF Pending
  <2> QED
    BY <2>1, <2>2
<1> QED
  BY <1>1, <1>2, <1>3, <1>4 DEF Next

\* A SET of the key by a replica that is not behind covers the beats to come,
\* whoever hears them.
LEMMA WriteCovers ==
    ASSUME OrderInv, NEW m \in Replica, NEW w \in Worker,
           heard[m][w] # None,
           NEW r \in Replica, SetKey(r) \/ SetKeyTwice(r), IsFor(w, setting[r])
    PROVE  Covered(m, w)'
<1> DEFINE P == Pending(m, w)
           y == key'[w].until + SECOND + HEARTBEAT_INTERVAL + Disorder
<1>1. /\ TypeOK /\ due[w] # None /\ last_beat[w] # None
      /\ P \in SUBSET Nat /\ IsFiniteSet(P) /\ \A u \in P : u < due[w]
      /\ due[w] \in Nat /\ faults \in Nat /\ now \in Nat /\ now <= due[w]
      /\ IsFor(w, setting[m]) => setting[m].read \in Nat /\ setting[m].read <= now
  BY PacesNumbers
<1>2. Write(r) /\ w = setting[r].worker
  BY DEF SetKey, SetKeyTwice, IsFor
<1>3. /\ due' = due /\ queue' = queue
      /\ setting'[m] = setting[m] \/ setting'[m] = None
      /\ faults' = faults \/ faults' = faults + 1
  BY <1>1 DEF SetKey, SetKeyTwice, Fault, TypeOK, workerVars, replicaVars
<1>4. P' = P
  BY <1>3 DEF Pending
<1> SUFFICES ASSUME w \notin late'
             PROVE  PacedBy(m, w, HEARTBEAT_TIMEOUT + 1,
                            key[w].until + SECOND + HEARTBEAT_INTERVAL + Disorder)'
  BY DEF Covered
<1>5. due[w] + (HEARTBEAT_TIMEOUT + 1) <= y
  BY <1>1, <1>2, FreshWrite
<1>6. y \in Nat /\ HEARTBEAT_TIMEOUT + 1 \in Nat /\ faults' \in Nat
  <2>1. TypeOK'
    BY OrderStep, ReplicaType DEF OrderInv, IInv
  <2>2. key'[w].until \in Nat
    BY <2>1 DEF TypeOK, Key
  <2>3. Disorder \in Nat
    BY HeartbeatAssumption DEF Disorder
  <2> QED
    BY <1>1, <1>3, <2>2, <2>3, HeartbeatAssumption
<1>7. IsFor(w, setting'[m]) => setting'[m].read \in Nat /\ setting'[m].read <= due[w]
  BY <1>1, <1>3 DEF IsFor
<1>8. Paces(w, P, due[w], setting'[m], faults', HEARTBEAT_TIMEOUT + 1, y)
  <2> HIDE DEF P, y
  <2> QED
    BY <1>1, <1>5, <1>6, <1>7, PacesFresh
<1>9. Paces(w, P', due'[w], setting'[m], faults', HEARTBEAT_TIMEOUT + 1, y)
  BY <1>3, <1>4, <1>8
<1> QED
  BY <1>9 DEF PacedBy

\* A replica begins to hear a worker with a beat, and stays with it.
LEMMA HeardNext ==
    ASSUME TypeOK, [Next]_vars, NEW m \in Replica, NEW w \in Worker,
           heard'[m][w] # None
    PROVE  \/ heard'[m][w] = heard[m][w]
           \/ /\ SendHeartbeat(w) /\ up[m] /\ ~behind[m]
              /\ heard'[m][w] = now
<1>1. CASE \E v \in Worker : SendHeartbeat(v)
  <2>1. PICK v \in Worker : SendHeartbeat(v)
    BY <1>1
  <2>2. heard'[m] = IF up[m] /\ ~behind[m] /\ heard[m][v] = None
                    THEN [heard[m] EXCEPT ![v] = now] ELSE heard[m]
    BY <2>1 DEF SendHeartbeat
  <2>3. heard[m] \in [Worker -> Time \cup {None}]
    BY DEF TypeOK
  <2>4. CASE v = w
    BY <2>1, <2>2, <2>3, <2>4
  <2>5. CASE v # w
    BY <2>2, <2>3, <2>5
  <2> QED
    BY <2>4, <2>5
<1>2. CASE \E v \in Worker : StopWorker(v)
  BY <1>2 DEF TypeOK, StopWorker
<1>3. CASE \E r \in Replica : StopReplica(r)
  BY <1>3 DEF TypeOK, StopReplica
<1>4. CASE heard' = heard
  BY <1>4
<1> QED
  BY <1>1, <1>2, <1>3, <1>4
     DEF Next, LoseHeartbeat, TakeBeat, SetKey, SetKeyTwice, SetKeyFails,
         StartReplica, ScanActive, ScanAll, Report, Tick, vars, replicaVars

\* The first beat that m hears of w is on time.
LEMMA FirstHeard ==
    ASSUME OrderInv, NEW m \in Replica, NEW w \in Worker, SendHeartbeat(w),
           up[m], ~behind[m]
    PROVE  Paces(w, Pending(m, w)', due'[w], setting'[m], faults', 0, now)
<1> DEFINE P == Pending(m, w)
           s == setting[m]
           f == faults
<1>1. TypeOK /\ QueueInv /\ SetInv /\ due[w] = now /\ now \in Nat /\ now # None
  BY Numbers, HeartbeatAssumption DEF OrderInv, IInv, SendHeartbeat
<1>2. P \in SUBSET Nat /\ IsFiniteSet(P) /\ \A u \in P : u < now
  BY <1>1, PendingType
<1>3. f \in Nat /\ (IsFor(w, s) => s.read \in Nat /\ s.read <= now)
  BY <1>1, Numbers DEF IsFor, SetInv
<1>4. Paces(w, P \cup {now}, now + HEARTBEAT_INTERVAL, s, f, 0, now)
  <2> HIDE DEF P, s, f
  <2>1. Paces(w, P, now, s, f, 0, now)
    <3>1. 0 \in Nat /\ now + 0 <= now
      BY <1>1
    <3> QED
      BY <1>1, <1>2, <1>3, <3>1, PacesFresh
  <2> QED
    BY <1>1, <1>2, <1>3, <2>1, PacesSteps
<1>5. P' = P \cup {now}
  BY <1>1, PendingSent
<1>6. /\ due'[w] = now + HEARTBEAT_INTERVAL
      /\ setting' = setting /\ faults' = faults
  BY <1>1 DEF TypeOK, SendHeartbeat
<1> QED
  BY <1>4, <1>5, <1>6

\* Every step keeps the beats in pace.
LEMMA PaceStep ==
    ASSUME TimeoutSuffices, OrderInv, PaceInv, [Next]_vars
    PROVE  PaceInv'
<1> SUFFICES ASSUME NEW m \in Replica, NEW w \in Worker, heard'[m][w] # None
             PROVE  \/ Paces(w, Pending(m, w)', due'[w], setting'[m], faults',
                             0, heard'[m][w])
                    \/ Covered(m, w)'
  BY DEF PaceInv, PacedBy
<1>1. TypeOK /\ TypeOK'
  BY OrderStep DEF OrderInv, IInv
<1>2. CASE heard'[m][w] # heard[m][w]
  <2>1. SendHeartbeat(w) /\ up[m] /\ ~behind[m] /\ heard'[m][w] = now
    BY <1>1, <1>2, HeardNext
  <2> QED
    BY <2>1, FirstHeard
<1>3. CASE heard'[m][w] = heard[m][w]
  <2> DEFINE set == \E r \in Replica :
                       (SetKey(r) \/ SetKeyTwice(r)) /\ IsFor(w, setting[r])
  <2>1. CASE set
    BY <1>3, <2>1, WriteCovers
  <2>2. CASE ~set
    <3>1. ASSUME NEW x \in Nat, NEW y \in Nat,
                 Paces(w, Pending(m, w), due[w], setting[m], faults, x, y)
          PROVE  Paces(w, Pending(m, w)', due'[w], setting'[m], faults', x, y)
      BY <1>3, <2>2, <3>1, NextPaces
    <3>2. CASE PacedBy(m, w, 0, heard[m][w])
      <4>1. heard[m][w] \in Nat
        BY <1>1, <1>3 DEF TypeOK, Time
      <4>2. Paces(w, Pending(m, w), due[w], setting[m], faults, 0, heard[m][w])
        BY <3>2 DEF PacedBy
      <4> QED
        BY <1>3, <3>1, <4>1, <4>2
    <3>3. CASE Covered(m, w)
      <4> DEFINE y == key[w].until + SECOND + HEARTBEAT_INTERVAL + Disorder
      <4>1. key'[w] = key[w] /\ (w \in late => w \in late')
        <5>1. CASE \E r \in Replica : SetKey(r) \/ SetKeyTwice(r)
          <6>1. PICK r \in Replica : SetKey(r) \/ SetKeyTwice(r)
            BY <5>1
          <6>2. Write(r) /\ setting[r].worker # w
            BY <2>2, <6>1 DEF SetKey, SetKeyTwice, Write, IsFor
          <6> QED
            BY <1>1, <6>2 DEF TypeOK, Write
        <5>2. CASE ~\E r \in Replica : SetKey(r) \/ SetKeyTwice(r)
          <6>1. key' = key /\ late' = late
            BY <5>2
               DEF Next, SendHeartbeat, LoseHeartbeat, StopWorker, TakeBeat,
                   SetKeyFails, StopReplica, StartReplica, ScanActive, ScanAll,
                   Report, Tick, vars, keyVars
          <6> QED
            BY <6>1
        <5> QED
          BY <5>1, <5>2
      <4>2. CASE w \in late
        BY <4>1, <4>2 DEF Covered
      <4>3. CASE w \notin late
        <5>1. y \in Nat /\ HEARTBEAT_TIMEOUT + 1 \in Nat
          <6>1. key[w].until \in Nat /\ Disorder \in Nat
            BY <1>1, Numbers, TimeoutAge
          <6> QED
            BY <6>1, HeartbeatAssumption
        <5>2. Paces(w, Pending(m, w), due[w], setting[m], faults,
                    HEARTBEAT_TIMEOUT + 1, y)
          BY <3>3, <4>3 DEF Covered, PacedBy
        <5>3. Paces(w, Pending(m, w)', due'[w], setting'[m], faults',
                    HEARTBEAT_TIMEOUT + 1, y)
          <6> HIDE DEF y
          <6> QED
            BY <3>1, <5>1, <5>2
        <5>4. y = key'[w].until + SECOND + HEARTBEAT_INTERVAL + Disorder
          BY <4>1
        <5>5. PacedBy(m, w, HEARTBEAT_TIMEOUT + 1,
                      key[w].until + SECOND + HEARTBEAT_INTERVAL + Disorder)'
          <6> HIDE DEF y
          <6> QED
            BY <5>3, <5>4 DEF PacedBy
        <5> QED
          BY <5>5 DEF Covered
      <4> QED
        BY <4>2, <4>3
    <3> QED
      BY <1>3, <3>2, <3>3 DEF PaceInv
  <2> QED
    BY <2>1, <2>2
<1> QED
  BY <1>2, <1>3

\* The beat that comes next, or is being written, is not long ago.
LEMMA PacesEnds ==
    ASSUME OrderInv, NEW m \in Replica, NEW w \in Worker, heard[m][w] # None,
           NEW x \in Nat, NEW y \in Nat, PacedBy(m, w, x, y)
    PROVE  now + x <= y + MaxLag + MaxStall + Slack(faults)
<1> DEFINE P == Pending(m, w)
           s == setting[m]
<1>1. /\ P \in SUBSET Nat /\ IsFiniteSet(P)
      /\ \A u \in P : now <= u + MaxLag
      /\ due[w] \in Nat /\ faults \in Nat /\ now \in Nat /\ now <= due[w]
      /\ IsFor(w, s) => s.read \in Nat /\ now <= s.read + MaxStall
  BY PacesNumbers
<1>2. Slack(faults) \in Nat /\ MaxLag \in Nat /\ MaxStall \in Nat
  BY <1>1, SlackStep, HeartbeatAssumption
<1>3. CASE IsFor(w, s)
  <2>1. s.read + x <= y + MaxLag + Slack(faults)
    BY <1>3 DEF PacedBy, Paces
  <2> QED
    BY <1>1, <1>2, <1>3, <2>1
<1>4. CASE ~IsFor(w, s)
  <2>1. InPace(P, due[w], faults, x, y)
    BY <1>4 DEF PacedBy, Paces
  <2>2. PICK t \in P \cup {due[w]} : t + x <= y + Slack(faults)
    BY <1>1, <2>1, PaceEnds
  <2>3. t \in Nat /\ now <= t + MaxLag
    BY <1>1, <1>2
  <2> QED
    BY <1>1, <1>2, <2>2, <2>3
<1> QED
  BY <1>3, <1>4

\* So the key has not expired.
LEMMA PaceLists ==
    ASSUME TimeoutSuffices, OrderInv, PaceInv
    PROVE  SteadyIsListed
<1> SUFFICES ASSUME NEW w \in Worker, NEW m \in Replica, heard[m][w] # None,
                    heard[m][w] + MaxLag + MaxStall + faults * HEARTBEAT_INTERVAL
                        < now,
                    w \notin late
             PROVE  now < key[w].until
  BY DEF SteadyIsListed, Live
<1>1. TypeOK /\ faults \in Nat /\ now \in Nat /\ key[w].until \in Nat
  BY Numbers DEF OrderInv, IInv
<1>2. heard[m][w] \in Nat
  BY <1>1 DEF TypeOK, Time
<1>3. /\ SECOND \in Nat /\ MaxLag \in Nat /\ MaxStall \in Nat
      /\ HEARTBEAT_TIMEOUT \in Nat
      /\ HEARTBEAT_INTERVAL \in Nat /\ MaxFaults \in Nat /\ Disorder \in Nat
  BY TimeoutAge, HeartbeatAssumption
<1>4. Slack(faults) \in Nat /\ Slack(faults) = faults * HEARTBEAT_INTERVAL
  BY <1>1, SlackStep DEF Slack
<1>5. ~PacedBy(m, w, 0, heard[m][w])
  <2>1. ~(now + 0 <= heard[m][w] + MaxLag + MaxStall + Slack(faults))
    <3>1. heard[m][w] + MaxLag + MaxStall + Slack(faults) < now
      BY <1>4
    <3> QED
      BY <1>1, <1>2, <1>3, <1>4, <3>1
  <2> QED
    BY <1>2, <2>1, PacesEnds
<1> DEFINE y == key[w].until + SECOND + HEARTBEAT_INTERVAL + Disorder
<1>6. PacedBy(m, w, HEARTBEAT_TIMEOUT + 1, y)
  BY <1>5 DEF PaceInv, Covered
<1>7. now + (HEARTBEAT_TIMEOUT + 1) <= y + MaxLag + MaxStall + Slack(faults)
  <2>1. y \in Nat /\ HEARTBEAT_TIMEOUT + 1 \in Nat
    BY <1>1, <1>3
  <2> HIDE DEF y
  <2> QED
    BY <1>6, <2>1, PacesEnds
<1>8. SECOND + MaxLag + MaxStall + Disorder + Slack(faults) + HEARTBEAT_INTERVAL
          <= HEARTBEAT_TIMEOUT
  <2>1. faults <= MaxFaults
    BY <1>1, <1>3 DEF TypeOK
  <2>2. Slack(faults) <= Slack(MaxFaults) /\ Slack(MaxFaults) \in Nat
    BY <1>1, <1>3, <2>1, SlackGrows, SlackStep
  <2>3. (MaxFaults + 1) * HEARTBEAT_INTERVAL = Slack(MaxFaults) + HEARTBEAT_INTERVAL
    <3>1. Slack(MaxFaults + 1) = Slack(MaxFaults) + HEARTBEAT_INTERVAL
      BY <1>3, SlackStep
    <3> QED
      BY <3>1 DEF Slack
  <2>4. SECOND + MaxLag + MaxStall + Disorder
           + (MaxFaults + 1) * HEARTBEAT_INTERVAL <= HEARTBEAT_TIMEOUT
    BY DEF TimeoutSuffices
  <2> QED
    BY <1>3, <1>4, <2>2, <2>3, <2>4
<1> QED
  BY <1>1, <1>3, <1>4, <1>7, <1>8

\* With a timeout that outlasts MaxFaults + 1 intervals, the lag and the stall of
\* a replica, and the seconds a stamp leaves out, a running worker that one
\* replica hears stays listed through lost beats, failed SETs and replicas that
\* stop (master/heartbeat.py:13-19, 46-62).
THEOREM SteadyTheorem ==
    ASSUME TimeoutSuffices
    PROVE  Spec => []SteadyIsListed
<1>1. Init => OrderInv /\ PaceInv
  <2> SUFFICES ASSUME Init PROVE OrderInv /\ PaceInv
    OBVIOUS
  <2>1. PaceInv
    BY DEF Init, PaceInv
  <2> QED
    BY <2>1, InitOrder
<1>2. OrderInv /\ PaceInv /\ [Next]_vars => (OrderInv /\ PaceInv)'
  BY OrderStep, PaceStep
<1>3. OrderInv /\ PaceInv => SteadyIsListed
  BY PaceLists
<1> QED
  BY <1>1, <1>2, <1>3, PTL DEF Spec
=============================================================================
