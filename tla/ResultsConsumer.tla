-------------------------- MODULE ResultsConsumer ---------------------------
(***************************************************************************)
(* The thread of every master replica that reads the results topic,        *)
(* master/results_consumer.py.  It holds a Kafka consumer only while its   *)
(* replica is the leader.  A message is recorded with several Redis        *)
(* commands, and its offset is committed after the last one; an exception  *)
(* is logged and the loop goes on with the next message, uncommitted.      *)
(*                                                                         *)
(* The topic is one partition here.  A consumer that joins while another   *)
(* one has the partition waits for it to close, die or be evicted.         *)
(***************************************************************************)
EXTENDS JobStore

CONSTANTS Replica, None

VARIABLES
    leader,   \* the replica whose is_leader() is true
    owner,    \* the consumer that the partition is assigned to, or None
    cpc,      \* cpc[m]: where the listener of replica m is
    pos,      \* pos[m]: offset of the next message its consumer fetches
    distinct  \* distinct[m]: what HLEN returned, until get_job() has used it

consumerVars == <<owner, cpc, pos, distinct>>

ConsumerPc ==
    {"closed", "poll", "record", "count", "hlen", "get_job", "flip", "commit"}

ConsumerTypeOK ==
    /\ leader \in Replica
    /\ owner \in Replica \cup {None}
    /\ cpc \in [Replica -> ConsumerPc]
    /\ pos \in [Replica -> Nat]
    /\ distinct \in [Replica -> Nat]

ConsumerInit ==
    /\ leader \in Replica
    /\ owner = None
    /\ cpc = [m \in Replica |-> "closed"]
    /\ pos = [m \in Replica |-> 0]
    /\ distinct = [m \in Replica |-> 0]

expected_tiles == Cardinality(Tile)

Goto(m, l) == cpc' = [cpc EXCEPT ![m] = l]

\* The message the listener of m is working on: poll() has moved pos past it.
Current(m) == log[pos[m]]

----------------------------------------------------------------------------
(* listen_for_results()                                                    *)

\* Leadership gained: a new Consumer, subscribed.
Open(m) ==
    /\ cpc[m] = "closed"
    /\ leader = m
    /\ Goto(m, "poll")
    /\ UNCHANGED <<owner, pos, distinct, storeVars>>

\* The group gives the free partition to m, from the committed offset.
Assign(m) ==
    /\ cpc[m] = "poll"
    /\ owner = None
    /\ owner' = m
    /\ pos' = [pos EXCEPT ![m] = committed]
    /\ UNCHANGED <<cpc, distinct, storeVars>>

\* Leadership lost, seen between two messages: the consumer is closed.
Close(m) ==
    /\ cpc[m] = "poll"
    /\ leader # m
    /\ Goto(m, "closed")
    /\ owner' = IF owner = m THEN None ELSE owner
    /\ UNCHANGED <<pos, distinct, storeVars>>

\* Mutant: enable.auto.commit, the offset is committed before the processing.
PollCommits(m) ==
    /\ cpc[m] = "poll"
    /\ leader = m
    /\ owner = m
    /\ pos[m] < Len(log)
    /\ pos' = [pos EXCEPT ![m] = @ + 1]
    /\ committed' = pos[m] + 1
    /\ Goto(m, "record")
    /\ UNCHANGED <<owner, distinct, redisVars, blobVars, taskVars, log, faults>>

\* poll() returns the next message and moves the consumer's position.
Poll(m) ==
    /\ cpc[m] = "poll"
    /\ leader = m
    /\ owner = m
    /\ pos[m] < Len(log)
    /\ pos' = [pos EXCEPT ![m] = @ + 1]
    /\ Goto(m, "record")
    /\ UNCHANGED <<owner, distinct, storeVars>>

\* The listener of a former leader that is still busy with a message when the
\* new leader's consumer joins loses the partition, and finishes the message.
Evict(m) ==
    /\ owner = m
    /\ leader # m
    /\ cpc[m] # "poll"
    /\ owner' = None
    /\ UNCHANGED <<cpc, pos, distinct, storeVars>>

----------------------------------------------------------------------------
(* _process_message()                                                      *)

\* Mutant: every message is counted, as it was before HSET's answer was used.
RecordCountsAll(m) ==
    /\ cpc[m] = "record"
    /\ RecordTile(Current(m))
    /\ Goto(m, "count")
    /\ UNCHANGED <<owner, pos, distinct, blobVars, taskVars, resultVars, faults>>

\* HSET of the tile, which says whether the field is new.
Record(m) ==
    /\ cpc[m] = "record"
    /\ RecordTile(Current(m))
    /\ Goto(m, IF Current(m) \in tiles THEN "hlen" ELSE "count")
    /\ UNCHANGED <<owner, pos, distinct,
                   blobVars, taskVars, resultVars, faults>>

\* Only a new tile is counted.
Count(m) ==
    /\ cpc[m] = "count"
    /\ CountTile
    /\ Goto(m, "hlen")
    /\ UNCHANGED <<owner, pos, distinct,
                   blobVars, taskVars, resultVars, faults>>

\* HLEN, the distinct count that record_tile_result() returns.
Hlen(m) ==
    /\ cpc[m] = "hlen"
    /\ distinct' = [distinct EXCEPT ![m] = Cardinality(tiles)]
    /\ Goto(m, "get_job")
    /\ UNCHANGED <<owner, pos, storeVars>>

\* Mutants: the status is not looked at; off by one, either way.
CompleteAnyStatus(s, n) == n >= expected_tiles
CompleteEarly(s, n) == s = "processing" /\ n + 1 >= expected_tiles
CompleteNever(s, n) == s = "processing" /\ n > expected_tiles

\* The condition on the status and the distinct count.
Complete(s, n) == s = "processing" /\ n >= expected_tiles

\* get_job(), and the condition on what it returned.
GetJob(m) ==
    /\ cpc[m] = "get_job"
    /\ distinct' = [distinct EXCEPT ![m] = 0]
    /\ Goto(m, IF Complete(status, distinct[m]) THEN "flip" ELSE "commit")
    /\ UNCHANGED <<owner, pos, storeVars>>

\* Mutant: a status nobody knows.
FlipMisspelt(m) ==
    /\ cpc[m] = "flip"
    /\ SetStatus("ready")
    /\ Goto(m, "commit")
    /\ UNCHANGED <<owner, pos, distinct, blobVars, taskVars, resultVars, faults>>

\* HSET of the status, whatever it has become since get_job().
Flip(m) ==
    /\ cpc[m] = "flip"
    /\ SetStatus("ready_for_reconstruction")
    /\ Goto(m, "commit")
    /\ UNCHANGED <<owner, pos, distinct,
                   blobVars, taskVars, resultVars, faults>>

\* The asynchronous commit: it may fail, and Kafka refuses it from a consumer
\* that no longer has the partition.
Commit(m) ==
    /\ cpc[m] = "commit"
    /\ \/ owner = m /\ committed' = pos[m] /\ NoFault
       \/ owner # m /\ UNCHANGED committed /\ NoFault
       \/ owner = m /\ UNCHANGED committed /\ Fault("commit")
    /\ Goto(m, "poll")
    /\ UNCHANGED <<owner, pos, distinct, redisVars, blobVars, taskVars, log>>

\* A Redis command raises: the error is logged, the message is not committed
\* and the loop polls for the next one.  The command may have been executed
\* all the same, its answer lost.  Of the HSET of the status, which writes s,
\* that is a case of its own; of an earlier command, it is the failure of the
\* next one.
ConsumerError(m, s) ==
    /\ cpc[m] \in {"record", "count", "hlen", "get_job", "flip"}
    /\ Fault("consumer")
    /\ \/ UNCHANGED redisVars
       \/ cpc[m] = "flip" /\ SetStatus(s)
    /\ Goto(m, "poll")
    /\ distinct' = [distinct EXCEPT ![m] = 0]
    /\ UNCHANGED <<owner, pos, blobVars, taskVars, resultVars>>

\* The replica crashes: its consumer is gone.
ConsumerCrash(m) ==
    /\ Goto(m, "closed")
    /\ owner' = IF owner = m THEN None ELSE owner
    /\ distinct' = [distinct EXCEPT ![m] = 0]
    /\ UNCHANGED pos

ConsumerStep(m) ==
    \/ Open(m) \/ Assign(m) \/ Close(m) \/ Poll(m)
    \/ Record(m) \/ Count(m) \/ Hlen(m) \/ GetJob(m) \/ Flip(m) \/ Commit(m)
=============================================================================
