--------------------------- MODULE LeaderElection ---------------------------
(***************************************************************************)
(* Leader election among the master replicas, app/leader.py.               *)
(*                                                                         *)
(* One Redis key, LEADER_KEY, holds the token of the leader and expires    *)
(* TTL ticks after it was last set or renewed.  Every replica runs         *)
(* run_leader_election(): it renews the key while its event is set, tries  *)
(* SET NX otherwise, and on an exception releases the key, then clears its *)
(* event.  is_leader(), which every other thread of the replica asks,      *)
(* compares the local clock with a deadline of the replica's own.          *)
(*                                                                         *)
(* A call to Redis is three steps: the thread sends the command, Redis     *)
(* executes it, the thread sees the reply, or an exception.  What matters  *)
(* is that the key's TTL starts when Redis executes the command and the    *)
(* replica's own deadline when it sees the reply.                          *)
(*                                                                         *)
(* Time is a set of countdowns rather than a clock: `ttl` is what is left  *)
(* of the key, left[r] what is left of _expires_at - time.monotonic().     *)
(***************************************************************************)
EXTENDS Naturals

CONSTANTS
    Replica,       \* the master replicas
    None,          \* LEADER_KEY does not exist
    Orphan,        \* LEADER_KEY holds the token of a process that is gone
    TTL,           \* LEADER_TTL_MS, in ticks
    MaxCall,       \* how long a call to Redis can last, in ticks
    Interference,  \* may a command outlive its caller, and the key be flushed?
    MaxFaults      \* bound on exceptions, crashes and flushes

ASSUME LeaderAssumption ==
    /\ None \notin Replica
    /\ Orphan \notin Replica
    /\ None # Orphan
    /\ TTL \in Nat \ {0}
    /\ MaxCall \in Nat
    /\ Interference \in BOOLEAN
    /\ MaxFaults \in Nat

VARIABLES
    holder,   \* whose token LEADER_KEY holds
    ttl,      \* the key's remaining time to live
    isSet,    \* isSet[r]: the event _is_leader of replica r
    left,     \* left[r]: ticks until r's _expires_at, 0 when it is past
    pc,       \* pc[r]: "sleep", or the call the election thread is waiting for
    rep,      \* rep[r]: "none" until Redis has executed the call, then its result
    age,      \* age[r]: how long ago r sent the call
    late,     \* commands whose caller gave up before they were executed
    gone,     \* gone[r]: how long ago LEADER_KEY stopped being r's (history)
    faults    \* faults injected so far

lockVars == <<holder, ttl, gone>>
threadVars == <<isSet, left, pc, rep, age>>
vars == <<holder, ttl, isSet, left, pc, rep, age, late, gone, faults>>

Call == {"acquire", "renew", "release"}
Reply == {"none", "yes", "no"}
Token == Replica \cup {Orphan}

\* gone[r] stops counting here: longer ago than any deadline can reach back.
Long == TTL + MaxCall + 1

\* Mutant: is_leader() before it had a deadline of its own.
BelievesEvent(r) == isSet[r]

\* is_leader(), asked by the reaper and the result consumers of replica r.
Believes(r) == isSet[r] /\ left[r] > 0

----------------------------------------------------------------------------
(* Redis executes a command for the owner of a token.                      *)

\* How long the key has not been r's, when it now belongs to `owner`.
GoneWhen(owner) ==
    gone' = [r \in Replica |->
                IF owner = r THEN 0
                ELSE IF holder = r THEN 0 ELSE gone[r]]

Store(owner, time) ==
    /\ holder' = owner
    /\ ttl' = time
    /\ GoneWhen(owner)

Keep == UNCHANGED lockVars

\* SET LEADER_KEY token NX PX TTL
ExecAcquire(tok) == IF holder = None THEN Store(tok, TTL) ELSE Keep

\* Mutants: the renewal adds to what is left, or does not look at the token.
RenewAdds(tok) == IF holder = tok THEN Store(tok, ttl + TTL) ELSE Keep
RenewBlindly(tok) == Store(tok, TTL)

\* _RENEW_SCRIPT
ExecRenew(tok) == IF holder = tok THEN Store(tok, TTL) ELSE Keep

\* Mutant: a plain DEL.
ReleaseBlindly(tok) == Store(None, 0)

\* _RELEASE_SCRIPT
ExecRelease(tok) == IF holder = tok THEN Store(None, 0) ELSE Keep

Exec(cmd, tok) ==
    \/ cmd = "acquire" /\ ExecAcquire(tok)
    \/ cmd = "renew" /\ ExecRenew(tok)
    \/ cmd = "release" /\ ExecRelease(tok)

\* What the caller is told: did the command take effect?
Result(cmd, tok) ==
    IF (cmd = "acquire" /\ holder = None) \/ (cmd # "acquire" /\ holder = tok)
    THEN "yes" ELSE "no"

----------------------------------------------------------------------------
Init ==
    /\ holder = None
    /\ ttl = 0
    /\ isSet = [r \in Replica |-> FALSE]
    /\ left = [r \in Replica |-> 0]
    /\ pc = [r \in Replica |-> "sleep"]
    /\ rep = [r \in Replica |-> "none"]
    /\ age = [r \in Replica |-> 0]
    /\ late = {}
    /\ gone = [r \in Replica |-> Long]
    /\ faults = 0

\* Send `cmd`: the thread blocks until the reply or an exception.
Start(r, cmd) ==
    /\ pc' = [pc EXCEPT ![r] = cmd]
    /\ rep' = [rep EXCEPT ![r] = "none"]
    /\ age' = [age EXCEPT ![r] = 0]

\* Mutant: the event is never cleared.
SleepKeepsEvent(r, leader) ==
    /\ isSet' = [isSet EXCEPT ![r] = @ \/ leader]
    /\ left' = [left EXCEPT ![r] = IF leader THEN TTL ELSE 0]
    /\ pc' = [pc EXCEPT ![r] = "sleep"]
    /\ rep' = [rep EXCEPT ![r] = "none"]
    /\ age' = [age EXCEPT ![r] = 0]

\* Set or clear the event and the deadline, and go to sleep.
Sleep(r, leader) ==
    /\ isSet' = [isSet EXCEPT ![r] = leader]
    /\ left' = [left EXCEPT ![r] = IF leader THEN TTL ELSE 0]
    /\ pc' = [pc EXCEPT ![r] = "sleep"]
    /\ rep' = [rep EXCEPT ![r] = "none"]
    /\ age' = [age EXCEPT ![r] = 0]

\* The sleep of RENEW_INTERVAL_S is over: renew or try to acquire.
Wake(r) ==
    /\ pc[r] = "sleep"
    /\ Start(r, IF isSet[r] THEN "renew" ELSE "acquire")
    /\ UNCHANGED <<lockVars, isSet, left, late, faults>>

\* Redis executes the call r is waiting for.
Execute(r) ==
    /\ pc[r] \in Call
    /\ rep[r] = "none"
    /\ Exec(pc[r], r)
    /\ rep' = [rep EXCEPT ![r] = Result(pc[r], r)]
    /\ UNCHANGED <<isSet, left, pc, age, late, faults>>

\* The reply of a renewal or an acquisition arrives.
ReplyArrives(r) ==
    /\ pc[r] \in {"acquire", "renew"}
    /\ rep[r] # "none"
    /\ Sleep(r, rep[r] = "yes")
    /\ UNCHANGED <<lockVars, late, faults>>

\* The reply of the release arrives: only now are event and deadline cleared.
ReleaseReturns(r) ==
    /\ pc[r] = "release"
    /\ rep[r] # "none"
    /\ Sleep(r, FALSE)
    /\ UNCHANGED <<lockVars, late, faults>>

\* The command of a call that fails before it is executed is lost, or is
\* still on its way to Redis.
Abandon(r) ==
    \/ late' = late
    \/ /\ Interference
       /\ rep[r] = "none"
       /\ late' = late \cup {<<pc[r], r>>}

\* The exception branch: a replica that has its event set releases the key
\* first, any other one just goes back to sleep.
CallFails(r) ==
    /\ pc[r] \in {"acquire", "renew"}
    /\ faults < MaxFaults
    /\ faults' = faults + 1
    /\ Abandon(r)
    /\ IF isSet[r]
       THEN Start(r, "release") /\ UNCHANGED <<isSet, left>>
       ELSE Sleep(r, FALSE)
    /\ UNCHANGED lockVars

\* The release raises too: `except Exception: pass`.
ReleaseFails(r) ==
    /\ pc[r] = "release"
    /\ faults < MaxFaults
    /\ faults' = faults + 1
    /\ Abandon(r)
    /\ Sleep(r, FALSE)
    /\ UNCHANGED lockVars

\* The process dies and is restarted with a new _TOKEN: its key and the
\* commands it left behind are nobody's.
Crash(r) ==
    /\ faults < MaxFaults
    /\ faults' = faults + 1
    /\ Sleep(r, FALSE)
    /\ holder' = IF holder = r THEN Orphan ELSE holder
    /\ gone' = [gone EXCEPT ![r] = Long]
    /\ late' = {c \in late : c[2] # r}
               \cup {<<c[1], Orphan>> : c \in {d \in late : d[2] = r}}
    /\ UNCHANGED ttl

\* A command reaches Redis after its caller gave up.
LateCommand ==
    \E c \in late :
        /\ Exec(c[1], c[2])
        /\ late' = late \ {c}
        /\ UNCHANGED <<threadVars, faults>>

\* nuclear_cleanup() of master/admin_routes.py: FLUSHDB, then only the job
\* hashes are restored.
Flush ==
    /\ Interference
    /\ holder # None
    /\ faults < MaxFaults
    /\ faults' = faults + 1
    /\ Store(None, 0)
    /\ UNCHANGED <<threadVars, late>>

\* Time passes, unless a call has already lasted as long as it can.
Tick ==
    /\ \A r \in Replica : pc[r] # "sleep" => age[r] < MaxCall
    /\ ttl' = IF ttl > 0 THEN ttl - 1 ELSE 0
    /\ holder' = IF ttl > 1 THEN holder ELSE None
    /\ left' = [r \in Replica |-> IF left[r] > 0 THEN left[r] - 1 ELSE 0]
    /\ age' = [r \in Replica |-> IF pc[r] = "sleep" THEN 0 ELSE age[r] + 1]
    /\ gone' = [r \in Replica |->
                  IF holder = r THEN 0
                  ELSE IF gone[r] < Long THEN gone[r] + 1 ELSE Long]
    /\ UNCHANGED <<isSet, pc, rep, late, faults>>

Thread(r) ==
    \/ Wake(r) \/ Execute(r) \/ ReplyArrives(r) \/ ReleaseReturns(r)

Next ==
    \/ \E r \in Replica : \/ Thread(r)
                          \/ CallFails(r) \/ ReleaseFails(r) \/ Crash(r)
    \/ LateCommand
    \/ Flush
    \/ Tick

Spec == Init /\ [][Next]_vars

\* The election thread of every replica keeps running and time passes.
Fairness == WF_vars(Tick) /\ \A r \in Replica : WF_vars(Thread(r))

FairSpec == Spec /\ Fairness

----------------------------------------------------------------------------
(* Properties.                                                             *)

TypeOK ==
    /\ holder \in Token \cup {None}
    /\ ttl \in 0..TTL
    /\ isSet \in [Replica -> BOOLEAN]
    /\ left \in [Replica -> 0..TTL]
    /\ pc \in [Replica -> Call \cup {"sleep"}]
    /\ rep \in [Replica -> Reply]
    /\ age \in [Replica -> 0..MaxCall]
    /\ late \subseteq (Call \X Token)
    /\ gone \in [Replica -> 0..Long]
    /\ faults \in 0..MaxFaults

\* How long a replica can go on believing it leads once the key is not its own.
MaxOverlap == IF Interference THEN (TTL + MaxCall) - 1 ELSE MaxCall

\* A replica that still acts as the leader lost the key at most MaxOverlap ago:
\* the deadline that is_leader() compares with (app/leader.py:58-67) trails the
\* key's own expiry by no more than the time one call to Redis took.
OverlapBounded == \A r \in Replica : Believes(r) => gone[r] <= MaxOverlap

\* The key leaves a replica only because it expires, because that replica itself
\* releases it, because it crashed or because the database is flushed: no renewal
\* and no release ever touches the key of another replica (the two scripts,
\* app/leader.py:69-91), and none takes it while it is held.
LockLostByOwner ==
    [][\A r \in Replica :
          holder = r /\ holder' # r =>
             \/ /\ holder' = None
                /\ \/ ttl = 1
                   \/ pc[r] = "release"
                   \/ <<"release", r>> \in late
                   \/ Flush
             \/ Crash(r)]_vars

\* Two replicas are never the leader at once.  This is what app/leader.py:58-66
\* says the deadline is for and app/metrics.py:61-63 says of the gauge; the code
\* does not guarantee it (the deadline starts at the reply, not at the execution,
\* and the exception branch releases the key before it clears the event).
AtMostOneLeader ==
    \A r, s \in Replica : Believes(r) /\ Believes(s) => r = s

\* Once faults stop, there is a leader again and again: no key of a dead process,
\* and no key whose holder never saw the reply, blocks the election for good.
LeadershipRegained == []<>(\E r \in Replica : Believes(r))
=============================================================================
