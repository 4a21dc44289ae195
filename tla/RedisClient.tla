----------------------------- MODULE RedisClient -----------------------------
(***************************************************************************)
(* How one Redis command is tried: the RedisClient wrapper of              *)
(* app/jobstore.py around redis-py, which itself repeats a command that    *)
(* timed out, once, because of retry_on_timeout=True.                      *)
(*                                                                         *)
(* A command that fails may or may not have been executed; one that has    *)
(* not been executed when it is tried again never is.                      *)
(***************************************************************************)
EXTENDS Naturals

CONSTANTS
    Actor,          \* the threads that call Redis
    MAX_RETRIES,    \* max_retries of the wrapper
    MaxFaults       \* bound on the failures

ASSUME ClientAssumption ==
    /\ MAX_RETRIES \in Nat \ {0}
    /\ MaxFaults \in Nat

VARIABLES
    attempt,    \* attempt[a]: the wrapper's loop
    again,      \* again[a]: redis-py has repeated the command already
    faults

clientVars == <<attempt, again, faults>>

ClientTypeOK ==
    /\ attempt \in [Actor -> 0..MAX_RETRIES - 1]
    /\ again \in [Actor -> BOOLEAN]
    /\ faults \in 0..MaxFaults

ClientInit ==
    /\ attempt = [a \in Actor |-> 0]
    /\ again = [a \in Actor |-> FALSE]
    /\ faults = 0

Fault == faults < MaxFaults /\ faults' = faults + 1

\* The call is over, with an answer or with an exception.
Fresh(a) ==
    /\ attempt' = [attempt EXCEPT ![a] = 0]
    /\ again' = [again EXCEPT ![a] = FALSE]

Answered(a) == Fresh(a) /\ UNCHANGED faults

\* The commands that are not idempotent.
Counting(name) == name \in {"INCR", "HINCRBY", "RPUSH", "SADD"}

\* SCAN and FLUSHDB go to redis-py directly.
Attempts(name) == IF name \in {"SCAN", "FLUSHDB"} THEN 1 ELSE MAX_RETRIES

\* Mutant: one attempt too many.
LastAttemptLate(a, name) == attempt[a] + 1 > Attempts(name)

LastAttempt(a, name) == attempt[a] + 1 >= Attempts(name)

NextAttempt(a) ==
    /\ attempt' = [attempt EXCEPT ![a] = @ + 1]
    /\ again' = [again EXCEPT ![a] = FALSE]

\* TimeoutError: redis-py repeats the command; then the wrapper does, unless
\* it is not idempotent.
RetryTimeout(a, name) ==
    /\ Fault
    /\ \/ /\ ~again[a]
          /\ again' = [again EXCEPT ![a] = TRUE]
          /\ UNCHANGED attempt
       \/ /\ again[a]
          /\ ~Counting(name)
          /\ ~LastAttempt(a, name)
          /\ NextAttempt(a)

RaiseTimeout(a, name) ==
    /\ Fault
    /\ again[a]
    /\ Counting(name) \/ LastAttempt(a, name)
    /\ Fresh(a)

\* ConnectionError: the wrapper repeats any command.
RetryConnection(a, name) == Fault /\ ~LastAttempt(a, name) /\ NextAttempt(a)

RaiseConnection(a, name) == Fault /\ LastAttempt(a, name) /\ Fresh(a)

Retried(a, name) == RetryTimeout(a, name) \/ RetryConnection(a, name)
Raised(a, name) == RaiseTimeout(a, name) \/ RaiseConnection(a, name)
=============================================================================
