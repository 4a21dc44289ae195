---------------------------- MODULE RateLimiter ----------------------------
(***************************************************************************)
(* The decorator @rate_limit of /upload and /detect, master/rate_limit.py, *)
(* in one master process: at most RATE_LIMIT requests of a client in any   *)
(* RATE_WINDOW.  A request reads the clock before it takes the lock, so    *)
(* requests may be counted in another order than they are stamped.         *)
(***************************************************************************)
EXTENDS Naturals, FiniteSets

CONSTANTS
    Request,        \* the requests, each one a thread of the server
    Client,         \* the addresses _client_ip() returns
    RATE_LIMIT,
    RATE_WINDOW,
    SWEEP_EVERY,    \* _SWEEP_EVERY_N_CALLS
    MaxStall,       \* bound on the time between the clock and the lock
    MaxTime         \* bound on the clock

ASSUME RateAssumption ==
    /\ IsFiniteSet(Request)
    /\ RATE_LIMIT \in Nat \ {0}
    /\ RATE_WINDOW \in Nat
    /\ SWEEP_EVERY \in Nat \ {0}
    /\ MaxStall \in Nat
    /\ MaxTime \in Nat

VARIABLES
    now,              \* time.time()
    rpc,              \* rpc[r]: where the request r is
    ip,               \* ip[r]: its client
    stamp,            \* stamp[r]: the clock it read
    request_counts,   \* request_counts[c]: the requests whose stamps are kept for
                      \* a client; an address not in the dictionary has none
    calls,            \* _rate_limit_calls
    admitted,         \* the requests that were let in (history)
    admission         \* admission[r]: when it was (history)

limiterVars == <<request_counts, calls, admitted, admission>>

LimiterTypeOK ==
    /\ now \in 0..MaxTime
    /\ ip \in [Request -> Client]
    /\ stamp \in [Request -> 0..MaxTime]
    /\ request_counts \in [Client -> SUBSET Request]
    /\ \A c \in Client : Cardinality(request_counts[c]) <= RATE_LIMIT
    /\ calls \in 0..SWEEP_EVERY - 1
    /\ admitted \in SUBSET Request
    /\ admission \in [Request -> 0..MaxTime]

LimiterInit ==
    /\ now = 0
    /\ rpc = [r \in Request |-> "new"]
    /\ ip \in [Request -> Client]
    /\ stamp = [r \in Request |-> 0]
    /\ request_counts = [c \in Client |-> {}]
    /\ calls = 0
    /\ admitted = {}
    /\ admission = [r \in Request |-> 0]

\* The clock of the process, while no request is stalled for too long.
Tick ==
    /\ now < MaxTime
    /\ \A r \in Request : rpc[r] = "stamped" => now < stamp[r] + MaxStall
    /\ now' = now + 1
    /\ UNCHANGED <<rpc, ip, stamp, limiterVars>>

\* time.time(), before the lock.
ReadClock(r) ==
    /\ rpc[r] = "new"
    /\ rpc' = [rpc EXCEPT ![r] = "stamped"]
    /\ stamp' = [stamp EXCEPT ![r] = now]
    /\ UNCHANGED <<now, ip, limiterVars>>

\* Mutants: nothing ever leaves the window, or entries leave it too soon.
InWindowForever(t, at) == TRUE
InWindowShort(t, at) == at + 1 < t + RATE_WINDOW

\* at - t < RATE_WINDOW, which a stamp of the future satisfies as well.
InWindow(t, at) == at < t + RATE_WINDOW

\* Mutant: one more than the limit.
FullLate(kept) == Cardinality(kept) > RATE_LIMIT

Full(kept) == Cardinality(kept) >= RATE_LIMIT

Pruned(c, at) == {r \in request_counts[c] : InWindow(stamp[r], at)}

\* _sweep_stale_ips(): a client without a stamp in the window is forgotten.
Swept(counts, at) ==
    [c \in Client |->
        IF \E r \in counts[c] : InWindow(stamp[r], at) THEN counts[c] ELSE {}]

\* 429, under the lock.
Refuse(r) ==
    /\ rpc[r] = "stamped"
    /\ Full(Pruned(ip[r], stamp[r]))
    /\ request_counts' =
          [request_counts EXCEPT ![ip[r]] = Pruned(ip[r], stamp[r])]
    /\ rpc' = [rpc EXCEPT ![r] = "done"]
    /\ UNCHANGED <<now, ip, stamp, calls, admitted, admission>>

\* The request is counted, under the same lock, and every SWEEP_EVERY-th one
\* sweeps the clients with its own stamp.
Admit(r) ==
    /\ rpc[r] = "stamped"
    /\ ~Full(Pruned(ip[r], stamp[r]))
    /\ LET kept == Pruned(ip[r], stamp[r]) \cup {r}
           counts == [request_counts EXCEPT ![ip[r]] = kept]
       IN request_counts' = IF (calls + 1) % SWEEP_EVERY = 0
                            THEN Swept(counts, stamp[r]) ELSE counts
    /\ calls' = (calls + 1) % SWEEP_EVERY
    /\ admitted' = admitted \cup {r}
    /\ admission' = [admission EXCEPT ![r] = now]
    /\ rpc' = [rpc EXCEPT ![r] = "admitted"]
    /\ UNCHANGED <<now, ip, stamp>>

----------------------------------------------------------------------------
(* Properties.                                                             *)

\* In no stretch of RATE_WINDOW, less the time a request may be stalled
\* between the clock and the lock, are more than RATE_LIMIT requests of one
\* client let in by a process, whatever order the threads take the lock in and
\* whichever of them sweeps (master/rate_limit.py:69-92).
RateBound ==
    \A c \in Client, t \in 0..MaxTime :
        Cardinality({r \in admitted :
                        /\ ip[r] = c
                        /\ admission[r] >= t
                        /\ admission[r] + MaxStall < t + RATE_WINDOW})
            <= RATE_LIMIT
=============================================================================
