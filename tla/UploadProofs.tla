---------------------------- MODULE UploadProofs ----------------------------
(***************************************************************************)
(* Proofs about Upload and the RateLimiter it uses, for every number of    *)
(* requests and clients, every limit and window and every set of files.    *)
(***************************************************************************)
EXTENDS Upload, FiniteSetTheorems, TLAPS

----------------------------------------------------------------------------
(* Types.                                                                  *)

\* What the decorator does to the requests and to its own state.
LimitStep(r) == ReadClock(r) \/ Admit(r) \/ Refuse(r)

\* What the rest of a handler does, as far as the decorator goes.
HandlerStep ==
    /\ UNCHANGED rateVars
    /\ \/ UNCHANGED rpc
       \/ \E r \in Request, pc \in HandlerPc \ {"new", "stamped"} :
             /\ rpc[r] \notin {"new", "stamped"}
             /\ rpc' = [rpc EXCEPT ![r] = pc]

LEMMA RateNext ==
    ASSUME [Next]_vars
    PROVE  \/ \E r \in Request : LimitStep(r)
           \/ Tick
           \/ Restart
           \/ HandlerStep
<1>1. ASSUME NEW r \in Request, Limit(r)
      PROVE  LimitStep(r)
  BY <1>1 DEF Limit, LimitStep
<1>2. ASSUME NEW r \in Request,
             \/ Reject(r) \/ Save(r) \/ Load(r) \/ CreateJob(r) \/ Publish(r)
             \/ Split(r) \/ Exception(r)
      PROVE  HandlerStep
  BY <1>2 DEF Reject, Save, Load, CreateJob, Publish, Split, Exception, Goto,
     Elsewhere, HandlerStep, HandlerPc
<1>3. ASSUME NEW r \in Request, RejectProbed(r) \/ RejectLoaded(r)
      PROVE  HandlerStep
  BY <1>3 DEF RejectProbed, RejectLoaded, TurnDown, Goto, Elsewhere, HandlerStep,
     HandlerPc
<1>4. CASE Passing \/ UNCHANGED vars
  BY <1>4 DEF Passing, vars, HandlerStep, rateVars
<1> QED
  BY <1>1, <1>2, <1>3, <1>4 DEF Next, Handle

\* What the decorator keeps is no more than the limit.
LEMMA Kept ==
    ASSUME TypeOK, NEW r \in Request
    PROVE  /\ Pruned(ip[r], stamp[r]) \in SUBSET Request
           /\ IsFiniteSet(Pruned(ip[r], stamp[r]))
           /\ Cardinality(Pruned(ip[r], stamp[r])) <= RATE_LIMIT
           /\ ~Full(Pruned(ip[r], stamp[r])) =>
                 Cardinality(Pruned(ip[r], stamp[r]) \cup {r}) <= RATE_LIMIT
<1> DEFINE kept == Pruned(ip[r], stamp[r])
<1>1. ip[r] \in Client /\ request_counts[ip[r]] \in SUBSET Request
  BY DEF TypeOK, LimiterTypeOK
<1>2. kept \subseteq request_counts[ip[r]]
  BY DEF Pruned
<1>3. IsFiniteSet(request_counts[ip[r]])
  BY <1>1, FS_Subset, RateAssumption
<1>4. IsFiniteSet(kept) /\ Cardinality(kept) <= Cardinality(request_counts[ip[r]])
  BY <1>2, <1>3, FS_Subset
<1>5. /\ Cardinality(kept) \in Nat /\ Cardinality(request_counts[ip[r]]) \in Nat
      /\ Cardinality(request_counts[ip[r]]) <= RATE_LIMIT
  BY <1>1, <1>3, <1>4, FS_CardinalityType DEF TypeOK, LimiterTypeOK
<1> HIDE DEF kept
<1>6. Cardinality(kept \cup {r}) =
         IF r \in kept THEN Cardinality(kept) ELSE Cardinality(kept) + 1
  BY <1>4, FS_AddElement
<1>7. RATE_LIMIT \in Nat /\ Cardinality(kept) <= RATE_LIMIT
  BY <1>4, <1>5, RateAssumption
<1>8. ~Full(kept) => Cardinality(kept \cup {r}) <= RATE_LIMIT
  BY <1>5, <1>6, <1>7 DEF Full
<1> QED
  BY <1>1, <1>2, <1>4, <1>7, <1>8 DEF kept

LEMMA LimiterType ==
    ASSUME TypeOK, [Next]_vars
    PROVE  LimiterTypeOK' /\ rpc' \in [Request -> HandlerPc]
<1>1. LimiterTypeOK /\ rpc \in [Request -> HandlerPc]
  BY DEF TypeOK
<1>2. /\ SWEEP_EVERY \in Nat \ {0} /\ MaxTime \in Nat /\ RATE_LIMIT \in Nat
      /\ now \in 0..MaxTime
  BY <1>1, RateAssumption DEF LimiterTypeOK
<1>3. CASE HandlerStep
  BY <1>1, <1>3 DEF HandlerStep, rateVars, limiterVars, LimiterTypeOK
<1>4. CASE Tick
  <2>1. now' \in 0..MaxTime
    BY <1>2, <1>4 DEF Tick
  <2> QED
    BY <1>1, <1>4, <2>1 DEF Tick, limiterVars, LimiterTypeOK
<1>5. CASE Restart
  <2>1. rpc' \in [Request -> HandlerPc]
    BY <1>1, <1>5 DEF Restart, HandlerPc
  <2>2. Cardinality({}) <= RATE_LIMIT /\ 0 \in 0..SWEEP_EVERY - 1
    BY <1>2, FS_EmptySet
  <2> QED
    BY <1>1, <1>5, <2>1, <2>2 DEF Restart, LimiterTypeOK
<1>6. ASSUME NEW r \in Request, ReadClock(r)
      PROVE  LimiterTypeOK' /\ rpc' \in [Request -> HandlerPc]
  BY <1>1, <1>6 DEF ReadClock, limiterVars, LimiterTypeOK, HandlerPc
<1>7. ASSUME NEW r \in Request, Refuse(r)
      PROVE  LimiterTypeOK' /\ rpc' \in [Request -> HandlerPc]
  <2> DEFINE kept == Pruned(ip[r], stamp[r])
  <2>1. kept \in SUBSET Request /\ Cardinality(kept) <= RATE_LIMIT
    BY Kept
  <2>2. /\ request_counts' = [request_counts EXCEPT ![ip[r]] = kept]
        /\ rpc' = [rpc EXCEPT ![r] = "done"]
        /\ UNCHANGED <<now, ip, stamp, calls, admitted, admission>>
    BY <1>7 DEF Refuse
  <2> HIDE DEF kept
  <2> QED
    BY <1>1, <2>1, <2>2 DEF LimiterTypeOK, HandlerPc
<1>8. ASSUME NEW r \in Request, Admit(r)
      PROVE  LimiterTypeOK' /\ rpc' \in [Request -> HandlerPc]
  <2> DEFINE kept == Pruned(ip[r], stamp[r]) \cup {r}
             counts == [request_counts EXCEPT ![ip[r]] = kept]
  <2>1. kept \in SUBSET Request /\ Cardinality(kept) <= RATE_LIMIT
    BY <1>8, Kept DEF Admit
  <2>2. /\ request_counts' = counts \/ request_counts' = Swept(counts, stamp[r])
        /\ rpc' = [rpc EXCEPT ![r] = "admitted"]
        /\ calls' = (calls + 1) % SWEEP_EVERY
        /\ admitted' = admitted \cup {r}
        /\ admission' = [admission EXCEPT ![r] = now]
        /\ UNCHANGED <<now, ip, stamp>>
    BY <1>8 DEF Admit
  <2> HIDE DEF kept
  <2>3. /\ counts \in [Client -> SUBSET Request]
        /\ \A c \in Client : Cardinality(counts[c]) <= RATE_LIMIT
    BY <1>1, <2>1 DEF LimiterTypeOK
  <2> HIDE DEF counts
  <2>4. Cardinality({}) <= RATE_LIMIT
    BY <1>2, FS_EmptySet
  <2>5. /\ request_counts' \in [Client -> SUBSET Request]
        /\ \A c \in Client : Cardinality(request_counts'[c]) <= RATE_LIMIT
    BY <2>2, <2>3, <2>4 DEF Swept
  <2>6. calls' \in 0..SWEEP_EVERY - 1
    BY <1>1, <1>2, <2>2 DEF LimiterTypeOK
  <2> QED
    BY <1>1, <2>2, <2>5, <2>6 DEF LimiterTypeOK, HandlerPc
<1> QED
  BY <1>3, <1>4, <1>5, <1>6, <1>7, <1>8, RateNext DEF LimitStep

LEMMA TypeInductive ==
    ASSUME TypeOK, [Next]_vars
    PROVE  TypeOK'
<1>1. LimiterTypeOK' /\ rpc' \in [Request -> HandlerPc]
  BY LimiterType
<1> DEFINE Rest ==
        /\ TILE_SIZE \in TileSizes
        /\ file \in [Request -> File \cup {None}]
        /\ stored \in SUBSET Request
        /\ DOMAIN job \subseteq Request
        /\ answer \in [Request -> {0, 200, 400, 429, 500, 503}]
        /\ faults \in 0..MaxFaults
<1>2. Rest
  BY DEF TypeOK
<1>3. MaxFaults \in Nat
  BY UploadAssumption
<1>4. ASSUME Passing \/ UNCHANGED vars
      PROVE  Rest'
  BY <1>2, <1>4 DEF Passing, handlerVars, vars
<1>5. ASSUME Fault
      PROVE  faults' \in 0..MaxFaults
  BY <1>2, <1>3, <1>5 DEF Fault
<1>6. ASSUME Restart
      PROVE  Rest'
  BY <1>2, <1>5, <1>6 DEF Restart
<1>7. ASSUME NEW r \in Request, Limit(r) \/ Reject(r) \/ Save(r) \/ Load(r) \/ Split(r)
      PROVE  Rest'
  BY <1>2, <1>7 DEF Limit, Reject, Save, Load, Split, Answer, Elsewhere
<1>8. ASSUME NEW r \in Request, RejectProbed(r) \/ RejectLoaded(r)
      PROVE  Rest'
  BY <1>2, <1>8 DEF RejectProbed, RejectLoaded, TurnDown, Return, Answer, Elsewhere
<1>9. ASSUME NEW r \in Request, CreateJob(r)
      PROVE  Rest'
  <2>1. /\ DOMAIN job' = DOMAIN job \cup {r}
        /\ UNCHANGED <<TILE_SIZE, file, stored, answer, faults>>
    BY <1>9 DEF CreateJob, Elsewhere
  <2> QED
    BY <1>2, <2>1
<1>10. ASSUME NEW r \in Request, Publish(r) \/ Exception(r)
       PROVE  Rest'
  BY <1>2, <1>5, <1>10 DEF Publish, Exception, Return, Answer, Elsewhere
<1>11. Rest'
  BY <1>4, <1>6, <1>7, <1>8, <1>9, <1>10, Zenon DEF Next, Handle
<1> QED
  BY <1>1, <1>11 DEF TypeOK

\* What the decorator and the handlers keep is what it was declared to be; in
\* particular no client has more stamps in request_counts than RATE_LIMIT, which
\* with the sweep bounds the dictionary (master/rate_limit.py:45-50).
THEOREM TypeCorrect == Spec => []TypeOK
<1>1. Init => TypeOK
  <2>1. 0 \in 0..MaxTime /\ 0 \in 0..SWEEP_EVERY - 1 /\ 0 \in 0..MaxFaults
    BY RateAssumption, UploadAssumption
  <2>2. Cardinality({}) <= RATE_LIMIT
    BY RateAssumption, FS_EmptySet
  <2> QED
    BY <2>1, <2>2 DEF Init, LimiterInit, TypeOK, LimiterTypeOK, HandlerPc
<1> QED
  BY <1>1, TypeInductive, PTL DEF Spec

----------------------------------------------------------------------------
(* The rate limit.                                                         *)

Waits(r) == rpc[r] \in {"new", "stamped"}

\* A request is counted for its client from the moment it is let in, until its
\* stamp is out of the window, by whichever clock.
RateInv ==
    /\ \A c \in Client : request_counts[c] \subseteq {r \in admitted : ip[r] = c}
    /\ \A r \in Request : rpc[r] = "stamped" =>
          stamp[r] <= now /\ now <= stamp[r] + MaxStall
    /\ \A r \in admitted :
          /\ ~Waits(r)
          /\ admission[r] <= now
          /\ stamp[r] <= admission[r]
          /\ admission[r] <= stamp[r] + MaxStall
          /\ r \in request_counts[ip[r]] \/ ~InWindow(stamp[r], now)

\* The numbers.
LEMMA Clocks ==
    ASSUME TypeOK
    PROVE  /\ now \in Nat /\ RATE_LIMIT \in Nat /\ RATE_WINDOW \in Nat
           /\ MaxStall \in Nat
           /\ \A r \in Request : stamp[r] \in Nat /\ admission[r] \in Nat
           /\ ip \in [Request -> Client]
           /\ admitted \subseteq Request
           /\ request_counts \in [Client -> SUBSET Request]
  BY RateAssumption DEF TypeOK, LimiterTypeOK

\* Who leaves request_counts in a step, and why.
LEMMA Dropped ==
    ASSUME TypeOK, RateInv, NEW r \in Request, Admit(r) \/ Refuse(r),
           NEW q \in admitted, q \in request_counts[ip[q]]
    PROVE  q \in request_counts'[ip[q]] \/ ~InWindow(stamp[q], now)
<1>1. /\ now \in Nat /\ RATE_WINDOW \in Nat
      /\ stamp[q] \in Nat /\ stamp[r] \in Nat
      /\ ip[q] \in Client /\ ip[r] \in Client /\ q \in Request
      /\ request_counts \in [Client -> SUBSET Request]
  BY Clocks
<1>2. stamp[r] <= now
  BY DEF Admit, Refuse, RateInv
<1>3. ~InWindow(stamp[q], stamp[r]) => ~InWindow(stamp[q], now)
  BY <1>1, <1>2 DEF InWindow
<1>4. CASE Refuse(r)
  <2>1. request_counts' = [request_counts EXCEPT ![ip[r]] = Pruned(ip[r], stamp[r])]
    BY <1>4 DEF Refuse
  <2>2. CASE ip[q] = ip[r]
    BY <1>1, <1>3, <2>1, <2>2 DEF Pruned
  <2>3. CASE ip[q] # ip[r]
    BY <1>1, <2>1, <2>3
  <2> QED
    BY <2>2, <2>3
<1>5. CASE Admit(r)
  <2> DEFINE counts == [request_counts EXCEPT ![ip[r]] =
                           Pruned(ip[r], stamp[r]) \cup {r}]
  <2>1. request_counts' = counts \/ request_counts' = Swept(counts, stamp[r])
    BY <1>5 DEF Admit
  <2>2. q \in counts[ip[q]] \/ ~InWindow(stamp[q], stamp[r])
    BY <1>1 DEF Pruned
  <2> HIDE DEF counts
  <2>3. ASSUME request_counts' = Swept(counts, stamp[r]), q \in counts[ip[q]]
        PROVE  q \in request_counts'[ip[q]] \/ ~InWindow(stamp[q], stamp[r])
    BY <1>1, <2>3 DEF Swept
  <2> QED
    BY <1>3, <2>1, <2>2, <2>3
<1> QED
  BY <1>4, <1>5

\* Who is in request_counts after a step.
LEMMA KeptOnly ==
    ASSUME TypeOK, NEW r \in Request, NEW c \in Client
    PROVE  /\ Refuse(r) => request_counts'[c] \subseteq request_counts[c]
           /\ Admit(r) => request_counts'[c] \subseteq
                 request_counts[c] \cup (IF c = ip[r] THEN {r} ELSE {})
<1>1. request_counts \in [Client -> SUBSET Request]
  BY Clocks
<1>2. ASSUME Refuse(r)
      PROVE  request_counts'[c] \subseteq request_counts[c]
  BY <1>1, <1>2 DEF Refuse, Pruned
<1>3. ASSUME Admit(r)
      PROVE  request_counts'[c] \subseteq
                request_counts[c] \cup (IF c = ip[r] THEN {r} ELSE {})
  <2> DEFINE counts == [request_counts EXCEPT ![ip[r]] =
                           Pruned(ip[r], stamp[r]) \cup {r}]
  <2>1. request_counts' = counts \/ request_counts' = Swept(counts, stamp[r])
    BY <1>3 DEF Admit
  <2>2. counts[c] \subseteq request_counts[c] \cup (IF c = ip[r] THEN {r} ELSE {})
    BY <1>1 DEF Pruned
  <2> HIDE DEF counts
  <2> QED
    BY <2>1, <2>2 DEF Swept
<1> QED
  BY <1>2, <1>3

LEMMA RateInductive ==
    ASSUME TypeOK, RateInv, [Next]_vars
    PROVE  RateInv'
<1>1. /\ now \in Nat /\ RATE_LIMIT \in Nat /\ RATE_WINDOW \in Nat
      /\ MaxStall \in Nat
      /\ \A r \in Request : stamp[r] \in Nat /\ admission[r] \in Nat
      /\ ip \in [Request -> Client]
      /\ admitted \subseteq Request
      /\ request_counts \in [Client -> SUBSET Request]
  BY Clocks
<1>2. rpc \in [Request -> HandlerPc] /\ stamp \in [Request -> 0..MaxTime]
      /\ admission \in [Request -> 0..MaxTime]
  BY DEF TypeOK, LimiterTypeOK
<1>3. CASE HandlerStep
  <2>1. UNCHANGED <<now, ip, stamp, request_counts, admitted, admission>>
    BY <1>3 DEF HandlerStep, rateVars, limiterVars
  <2>2. \A r \in Request : rpc'[r] # rpc[r] => ~Waits(r) /\ ~Waits(r)'
    BY <1>2, <1>3 DEF HandlerStep, Waits
  <2> QED
    BY <1>1, <2>1, <2>2 DEF RateInv, Waits, InWindow
<1>4. CASE Tick
  <2>1. /\ now' = now + 1
        /\ \A r \in Request : rpc[r] = "stamped" => now < stamp[r] + MaxStall
        /\ UNCHANGED <<rpc, ip, stamp, request_counts, admitted, admission>>
    BY <1>4 DEF Tick, limiterVars
  <2>2. \A r \in Request : ~InWindow(stamp[r], now) => ~InWindow(stamp'[r], now')
    BY <1>1, <2>1 DEF InWindow
  <2>3. \A r \in Request : rpc'[r] = "stamped" =>
           stamp'[r] <= now' /\ now' <= stamp'[r] + MaxStall
    BY <1>1, <2>1 DEF RateInv
  <2>4. \A r \in admitted : admission'[r] <= now'
    BY <1>1, <2>1 DEF RateInv
  <2> QED
    BY <1>1, <2>1, <2>2, <2>3, <2>4 DEF RateInv, Waits
<1>5. CASE Restart
  BY <1>1, <1>2, <1>5 DEF Restart, RateInv
<1>6. ASSUME NEW r \in Request, ReadClock(r)
      PROVE  RateInv'
  <2>1. /\ rpc' = [rpc EXCEPT ![r] = "stamped"]
        /\ stamp' = [stamp EXCEPT ![r] = now]
        /\ UNCHANGED <<now, ip, request_counts, admitted, admission>>
        /\ r \notin admitted
    BY <1>6 DEF ReadClock, limiterVars, RateInv, Waits
  <2>2. \A q \in admitted : stamp'[q] = stamp[q] /\ rpc'[q] = rpc[q]
    BY <1>1, <1>2, <2>1
  <2>3. \A q \in Request : rpc'[q] = "stamped" =>
           stamp'[q] <= now' /\ now' <= stamp'[q] + MaxStall
    BY <1>1, <1>2, <2>1 DEF RateInv
  <2> QED
    BY <1>1, <2>1, <2>2, <2>3 DEF RateInv, Waits, InWindow
<1>7. ASSUME NEW r \in Request, Refuse(r)
      PROVE  RateInv'
  <2>1. /\ rpc' = [rpc EXCEPT ![r] = "done"]
        /\ UNCHANGED <<now, ip, stamp, admitted, admission>>
    BY <1>7 DEF Refuse
  <2>2. \A c \in Client : request_counts'[c] \subseteq request_counts[c]
    BY <1>7, KeptOnly
  <2>3. \A q \in Request : Waits(q)' => Waits(q)
    BY <1>2, <2>1 DEF Waits
  <2>4. \A q \in Request : rpc'[q] = "stamped" => rpc[q] = "stamped"
    BY <1>2, <2>1
  <2>5. \A q \in admitted : q \in request_counts'[ip[q]] \/ ~InWindow(stamp[q], now)
    BY <1>7, Dropped DEF RateInv
  <2> QED
    BY <1>1, <2>1, <2>2, <2>3, <2>4, <2>5 DEF RateInv, InWindow
<1>8. ASSUME NEW r \in Request, Admit(r)
      PROVE  RateInv'
  <2>1. /\ rpc[r] = "stamped" /\ rpc' = [rpc EXCEPT ![r] = "admitted"]
        /\ admitted' = admitted \cup {r}
        /\ admission' = [admission EXCEPT ![r] = now]
        /\ UNCHANGED <<now, ip, stamp>>
    BY <1>8 DEF Admit
  <2>2. \A c \in Client : request_counts'[c] \subseteq
           request_counts[c] \cup (IF c = ip[r] THEN {r} ELSE {})
    BY <1>8, KeptOnly
  <2>3. \A c \in Client : request_counts'[c] \subseteq {q \in admitted' : ip'[q] = c}
    BY <2>1, <2>2 DEF RateInv
  <2>4. \A q \in Request : rpc'[q] = "stamped" => rpc[q] = "stamped"
    BY <1>2, <2>1
  <2>5. \A q \in admitted : q \in request_counts'[ip[q]] \/ ~InWindow(stamp[q], now)
    BY <1>8, Dropped DEF RateInv
  <2>6. r \in request_counts'[ip[r]] \/ ~InWindow(stamp[r], now)
    <3> DEFINE counts == [request_counts EXCEPT ![ip[r]] =
                             Pruned(ip[r], stamp[r]) \cup {r}]
    <3>1. request_counts' = counts \/ request_counts' = Swept(counts, stamp[r])
      BY <1>8 DEF Admit
    <3>2. r \in counts[ip[r]] /\ ip[r] \in Client
      BY <1>1
    <3> HIDE DEF counts
    <3>3. InWindow(stamp[r], now) => InWindow(stamp[r], stamp[r])
      BY <1>1, <2>1 DEF InWindow, RateInv
    <3> QED
      BY <3>1, <3>2, <3>3 DEF Swept
  <2>7. /\ r \notin admitted /\ admission'[r] = now
        /\ \A q \in admitted : admission'[q] = admission[q]
    BY <1>1, <1>2, <2>1 DEF RateInv, Waits
  <2>8. stamp[r] <= now /\ now <= stamp[r] + MaxStall
    BY <2>1 DEF RateInv
  <2>9. ~Waits(r)' /\ \A q \in admitted : ~Waits(q)'
    BY <1>1, <1>2, <2>1, <2>7 DEF RateInv, Waits
  <2>10. \A q \in admitted' :
            /\ ~Waits(q)'
            /\ admission'[q] <= now'
            /\ stamp'[q] <= admission'[q]
            /\ admission'[q] <= stamp'[q] + MaxStall
            /\ q \in request_counts'[ip'[q]] \/ ~InWindow(stamp[q], now)
    BY <1>1, <2>1, <2>5, <2>6, <2>7, <2>8, <2>9 DEF RateInv
  <2> QED
    BY <2>1, <2>3, <2>4, <2>10 DEF RateInv, InWindow
<1> QED
  BY <1>3, <1>4, <1>5, <1>6, <1>7, <1>8, RateNext DEF LimitStep

\* The requests of a client that were let in within a stretch of the window.
LetIn(c, t) ==
    {r \in admitted : /\ ip[r] = c
                      /\ admission[r] >= t
                      /\ admission[r] + MaxStall < t + RATE_WINDOW}

LEMMA BoundNext ==
    ASSUME TypeOK, RateInv, RateBound, [Next]_vars
    PROVE  RateBound'
<1>1. /\ now \in Nat /\ RATE_LIMIT \in Nat /\ RATE_WINDOW \in Nat
      /\ MaxStall \in Nat /\ MaxTime \in Nat
      /\ \A r \in Request : stamp[r] \in Nat /\ admission[r] \in Nat
      /\ ip \in [Request -> Client]
      /\ admitted \subseteq Request
  BY Clocks, RateAssumption
<1>2. TypeOK' /\ RateInv'
  BY TypeInductive, RateInductive
<1>3. /\ admission \in [Request -> 0..MaxTime]
      /\ request_counts' \in [Client -> SUBSET Request]
      /\ \A c \in Client : Cardinality(request_counts'[c]) <= RATE_LIMIT
  BY <1>2 DEF TypeOK, LimiterTypeOK
<1> SUFFICES ASSUME NEW c \in Client, NEW t \in 0..MaxTime
             PROVE  Cardinality(LetIn(c, t)') <= RATE_LIMIT
  BY DEF RateBound, LetIn
<1>4. Cardinality(LetIn(c, t)) <= RATE_LIMIT
  BY DEF RateBound, LetIn
<1>5. CASE UNCHANGED <<admitted, ip, admission>>
  <2>1. LetIn(c, t)' = LetIn(c, t)
    BY <1>5 DEF LetIn
  <2> QED
    BY <1>4, <2>1
<1>6. CASE admitted' = {}
  <2>1. LetIn(c, t)' = {}
    BY <1>6 DEF LetIn
  <2> QED
    BY <1>1, <2>1, FS_EmptySet
<1>7. ASSUME NEW r \in Request, Admit(r)
      PROVE  Cardinality(LetIn(c, t)') <= RATE_LIMIT
  <2>1. /\ rpc[r] = "stamped" /\ admitted' = admitted \cup {r}
        /\ admission' = [admission EXCEPT ![r] = now]
        /\ UNCHANGED <<now, ip, stamp>>
    BY <1>7 DEF Admit
  <2>2. r \notin admitted
    BY <2>1 DEF RateInv, Waits
  <2>3. CASE r \notin LetIn(c, t)'
    <3>1. LetIn(c, t)' = LetIn(c, t)
      BY <1>1, <1>3, <2>1, <2>2, <2>3 DEF LetIn
    <3> QED
      BY <1>4, <3>1
  <2>4. CASE r \in LetIn(c, t)'
    <3>1. now >= t /\ now + MaxStall < t + RATE_WINDOW
      BY <1>1, <1>3, <2>1, <2>4 DEF LetIn
    <3>2. ASSUME NEW q \in LetIn(c, t)'
          PROVE  q \in request_counts'[c]
      <4>1. /\ q \in admitted' /\ ip'[q] = c /\ admission'[q] >= t
            /\ q \in Request
        BY <1>1, <2>1 DEF LetIn
      <4>2. /\ admission'[q] <= stamp'[q] + MaxStall
            /\ q \in request_counts'[ip'[q]] \/ ~InWindow(stamp'[q], now')
        BY <1>2, <4>1 DEF RateInv, InWindow
      <4>3. admission'[q] \in Nat /\ stamp'[q] \in Nat /\ t \in Nat
        BY <1>1, <1>3, <2>1, <4>1
      <4>4. now < stamp'[q] + RATE_WINDOW
        BY <1>1, <3>1, <4>1, <4>2, <4>3
      <4>5. InWindow(stamp'[q], now')
        BY <2>1, <4>4 DEF InWindow
      <4> QED
        BY <4>1, <4>2, <4>5
    <3>3. LetIn(c, t)' \subseteq request_counts'[c]
      BY <3>2
    <3>4. IsFiniteSet(request_counts'[c])
      BY <1>3, RateAssumption, FS_Subset
    <3>5. /\ IsFiniteSet(LetIn(c, t)')
          /\ Cardinality(LetIn(c, t)') <= Cardinality(request_counts'[c])
      BY <3>3, <3>4, FS_Subset
    <3>6. /\ Cardinality(LetIn(c, t)') \in Nat
          /\ Cardinality(request_counts'[c]) \in Nat
      BY <3>4, <3>5, FS_CardinalityType
    <3> QED
      BY <1>1, <1>3, <3>5, <3>6
  <2> QED
    BY <2>3, <2>4
<1>8. CASE Tick \/ HandlerStep
  BY <1>5, <1>8 DEF Tick, HandlerStep, rateVars, limiterVars
<1>9. CASE Restart
  BY <1>6, <1>9 DEF Restart
<1>10. ASSUME NEW r \in Request, ReadClock(r) \/ Refuse(r)
       PROVE  Cardinality(LetIn(c, t)') <= RATE_LIMIT
  BY <1>5, <1>10 DEF ReadClock, Refuse, limiterVars
<1> QED
  BY <1>7, <1>8, <1>9, <1>10, RateNext DEF LimitStep

LEMMA RateInit == Init => RateInv /\ RateBound
<1> SUFFICES ASSUME Init
             PROVE  RateInv /\ RateBound
  OBVIOUS
<1>1. RateInv
  BY DEF Init, LimiterInit, RateInv
<1>2. \A c \in Client, t \in 0..MaxTime : LetIn(c, t) = {}
  BY DEF Init, LimiterInit, LetIn
<1>3. \A c \in Client, t \in 0..MaxTime : Cardinality(LetIn(c, t)) <= RATE_LIMIT
  BY <1>2, FS_EmptySet, RateAssumption
<1> QED
  BY <1>1, <1>3 DEF RateBound, LetIn

LEMMA RateInvariant == Spec => [](TypeOK /\ RateInv)
<1>1. TypeOK /\ RateInv /\ [Next]_vars => RateInv'
  BY RateInductive
<1> QED
  BY TypeCorrect, RateInit, <1>1, PTL DEF Spec

\* In no stretch of RATE_WINDOW, less the time a thread may lose between the clock
\* and the lock, does a master process let in more than RATE_LIMIT requests of a
\* client, whatever order the threads take the lock in and whichever of them
\* sweeps the others' entries (master/rate_limit.py:69-92).
THEOREM RateTheorem == Spec => []RateBound
<1>1. TypeOK /\ RateInv /\ RateBound /\ [Next]_vars => RateBound'
  BY BoundNext
<1> QED
  BY RateInvariant, RateInit, <1>1, PTL DEF Spec

LEMMA Refusals ==
    ASSUME TypeOK, [Next]_vars, NEW r \in Request, answer[r] = 0, answer'[r] = 429
    PROVE  Refuse(r)
<1>1. answer \in [Request -> {0, 200, 400, 429, 500, 503}]
  BY DEF TypeOK
<1>2. ASSUME NEW q \in Request, Limit(q)
      PROVE  Refuse(r)
  BY <1>1, <1>2 DEF Limit, Answer
<1>3. ASSUME NEW q \in Request,
             \/ Reject(q) \/ Save(q) \/ Load(q) \/ Split(q) \/ CreateJob(q)
             \/ Publish(q) \/ Exception(q)
      PROVE  FALSE
  BY <1>1, <1>3 DEF Reject, Save, Load, Split, CreateJob, Publish, Exception,
     Return, Answer
<1>4. ASSUME NEW q \in Request, RejectProbed(q) \/ RejectLoaded(q)
      PROVE  FALSE
  BY <1>1, <1>4 DEF RejectProbed, RejectLoaded, TurnDown, Return, Answer
<1>5. ~(Restart \/ Passing \/ UNCHANGED vars)
  BY DEF Restart, Passing, handlerVars, vars
<1> QED
  BY <1>2, <1>3, <1>4, <1>5 DEF Next, Handle

\* A client is refused only when RATE_LIMIT of its requests were let in within the
\* window before its stamp: neither refused requests nor a sweep nor a thread with
\* an older stamp take its turn (master/rate_limit.py:76-88).
THEOREM RefusalTheorem == Spec => RefusedForAReason
<1> DEFINE Before(r) ==
        {q \in admitted : /\ ip[q] = ip[r]
                          /\ admission[q] + RATE_WINDOW > stamp[r]}
           Justified ==
        \A r \in Request :
            answer[r] = 0 /\ answer'[r] = 429 =>
                Cardinality(Before(r)) >= RATE_LIMIT
<1>1. TypeOK /\ RateInv /\ [Next]_vars => Justified
  <2> SUFFICES ASSUME TypeOK, RateInv, [Next]_vars, NEW r \in Request,
                      answer[r] = 0, answer'[r] = 429
               PROVE  Cardinality(Before(r)) >= RATE_LIMIT
    OBVIOUS
  <2> DEFINE kept == Pruned(ip[r], stamp[r])
  <2>1. /\ RATE_LIMIT \in Nat /\ RATE_WINDOW \in Nat
        /\ \A q \in Request : stamp[q] \in Nat /\ admission[q] \in Nat
        /\ ip \in [Request -> Client]
        /\ admitted \subseteq Request
        /\ request_counts \in [Client -> SUBSET Request]
    BY Clocks
  <2>2. Cardinality(kept) >= RATE_LIMIT
    BY Refusals DEF Refuse, Full
  <2>3. kept \subseteq Before(r)
    <3> SUFFICES ASSUME NEW q \in kept
                 PROVE  q \in Before(r)
      OBVIOUS
    <3>1. /\ q \in request_counts[ip[r]] /\ ip[r] \in Client
          /\ stamp[r] < stamp[q] + RATE_WINDOW
      BY <2>1 DEF Pruned, InWindow
    <3>2. q \in admitted /\ ip[q] = ip[r] /\ stamp[q] <= admission[q]
      BY <3>1 DEF RateInv
    <3>3. stamp[q] \in Nat /\ admission[q] \in Nat /\ stamp[r] \in Nat
      BY <2>1, <3>2
    <3>4. admission[q] + RATE_WINDOW > stamp[r]
      BY <2>1, <3>1, <3>2, <3>3
    <3> QED
      BY <3>2, <3>4
  <2>4. IsFiniteSet(Before(r))
    <3>1. Before(r) \subseteq Request
      BY <2>1
    <3> QED
      BY <3>1, RateAssumption, FS_Subset
  <2> HIDE DEF kept, Before
  <2>5. IsFiniteSet(kept) /\ Cardinality(kept) <= Cardinality(Before(r))
    BY <2>3, <2>4, FS_Subset
  <2>6. Cardinality(kept) \in Nat /\ Cardinality(Before(r)) \in Nat
    BY <2>4, <2>5, FS_CardinalityType
  <2> QED
    BY <2>1, <2>2, <2>5, <2>6
<1> QED
  BY RateInvariant, <1>1, PTL DEF Spec, RefusedForAReason

----------------------------------------------------------------------------
(* What a request leaves behind.                                           *)

\* Where a request is says what it has left so far.
Clean(r) ==
    /\ rpc[r] \in {"new", "stamped", "admitted"} =>
          answer[r] = 0 /\ r \notin stored /\ r \notin DOMAIN job
    /\ rpc[r] \in {"saved", "loaded"} =>
          answer[r] = 0 /\ r \notin DOMAIN job /\ file[r] \in File
    /\ rpc[r] = "removed" => answer[r] = 0 /\ r \notin stored
    /\ rpc[r] = "created" => answer[r] = 0 /\ r \notin stored /\ r \in DOMAIN job
    /\ rpc[r] = "loaded" => ~ProbedTooLarge(file[r])

CleanInv ==
    /\ NothingLeftBehind
    /\ \A r \in Request : Clean(r)

\* What NothingLeftBehind and Clean say of a request depends only on this.
LEMMA Untouched ==
    ASSUME CleanInv, NEW r \in Request,
           rpc'[r] = rpc[r], answer'[r] = answer[r], file'[r] = file[r],
           r \in stored' <=> r \in stored,
           r \in DOMAIN job' <=> r \in DOMAIN job
    PROVE  /\ Clean(r)'
           /\ answer'[r] \in {400, 429, 503} => r \notin stored' /\ r \notin DOMAIN job'
           /\ answer'[r] = 200 => r \notin stored' /\ r \in DOMAIN job'
  BY DEF CleanInv, NothingLeftBehind, Clean, ProbedTooLarge

\* A step of one request.
LEMMA OneClean ==
    ASSUME TypeOK, CleanInv, NEW r \in Request, Handle(r) \/ Exception(r)
    PROVE  /\ Clean(r)'
           /\ answer'[r] \in {400, 429, 503} => r \notin stored' /\ r \notin DOMAIN job'
           /\ answer'[r] = 200 => r \notin stored' /\ r \in DOMAIN job'
           /\ \A q \in Request \ {r} :
                 /\ rpc'[q] = rpc[q] /\ answer'[q] = answer[q] /\ file'[q] = file[q]
                 /\ q \in stored' <=> q \in stored
                 /\ q \in DOMAIN job' <=> q \in DOMAIN job
<1> DEFINE Good ==
        /\ Clean(r)'
        /\ answer'[r] \in {400, 429, 503} => r \notin stored' /\ r \notin DOMAIN job'
        /\ answer'[r] = 200 => r \notin stored' /\ r \in DOMAIN job'
    Others ==
        \A q \in Request \ {r} :
           /\ rpc'[q] = rpc[q] /\ answer'[q] = answer[q] /\ file'[q] = file[q]
           /\ q \in stored' <=> q \in stored
           /\ q \in DOMAIN job' <=> q \in DOMAIN job
<1>1. /\ rpc \in [Request -> HandlerPc]
      /\ file \in [Request -> File \cup {None}]
      /\ answer \in [Request -> {0, 200, 400, 429, 500, 503}]
      /\ stored \in SUBSET Request
  BY DEF TypeOK
<1>2. /\ Clean(r)
      /\ answer[r] \in {400, 429, 503} => r \notin stored /\ r \notin DOMAIN job
      /\ answer[r] = 200 => r \notin stored /\ r \in DOMAIN job
  BY DEF CleanInv, NothingLeftBehind
<1>3. ASSUME Limit(r)
      PROVE  Good /\ Others
  BY <1>1, <1>2, <1>3 DEF Limit, ReadClock, Admit, Refuse, Answer, Clean
<1>4. ASSUME Reject(r)
      PROVE  Good /\ Others
  BY <1>1, <1>2, <1>4 DEF Reject, Goto, Answer, Clean
<1>5. ASSUME Save(r)
      PROVE  Good /\ Others
  <2>1. PICK f \in File : file' = [file EXCEPT ![r] = f]
    BY <1>5 DEF Save
  <2>2. file'[r] \in File /\ \A q \in Request \ {r} : file'[q] = file[q]
    BY <1>1, <2>1
  <2>3. /\ rpc[r] = "admitted" /\ rpc' = [rpc EXCEPT ![r] = "saved"]
        /\ stored' = stored \cup {r}
        /\ UNCHANGED <<job, tasks, answer, faults>>
    BY <1>5 DEF Save, Goto
  <2> QED
    BY <1>1, <1>2, <2>2, <2>3 DEF Clean
<1>6. ASSUME RejectProbed(r) \/ RejectLoaded(r)
      PROVE  Good /\ Others
  <2>1. /\ rpc[r] \in {"saved", "loaded"} /\ rpc' = [rpc EXCEPT ![r] = "done"]
        /\ stored' = stored \ {r}
        /\ answer' = [answer EXCEPT ![r] = 400]
        /\ file' = [file EXCEPT ![r] = None]
        /\ UNCHANGED job
    BY <1>6 DEF RejectProbed, RejectLoaded, TurnDown, Goto, Return, Answer
  <2> QED
    BY <1>1, <1>2, <2>1 DEF Clean
<1>7. ASSUME Load(r)
      PROVE  Good /\ Others
  <2>1. /\ rpc[r] = "saved" /\ rpc' = [rpc EXCEPT ![r] = "loaded"]
        /\ ~ProbedTooLarge(file[r])
        /\ UNCHANGED <<file, stored, job, answer>>
    BY <1>7 DEF Load, Goto
  <2>2. ~ProbedTooLarge(file'[r])
    BY <2>1
  <2> QED
    BY <1>1, <1>2, <2>1, <2>2 DEF Clean
<1>8. ASSUME Split(r)
      PROVE  Good /\ Others
  BY <1>1, <1>2, <1>8 DEF Split, Goto, Clean
<1>9. ASSUME CreateJob(r)
      PROVE  Good /\ Others
  <2>1. /\ rpc[r] = "removed" /\ rpc' = [rpc EXCEPT ![r] = "created"]
        /\ DOMAIN job' = DOMAIN job \cup {r}
        /\ UNCHANGED <<file, stored, answer>>
    BY <1>9 DEF CreateJob, Goto
  <2> QED
    BY <1>1, <1>2, <2>1 DEF Clean
<1>10. ASSUME Publish(r)
       PROVE  Good /\ Others
  <2>1. /\ rpc[r] = "created" /\ rpc' = [rpc EXCEPT ![r] = "done"]
        /\ file' = [file EXCEPT ![r] = None]
        /\ answer'[r] \in {200, 500}
        /\ \A q \in Request \ {r} : answer'[q] = answer[q]
        /\ UNCHANGED <<stored, job>>
    BY <1>1, <1>10 DEF Publish, Goto, Return, Answer
  <2> QED
    BY <1>1, <1>2, <2>1 DEF Clean
<1>11. ASSUME Exception(r)
       PROVE  Good /\ Others
  <2>1. /\ rpc' = [rpc EXCEPT ![r] = "done"]
        /\ file' = [file EXCEPT ![r] = None]
        /\ answer' = [answer EXCEPT ![r] = 500]
        /\ UNCHANGED <<stored, job>>
    BY <1>11 DEF Exception, Return, Answer
  <2> QED
    BY <1>1, <1>2, <2>1 DEF Clean
<1> QED
  BY <1>3, <1>4, <1>5, <1>6, <1>7, <1>8, <1>9, <1>10, <1>11, Zenon DEF Handle

LEMMA CleanInductive ==
    ASSUME TypeOK, CleanInv, [Next]_vars
    PROVE  CleanInv'
<1>1. ASSUME NEW r \in Request, Handle(r) \/ Exception(r)
      PROVE  CleanInv'
  BY <1>1, OneClean, Untouched DEF CleanInv, NothingLeftBehind
<1>2. CASE Restart
  <2>1. \A r \in Request : \/ rpc'[r] = rpc[r] /\ rpc[r] \in {"new", "done"}
                           \/ rpc'[r] = "done"
    BY <1>2 DEF Restart
  <2>2. UNCHANGED <<stored, job, answer>>
    BY <1>2 DEF Restart
  <2> QED
    BY <2>1, <2>2 DEF CleanInv, NothingLeftBehind, Clean
<1>3. CASE Passing \/ UNCHANGED vars
  <2>1. UNCHANGED <<rpc, file, stored, job, answer>>
    BY <1>3 DEF Passing, Tick, handlerVars, vars
  <2> QED
    BY <2>1, Untouched DEF CleanInv, NothingLeftBehind
<1> QED
  BY <1>1, <1>2, <1>3 DEF Next

LEMMA CleanInvariant == Spec => [](TypeOK /\ CleanInv)
<1>1. Init => CleanInv
  BY DEF Init, LimiterInit, CleanInv, NothingLeftBehind, Clean
<1> QED
  BY <1>1, CleanInductive, TypeCorrect, PTL DEF Spec

\* A request that is turned down, by whichever check, leaves neither a file nor
\* a job, and one that is answered 200 leaves its job and no file, whatever the
\* other threads and the restarts do (master/app.py:119-206,
\* master/ml_routes.py:82-162).
THEOREM CleanTheorem == Spec => []NothingLeftBehind
  BY CleanInvariant, PTL DEF CleanInv

----------------------------------------------------------------------------
(* The arithmetic of the tiles.                                            *)

\* The whole parts of a number, and the one it is in.
LEMMA Divided ==
    ASSUME NEW a \in Nat, NEW c \in Nat \ {0}
    PROVE  /\ a \div c \in Nat
           /\ c * (a \div c) \in Nat
           /\ c * (a \div c) <= a
           /\ a < c * (a \div c) + c
<1>0. c \in Nat /\ c > 0
  OBVIOUS
<1>1. a \div c \in Nat
  BY <1>0
<1>2. c * (a \div c) <= a
  BY <1>0
<1>3. a < c * (a \div c) + c
  BY <1>0
<1>4. \A q \in Nat : c * q \in Nat
  OBVIOUS
<1> QED
  BY <1>1, <1>2, <1>3, <1>4

\* As many parts as hold a, and not one too many.
LEMMA CeilHolds ==
    ASSUME NEW a \in Nat, NEW c \in Nat \ {0}
    PROVE  /\ Ceil(a, c) \in Nat
           /\ a <= c * Ceil(a, c)
           /\ c * Ceil(a, c) < a + c
<1> DEFINE n == a + c - 1
           q == n \div c
<1>1. n \in Nat
  OBVIOUS
<1>2. Ceil(a, c) = q
  BY DEF Ceil
<1>3. q \in Nat /\ c * q \in Nat /\ c * q <= n /\ n < c * q + c
  <2> HIDE DEF n
  <2> QED
    BY <1>1, Divided
<1> HIDE DEF q
<1>4. PICK p \in Nat : p = c * q
  BY <1>3
<1> QED
  BY <1>1, <1>2, <1>3, <1>4

\* The products of the same number are in the order of the other factor.
LEMMA TimesGrows ==
    ASSUME NEW a \in Nat, NEW b \in Nat, NEW s \in Nat, a < b
    PROVE  s * a + s <= s * b /\ s * a \in Nat /\ s * b \in Nat
<1>1. PICK i \in Nat : b = a + 1 + i
  <2>1. b - a - 1 \in Nat /\ b = a + 1 + (b - a - 1)
    OBVIOUS
  <2> QED
    BY <2>1
<1>2. s * b = s * a + s + s * i
  BY <1>1
<1>3. s * i \in Nat /\ s * a \in Nat /\ s * b \in Nat
  OBVIOUS
<1> QED
  BY <1>2, <1>3

\* A part begins before the end exactly if it is not one too many.
LEMMA CeilPart ==
    ASSUME NEW a \in Nat, NEW c \in Nat \ {0}, NEW i \in Nat
    PROVE  i < Ceil(a, c) <=> c * i < a
<1>1. Ceil(a, c) \in Nat /\ a <= c * Ceil(a, c) /\ c * Ceil(a, c) < a + c
  BY CeilHolds
<1>2. ASSUME i < Ceil(a, c)
      PROVE  c * i < a
  <2>1. c * i + c <= c * Ceil(a, c) /\ c * i \in Nat /\ c * Ceil(a, c) \in Nat
    BY <1>1, <1>2, TimesGrows
  <2> QED
    BY <1>1, <2>1
<1>3. ASSUME Ceil(a, c) <= i
      PROVE  a <= c * i
  <2>1. c * Ceil(a, c) <= c * i /\ c * i \in Nat /\ c * Ceil(a, c) \in Nat
    <3>1. CASE Ceil(a, c) = i
      BY <1>1, <3>1
    <3>2. CASE Ceil(a, c) < i
      BY <1>1, <3>2, TimesGrows
    <3> QED
      BY <1>1, <1>3, <3>1, <3>2
  <2> QED
    BY <1>1, <2>1
<1>4. c * i \in Nat
  OBVIOUS
<1> QED
  BY <1>1, <1>2, <1>3, <1>4

----------------------------------------------------------------------------
(* The layout.                                                             *)

Grid(width, height, tile_size) ==
    (0..Ceil(height, tile_size) - 1) \X (0..Ceil(width, tile_size) - 1)

Big(width, height, tile_size) ==
    {c \in Grid(width, height, tile_size) :
        BigEnough(Cells(width, height, tile_size)[c])}

\* The place of c in the list of the cells B.
Place(B, c) == Cardinality({d \in B : Earlier(d, c)})

\* The layout is a list of the big cells.
LEMMA LayoutIsList ==
    ASSUME NEW width, NEW height, NEW tile_size
    PROVE  tile_geometries(width, height, tile_size) =
              {[tile_id |-> Place(Big(width, height, tile_size), c),
                at |-> Cells(width, height, tile_size)[c]] :
                  c \in Big(width, height, tile_size)}
<1>1. DOMAIN Cells(width, height, tile_size) = Grid(width, height, tile_size)
  BY DEF Cells, Grid
<1> QED
  BY <1>1 DEF tile_geometries, Big, Place

\* The cells are pairs of numbers, and finitely many.
LEMMA GridSize ==
    ASSUME NEW width \in Nat, NEW height \in Nat, NEW tile_size \in Nat \ {0}
    PROVE  /\ Big(width, height, tile_size) \subseteq Nat \X Nat
           /\ IsFiniteSet(Big(width, height, tile_size))
           /\ Cardinality(Big(width, height, tile_size)) \in Nat
           /\ Cardinality(Big(width, height, tile_size))
                 <= Ceil(width, tile_size) * Ceil(height, tile_size)
<1> DEFINE a == Ceil(width, tile_size)
           b == Ceil(height, tile_size)
           G == (0..b - 1) \X (0..a - 1)
           B == Big(width, height, tile_size)
<1>1. a \in Nat /\ b \in Nat
  BY CeilHolds
<1>2. B \subseteq G
  BY DEF Big, Grid
<1> HIDE DEF a, b, B
<1>3. /\ IsFiniteSet(0..a - 1) /\ Cardinality(0..a - 1) = a
      /\ IsFiniteSet(0..b - 1) /\ Cardinality(0..b - 1) = b
  <2>1. \A n \in Nat : IsFiniteSet(0..n - 1) /\ Cardinality(0..n - 1) = n
    <3> SUFFICES ASSUME NEW n \in Nat
                 PROVE  IsFiniteSet(0..n - 1) /\ Cardinality(0..n - 1) = n
      OBVIOUS
    <3>1. /\ IsFiniteSet(0..n - 1)
          /\ Cardinality(0..n - 1) = IF 0 > n - 1 THEN 0 ELSE (n - 1) - 0 + 1
      BY FS_Interval
    <3> QED
      BY <3>1
  <2> QED
    BY <1>1, <2>1
<1>4. IsFiniteSet(G) /\ Cardinality(G) = b * a
  BY <1>3, FS_Product
<1>5. IsFiniteSet(B) /\ Cardinality(B) <= Cardinality(G)
  BY <1>2, <1>4, FS_Subset
<1>6. Cardinality(B) \in Nat
  BY <1>5, FS_CardinalityType
<1>7. b * a = a * b
  BY <1>1
<1>8. G \subseteq Nat \X Nat
  BY <1>1
<1> QED
  BY <1>2, <1>4, <1>5, <1>6, <1>7, <1>8 DEF a, b, B

\* The places in a list of cells are the numbers from 0 on, each of them once.
LEMMA Places ==
    ASSUME NEW B \in SUBSET (Nat \X Nat), IsFiniteSet(B)
    PROVE  /\ {Place(B, c) : c \in B} = 0..Cardinality(B) - 1
           /\ \A c, d \in B : c # d => Place(B, c) # Place(B, d)
<1> DEFINE Upto(c) == {d \in B : Earlier(d, c)}
           n == Cardinality(B)
<1>1. n \in Nat
  BY FS_CardinalityType
<1>2. \A c \in B : c[1] \in Nat /\ c[2] \in Nat /\ c = <<c[1], c[2]>>
  OBVIOUS
<1>3. \A c \in B : IsFiniteSet(Upto(c))
  <2>1. \A c \in B : Upto(c) \subseteq B
    OBVIOUS
  <2> QED
    BY <2>1, FS_Subset
<1>4. \A c \in B : Place(B, c) \in Nat
  BY <1>3, FS_CardinalityType DEF Place
<1>5. ASSUME NEW c \in B, NEW S, IsFiniteSet(S), Upto(c) \subseteq S, c \in S
      PROVE  Place(B, c) + 1 <= Cardinality(S)
  <2>1. c \notin Upto(c)
    BY <1>2 DEF Earlier
  <2>2. Cardinality(Upto(c) \cup {c}) = Place(B, c) + 1
    BY <1>3, <2>1, FS_AddElement DEF Place
  <2>3. Upto(c) \cup {c} \subseteq S
    BY <1>5
  <2> QED
    BY <1>5, <2>2, <2>3, FS_Subset
<1>6. \A c \in B : Place(B, c) \in 0..n - 1
  <2> SUFFICES ASSUME NEW c \in B PROVE Place(B, c) \in 0..n - 1
    OBVIOUS
  <2>1. Place(B, c) + 1 <= n
    BY <1>5
  <2> HIDE DEF n
  <2> QED
    BY <1>1, <1>4, <2>1
<1>7. \A c, d \in B : Earlier(c, d) => Place(B, c) < Place(B, d)
  <2> SUFFICES ASSUME NEW c \in B, NEW d \in B, Earlier(c, d)
               PROVE  Place(B, c) < Place(B, d)
    OBVIOUS
  <2>1. Upto(c) \subseteq Upto(d) /\ c \in Upto(d)
    BY <1>2 DEF Earlier
  <2>2. Place(B, c) + 1 <= Place(B, d)
    BY <1>3, <1>5, <2>1 DEF Place
  <2> QED
    BY <1>4, <2>2
<1>8. \A c, d \in B : c # d => Place(B, c) # Place(B, d)
  <2> SUFFICES ASSUME NEW c \in B, NEW d \in B, c # d
               PROVE  Place(B, c) # Place(B, d)
    OBVIOUS
  <2>1. c[1] # d[1] \/ c[2] # d[2]
    BY <1>2
  <2>2. Earlier(c, d) \/ Earlier(d, c)
    BY <1>2, <2>1 DEF Earlier
  <2> QED
    BY <1>4, <1>7, <2>2
<1> DEFINE f == [c \in B |-> Place(B, c)]
<1>9. f \in Injection(B, 0..n - 1)
  BY <1>6, <1>8, Zenon DEF Injection, IsInjective
<1>10. IsFiniteSet(0..n - 1) /\ Cardinality(0..n - 1) = n
  <2>1. /\ IsFiniteSet(0..n - 1)
        /\ Cardinality(0..n - 1) = IF 0 > n - 1 THEN 0 ELSE (n - 1) - 0 + 1
    BY <1>1, FS_Interval
  <2> HIDE DEF n
  <2> QED
    BY <1>1, <2>1
<1>11. f \in Surjection(B, 0..n - 1)
  BY <1>9, <1>10, FS_Injection
<1>12. \A i \in 0..n - 1 : \E c \in B : Place(B, c) = i
  BY <1>11 DEF Surjection
<1> QED
  BY <1>6, <1>8, <1>12

\* The ids of the tiles are the numbers from 0 on.
LEMMA LayoutIds ==
    ASSUME NEW width \in Nat, NEW height \in Nat, NEW tile_size \in Nat \ {0}
    PROVE  LET tiles == tile_geometries(width, height, tile_size)
           IN /\ Cardinality(tiles) \in Nat
              /\ {t.tile_id : t \in tiles} = 0..Cardinality(tiles) - 1
              /\ Cardinality(tiles)
                    <= Ceil(width, tile_size) * Ceil(height, tile_size)
<1> DEFINE B == Big(width, height, tile_size)
           cells == Cells(width, height, tile_size)
           tiles == tile_geometries(width, height, tile_size)
           tile(c) == [tile_id |-> Place(B, c), at |-> cells[c]]
<1>1. tiles = {tile(c) : c \in B}
  BY LayoutIsList
<1>2. /\ B \in SUBSET (Nat \X Nat) /\ IsFiniteSet(B)
      /\ Cardinality(B) \in Nat
      /\ Cardinality(B) <= Ceil(width, tile_size) * Ceil(height, tile_size)
  BY GridSize
<1> HIDE DEF B, cells, tiles
<1>3. /\ {Place(B, c) : c \in B} = 0..Cardinality(B) - 1
      /\ \A c, d \in B : c # d => Place(B, c) # Place(B, d)
  BY <1>2, Places
<1>4. \A c \in B : tile(c).tile_id = Place(B, c)
  OBVIOUS
<1> HIDE DEF tile
<1> DEFINE f == [c \in B |-> tile(c)]
<1>5. f \in Injection(B, tiles)
  <2>1. f \in [B -> tiles]
    BY <1>1
  <2>2. \A c, d \in B : tile(c) = tile(d) => c = d
    BY <1>3, <1>4
  <2> QED
    BY <2>1, <2>2, Zenon DEF Injection, IsInjective
<1>6. f \in Surjection(B, tiles)
  BY <1>1, Zenon DEF Surjection
<1>7. Cardinality(tiles) = Cardinality(B)
  BY <1>2, <1>5, <1>6, FS_Surjection
<1>8. {t.tile_id : t \in tiles} = {Place(B, c) : c \in B}
  BY <1>1, <1>4
<1> QED
  BY <1>2, <1>3, <1>7, <1>8 DEF tiles

\* Where the cells are: each begins at a multiple of the tile size within the
\* image, and ends there or at the edge.
LEMMA CellEdges ==
    ASSUME NEW width \in Nat, NEW height \in Nat, NEW tile_size \in Nat \ {0},
           NEW c \in Grid(width, height, tile_size)
    PROVE  LET cell == Cells(width, height, tile_size)[c]
           IN /\ c[1] \in Nat /\ c[2] \in Nat /\ c = <<c[1], c[2]>>
              /\ cell.x = tile_size * c[2] /\ cell.y = tile_size * c[1]
              /\ cell.x \in Nat /\ cell.x < width
              /\ cell.y \in Nat /\ cell.y < height
              /\ cell.width = Least(cell.x + tile_size, width) - cell.x
              /\ cell.height = Least(cell.y + tile_size, height) - cell.y
<1>1. Ceil(width, tile_size) \in Nat /\ Ceil(height, tile_size) \in Nat
  BY CeilHolds
<1>2. /\ c[1] \in Nat /\ c[2] \in Nat /\ c = <<c[1], c[2]>>
      /\ c[1] < Ceil(height, tile_size) /\ c[2] < Ceil(width, tile_size)
  BY <1>1 DEF Grid
<1>3. /\ tile_size * c[2] < width /\ tile_size * c[1] < height
  BY <1>2, CeilPart
<1>4. /\ tile_size * c[2] \in Nat /\ tile_size * c[1] \in Nat
      /\ c[2] * tile_size = tile_size * c[2]
      /\ c[1] * tile_size = tile_size * c[1]
  BY <1>2
<1>5. Cells(width, height, tile_size)[c] =
         Cell(tile_size * c[2], tile_size * c[1], width, height, tile_size)
  BY <1>4 DEF Cells, Grid
<1> QED
  BY <1>2, <1>3, <1>4, <1>5 DEF Cell

\* Which pixels are in a cell.
LEMMA CellPixels ==
    ASSUME NEW width \in Nat, NEW height \in Nat, NEW tile_size \in Nat \ {0},
           NEW c \in Grid(width, height, tile_size), NEW x \in Nat, NEW y \in Nat
    PROVE  <<x, y>> \in Pixels(Cells(width, height, tile_size)[c]) <=>
              /\ tile_size * c[2] <= x /\ x < tile_size * c[2] + tile_size
              /\ tile_size * c[1] <= y /\ y < tile_size * c[1] + tile_size
              /\ x < width /\ y < height
<1> DEFINE cell == Cells(width, height, tile_size)[c]
<1>1. /\ cell.x = tile_size * c[2] /\ cell.y = tile_size * c[1]
      /\ cell.x \in Nat /\ cell.y \in Nat
      /\ cell.width = Least(cell.x + tile_size, width) - cell.x
      /\ cell.height = Least(cell.y + tile_size, height) - cell.y
  BY CellEdges
<1> HIDE DEF cell
<1>2. \A l, n, e, z \in Nat :
         z \in l..l + (Least(l + n, e) - l) - 1 <=> l <= z /\ z < l + n /\ z < e
  BY DEF Least
<1>3. x \in cell.x..cell.x + cell.width - 1 <=>
         cell.x <= x /\ x < cell.x + tile_size /\ x < width
  BY <1>1, <1>2
<1>4. y \in cell.y..cell.y + cell.height - 1 <=>
         cell.y <= y /\ y < cell.y + tile_size /\ y < height
  BY <1>1, <1>2
<1>5. <<x, y>> \in Pixels(cell) <=>
         /\ x \in cell.x..cell.x + cell.width - 1
         /\ y \in cell.y..cell.y + cell.height - 1
  BY DEF Pixels
<1>6. <<x, y>> \in Pixels(cell) <=>
         /\ cell.x <= x /\ x < cell.x + tile_size
         /\ cell.y <= y /\ y < cell.y + tile_size
         /\ x < width /\ y < height
  BY <1>3, <1>4, <1>5
<1> QED
  BY <1>1, <1>6 DEF cell

\* Two cells have no pixel in common.
LEMMA CellsApart ==
    ASSUME NEW width \in Nat, NEW height \in Nat, NEW tile_size \in Nat \ {0},
           NEW c \in Grid(width, height, tile_size),
           NEW d \in Grid(width, height, tile_size), c # d
    PROVE  Pixels(Cells(width, height, tile_size)[c])
              \cap Pixels(Cells(width, height, tile_size)[d]) = {}
<1> DEFINE cell(e) == Cells(width, height, tile_size)[e]
<1>1. \A e \in Grid(width, height, tile_size) :
         /\ e[1] \in Nat /\ e[2] \in Nat /\ e = <<e[1], e[2]>>
         /\ cell(e).x \in Nat /\ cell(e).y \in Nat
  BY CellEdges
<1> SUFFICES ASSUME NEW p, p \in Pixels(cell(c)), p \in Pixels(cell(d))
             PROVE  FALSE
  OBVIOUS
<1> HIDE DEF cell
<1>2. PICK x, y : p = <<x, y>> /\ x \in Nat /\ y \in Nat
  <2>1. PICK x \in cell(c).x..cell(c).x + cell(c).width - 1,
             y \in cell(c).y..cell(c).y + cell(c).height - 1 : p = <<x, y>>
    BY DEF Pixels
  <2>2. cell(c).x \in Nat /\ cell(c).y \in Nat
    BY <1>1
  <2>3. x \in Nat /\ y \in Nat
    BY <2>1, <2>2
  <2> QED
    BY <2>1, <2>3
<1>3. /\ tile_size * c[2] <= x /\ x < tile_size * c[2] + tile_size
      /\ tile_size * c[1] <= y /\ y < tile_size * c[1] + tile_size
      /\ tile_size * d[2] <= x /\ x < tile_size * d[2] + tile_size
      /\ tile_size * d[1] <= y /\ y < tile_size * d[1] + tile_size
  BY <1>2, CellPixels DEF cell
<1>4. \A a, b, z \in Nat :
         /\ tile_size * a <= z /\ z < tile_size * a + tile_size
         /\ tile_size * b <= z /\ z < tile_size * b + tile_size
         => a = b
  <2> SUFFICES ASSUME NEW a \in Nat, NEW b \in Nat, NEW z \in Nat,
                      tile_size * a <= z, z < tile_size * a + tile_size,
                      tile_size * b <= z, z < tile_size * b + tile_size
               PROVE  a = b
    OBVIOUS
  <2>1. a < b => tile_size * a + tile_size <= tile_size * b
    BY TimesGrows
  <2>2. b < a => tile_size * b + tile_size <= tile_size * a
    BY TimesGrows
  <2>3. PICK m \in Nat, n \in Nat : m = tile_size * a /\ n = tile_size * b
    OBVIOUS
  <2> QED
    BY <2>1, <2>2, <2>3
<1>5. c[1] = d[1] /\ c[2] = d[2]
  BY <1>1, <1>2, <1>3, <1>4
<1> QED
  BY <1>1, <1>5

\* A pixel that no tile covers is in a strip that is too narrow for one.
LEMMA CellsCover ==
    ASSUME NEW width \in Nat, NEW height \in Nat, NEW tile_size \in Nat \ {0},
           MIN_TILE <= tile_size,
           NEW x \in Nat, NEW y \in Nat, x < width, y < height
    PROVE  \/ \E c \in Big(width, height, tile_size) :
                 <<x, y>> \in Pixels(Cells(width, height, tile_size)[c])
           \/ x + MIN_TILE > width \/ y + MIN_TILE > height
<1> DEFINE i == x \div tile_size
           k == y \div tile_size
           c == <<k, i>>
           cell == Cells(width, height, tile_size)[c]
<1>1. /\ i \in Nat /\ tile_size * i \in Nat
      /\ tile_size * i <= x /\ x < tile_size * i + tile_size
      /\ k \in Nat /\ tile_size * k \in Nat
      /\ tile_size * k <= y /\ y < tile_size * k + tile_size
  BY Divided
<1> HIDE DEF i, k
<1>2. i < Ceil(width, tile_size) /\ k < Ceil(height, tile_size)
  <2>1. tile_size * i < width /\ tile_size * k < height
    BY <1>1
  <2> QED
    BY <1>1, <2>1, CeilPart
<1>3. c \in Grid(width, height, tile_size)
  <2>1. Ceil(width, tile_size) \in Nat /\ Ceil(height, tile_size) \in Nat
    BY CeilHolds
  <2> QED
    BY <1>1, <1>2, <2>1 DEF Grid
<1>4. <<x, y>> \in Pixels(cell)
  BY <1>1, <1>3, CellPixels
<1>5. CASE c \in Big(width, height, tile_size)
  BY <1>4, <1>5
<1>6. CASE c \notin Big(width, height, tile_size)
  <2>1. ~BigEnough(cell)
    BY <1>3, <1>6 DEF Big
  <2>2. /\ cell.x = tile_size * i /\ cell.y = tile_size * k
        /\ cell.width = Least(cell.x + tile_size, width) - cell.x
        /\ cell.height = Least(cell.y + tile_size, height) - cell.y
    BY <1>3, CellEdges
  <2>3. MIN_TILE \in Nat
    BY TilingAssumption
  <2> HIDE DEF cell, c
  <2>4. PICK a \in Nat, b \in Nat : a = tile_size * i /\ b = tile_size * k
    BY <1>1
  <2>5. ~(Least(a + tile_size, width) - a >= MIN_TILE)
           \/ ~(Least(b + tile_size, height) - b >= MIN_TILE)
    BY <2>1, <2>2, <2>4 DEF BigEnough
  <2>6. a <= x /\ b <= y
    BY <1>1, <2>4
  <2> QED
    BY <2>3, <2>4, <2>5, <2>6 DEF Least
<1> QED
  BY <1>5, <1>6

\* What the theorem asks of a job, once its layout is known.
LEMMA LayoutGood ==
    ASSUME NEW width \in Nat, NEW height \in Nat, NEW tile_size \in Nat \ {0},
           ~TooManyTiles(width, height, tile_size)
    PROVE  LET tiles == tile_geometries(width, height, tile_size)
           IN /\ Cardinality(tiles) <= MAX_TILES
              /\ {t.tile_id : t \in tiles} = 0..Cardinality(tiles) - 1
              /\ \A t, u \in tiles :
                    t # u => Pixels(t.at) \cap Pixels(u.at) = {}
              /\ \A p \in ((0..width - 1) \X (0..height - 1)) \ Painted(tiles) :
                    \/ tile_size < MIN_TILE
                    \/ p[1] + MIN_TILE > width \/ p[2] + MIN_TILE > height
<1> DEFINE tiles == tile_geometries(width, height, tile_size)
           cells == Cells(width, height, tile_size)
           B == Big(width, height, tile_size)
           id(c) == Place(B, c)
<1>1. tiles = {[tile_id |-> id(c), at |-> cells[c]] : c \in B}
  BY LayoutIsList
<1>2. Cardinality(tiles) <= MAX_TILES
  <2>1. Ceil(width, tile_size) \in Nat /\ Ceil(height, tile_size) \in Nat
    BY CeilHolds
  <2>2. PICK n \in Nat : n = Ceil(width, tile_size) * Ceil(height, tile_size)
    BY <2>1
  <2>3. Cardinality(tiles) \in Nat /\ Cardinality(tiles) <= n
    BY <2>2, LayoutIds
  <2>4. MAX_TILES \in Nat /\ ~(n > MAX_TILES)
    BY <2>2, TilingAssumption DEF TooManyTiles
  <2> HIDE DEF tiles
  <2> QED
    BY <2>3, <2>4
<1>3. {t.tile_id : t \in tiles} = 0..Cardinality(tiles) - 1
  BY LayoutIds
<1>4. B \subseteq Grid(width, height, tile_size)
  BY DEF Big
<1>5. \A c, d \in B : c # d => Pixels(cells[c]) \cap Pixels(cells[d]) = {}
  BY <1>4, CellsApart
<1> HIDE DEF tiles, cells, B, id
<1>6. \A t, u \in tiles : t # u => Pixels(t.at) \cap Pixels(u.at) = {}
  <2> SUFFICES ASSUME NEW t \in tiles, NEW u \in tiles, t # u
               PROVE  Pixels(t.at) \cap Pixels(u.at) = {}
    OBVIOUS
  <2>1. PICK c \in B : t = [tile_id |-> id(c), at |-> cells[c]]
    BY <1>1
  <2>2. PICK d \in B : u = [tile_id |-> id(d), at |-> cells[d]]
    BY <1>1
  <2>3. c # d /\ t.at = cells[c] /\ u.at = cells[d]
    BY <2>1, <2>2
  <2> QED
    BY <1>5, <2>3
<1>7. ASSUME NEW p \in ((0..width - 1) \X (0..height - 1)) \ Painted(tiles)
      PROVE  \/ tile_size < MIN_TILE
             \/ p[1] + MIN_TILE > width \/ p[2] + MIN_TILE > height
  <2>1. PICK x \in 0..width - 1, y \in 0..height - 1 : p = <<x, y>>
    OBVIOUS
  <2>2. x \in Nat /\ y \in Nat /\ x < width /\ y < height
    OBVIOUS
  <2>3. ASSUME NEW c \in B, <<x, y>> \in Pixels(cells[c])
        PROVE  FALSE
    <3> DEFINE t == [tile_id |-> id(c), at |-> cells[c]]
    <3>1. t \in tiles /\ t.at = cells[c]
      BY <1>1
    <3> HIDE DEF t
    <3>2. p \in Painted(tiles)
      BY <2>1, <2>3, <3>1 DEF Painted
    <3> QED
      BY <3>2
  <2>4. MIN_TILE <= tile_size =>
           x + MIN_TILE > width \/ y + MIN_TILE > height
    BY <2>2, <2>3, CellsCover DEF B, cells
  <2>5. MIN_TILE <= tile_size \/ tile_size < MIN_TILE
    BY TilingAssumption
  <2> QED
    BY <2>1, <2>4, <2>5
<1> QED
  BY <1>2, <1>3, <1>6, <1>7 DEF tiles

----------------------------------------------------------------------------
(* The jobs.                                                               *)

\* What create_job() was given.
Laid(j) ==
    /\ j.width \in Nat /\ j.height \in Nat /\ j.tile_size \in TileSizes
    /\ ~TooManyTiles(j.width, j.height, j.tile_size)
    /\ j.expected_tiles = Cardinality(Layout(j))

\* From the split to the publication the tile size is the same, and later the
\* job tells it.
Placed(r) ==
    /\ rpc[r] \in {"saved", "loaded", "removed", "created"} => file[r] \in File
    /\ rpc[r] = "removed" => ~TooManyTiles(file[r].width, file[r].height, TILE_SIZE)
    /\ r \in DOMAIN job => Laid(job[r])
    /\ rpc[r] = "created" =>
          /\ r \in DOMAIN job
          /\ job[r].width = file[r].width /\ job[r].height = file[r].height
          /\ job[r].tile_size = TILE_SIZE
    /\ tasks[r] # {} =>
          /\ rpc[r] = "done" /\ r \in DOMAIN job
          /\ tasks[r] \subseteq Layout(job[r])
    /\ answer[r] = 200 => tasks[r] # {}

LaidInv ==
    /\ DOMAIN tasks = Request
    /\ \A r \in Request : Placed(r)

\* What does not change of a request stays placed.
LEMMA StaysPlaced ==
    ASSUME NEW r \in Request, Placed(r),
           rpc'[r] = rpc[r], file'[r] = file[r], tasks'[r] = tasks[r],
           answer'[r] = answer[r],
           r \in DOMAIN job' <=> r \in DOMAIN job,
           r \in DOMAIN job => job'[r] = job[r],
           TILE_SIZE' = TILE_SIZE
    PROVE  Placed(r)'
<1>1. r \in DOMAIN job => (Layout(job[r])' = Layout(job[r]))
  BY DEF Layout
<1>2. r \in DOMAIN job => (Laid(job[r])' <=> Laid(job[r]))
  BY <1>1 DEF Laid
<1> QED
  BY <1>1, <1>2 DEF Placed

\* A step of one request.
LEMMA OnePlaced ==
    ASSUME TypeOK, LaidInv, NEW r \in Request, Handle(r) \/ Exception(r)
    PROVE  /\ DOMAIN tasks' = Request
           /\ Placed(r)'
           /\ \A q \in Request \ {r} : Placed(q)'
<1>1. /\ rpc \in [Request -> HandlerPc]
      /\ file \in [Request -> File \cup {None}]
      /\ TILE_SIZE \in TileSizes
      /\ DOMAIN tasks = Request
      /\ DOMAIN answer = Request
      /\ Placed(r)
  BY DEF TypeOK, LaidInv
<1>2. TILE_SIZE' = TILE_SIZE
  BY DEF Handle, Limit, Reject, Save, RejectProbed, Load, RejectLoaded, TurnDown,
         Split, CreateJob, Publish, Exception, Elsewhere
<1> DEFINE Others ==
        \A q \in Request \ {r} :
           /\ rpc'[q] = rpc[q] /\ file'[q] = file[q] /\ tasks'[q] = tasks[q]
           /\ answer'[q] = answer[q]
           /\ q \in DOMAIN job' <=> q \in DOMAIN job
           /\ q \in DOMAIN job => job'[q] = job[q]
<1>3. ASSUME Others
      PROVE  \A q \in Request \ {r} : Placed(q)'
  BY <1>2, <1>3, StaysPlaced DEF LaidInv
<1>4. ASSUME r \in DOMAIN job, UNCHANGED job
      PROVE  (Layout(job[r]))' = Layout(job[r]) /\ Laid(job[r])'
  <2>1. Laid(job[r])
    BY <1>1, <1>4 DEF Placed
  <2> QED
    BY <1>4, <2>1 DEF Laid, Layout
<1> DEFINE Good == DOMAIN tasks' = Request /\ Placed(r)' /\ Others
<1>5. ASSUME UNCHANGED <<job, tasks>>,
             \/ UNCHANGED answer
             \/ \E code \in {400, 429, 500, 503} : answer' = [answer EXCEPT ![r] = code],
             file' = [file EXCEPT ![r] = None] \/ UNCHANGED file,
             \/ /\ rpc[r] \in {"new", "stamped"}
                /\ \E pc \in {"stamped", "admitted", "done"} :
                      rpc' = [rpc EXCEPT ![r] = pc]
             \/ rpc[r] # "done" /\ rpc' = [rpc EXCEPT ![r] = "done"]
      PROVE  Good
  <2>1. rpc[r] # "done" /\ rpc'[r] \in {"stamped", "admitted", "done"}
    BY <1>1, <1>5
  <2>2. tasks[r] = {}
    BY <1>1, <2>1 DEF Placed
  <2>3. Others
    BY <1>1, <1>5
  <2>4. r \in DOMAIN job => Laid(job[r])'
    BY <1>4, <1>5
  <2>5. answer'[r] # 200
    BY <1>1, <1>5, <2>2 DEF Placed
  <2> QED
    BY <1>1, <1>5, <2>1, <2>2, <2>3, <2>4, <2>5 DEF Placed
<1>6. ASSUME Limit(r) \/ Reject(r) \/ RejectProbed(r) \/ RejectLoaded(r) \/ Exception(r)
      PROVE  Good
  <2>1. /\ UNCHANGED <<job, tasks>>
        /\ file' = [file EXCEPT ![r] = None] \/ UNCHANGED file
        /\ \/ UNCHANGED answer
           \/ \E code \in {400, 429, 500, 503} : answer' = [answer EXCEPT ![r] = code]
    BY <1>6 DEF Limit, Reject, RejectProbed, RejectLoaded, TurnDown, Exception, Return,
                Answer
  <2>2. \/ /\ rpc[r] \in {"new", "stamped"}
           /\ \E pc \in {"stamped", "admitted", "done"} :
                 rpc' = [rpc EXCEPT ![r] = pc]
        \/ rpc[r] # "done" /\ rpc' = [rpc EXCEPT ![r] = "done"]
    BY <1>6 DEF Limit, ReadClock, Admit, Refuse, Reject, RejectProbed, RejectLoaded,
                TurnDown, Exception, Goto
  <2> HIDE DEF Good
  <2> QED
    BY <1>5, <2>1, <2>2
<1>7. ASSUME Save(r)
      PROVE  Good
  <2>1. PICK f \in File : file' = [file EXCEPT ![r] = f]
    BY <1>7 DEF Save
  <2>2. /\ rpc[r] = "admitted" /\ rpc' = [rpc EXCEPT ![r] = "saved"]
        /\ UNCHANGED <<job, tasks, answer>>
    BY <1>7 DEF Save, Goto
  <2>3. r \in DOMAIN job => Laid(job[r])'
    BY <1>4, <2>2
  <2> QED
    BY <1>1, <2>1, <2>2, <2>3 DEF Placed
<1>8. ASSUME Load(r) \/ Split(r)
      PROVE  Good
  <2>1. /\ rpc[r] \in {"saved", "loaded"}
        /\ \/ rpc' = [rpc EXCEPT ![r] = "loaded"]
           \/ /\ rpc' = [rpc EXCEPT ![r] = "removed"]
              /\ ~TooManyTiles(file[r].width, file[r].height, TILE_SIZE)
        /\ UNCHANGED <<file, job, tasks, answer>>
    BY <1>8 DEF Load, Split, Goto, Unusable
  <2>2. r \in DOMAIN job => Laid(job[r])'
    BY <1>4, <2>1
  <2>3. file'[r] \in File /\ tasks'[r] = {} /\ answer'[r] # 200
    BY <1>1, <2>1 DEF Placed
  <2>4. rpc'[r] = "removed" =>
           ~TooManyTiles(file'[r].width, file'[r].height, TILE_SIZE')
    BY <1>1, <1>2, <2>1
  <2>5. rpc'[r] \in {"loaded", "removed"}
    BY <1>1, <2>1
  <2>6. Others /\ DOMAIN tasks' = Request
    BY <1>1, <2>1
  <2>7. tasks'[r] = {} /\ answer'[r] # 200 /\ rpc'[r] # "created" /\ rpc'[r] # "done"
    BY <2>3, <2>5
  <2>8. Placed(r)'
    BY <2>1, <2>2, <2>3, <2>4, <2>7 DEF Placed
  <2> QED
    BY <2>6, <2>8
<1>9. ASSUME CreateJob(r)
      PROVE  Good
  <2>1. /\ rpc[r] = "removed" /\ rpc' = [rpc EXCEPT ![r] = "created"]
        /\ job' = [q \in DOMAIN job \cup {r} |->
                     IF q # r THEN job[q]
                     ELSE [width |-> file[r].width, height |-> file[r].height,
                           tile_size |-> TILE_SIZE,
                           expected_tiles |-> Cardinality(Tiles(r))]]
        /\ UNCHANGED <<file, tasks, answer>>
    BY <1>9 DEF CreateJob, Goto
  <2>2. /\ file[r] \in File
        /\ ~TooManyTiles(file[r].width, file[r].height, TILE_SIZE)
        /\ tasks[r] = {} /\ answer[r] # 200
    BY <1>1, <2>1 DEF Placed
  <2>3. file[r].width \in Nat /\ file[r].height \in Nat
    BY <2>2, UploadAssumption
  <2>4. job'[r] = [width |-> file[r].width, height |-> file[r].height,
                   tile_size |-> TILE_SIZE,
                   expected_tiles |-> Cardinality(Tiles(r))] /\ r \in DOMAIN job'
    BY <2>1
  <2>5. /\ job'[r].width = file[r].width /\ job'[r].height = file[r].height
        /\ job'[r].tile_size = TILE_SIZE
        /\ job'[r].expected_tiles = Cardinality(Tiles(r))
    BY <2>4
  <2>6. Laid(job[r])'
    BY <1>1, <2>2, <2>3, <2>5 DEF Laid, Layout, Tiles
  <2>7. Others /\ DOMAIN tasks' = Request
    BY <1>1, <2>1
  <2>8. /\ rpc'[r] = "created" /\ file'[r] = file[r]
        /\ tasks'[r] = {} /\ answer'[r] # 200
    BY <1>1, <2>1, <2>2
  <2>9. Placed(r)'
    BY <1>2, <2>2, <2>4, <2>5, <2>6, <2>8 DEF Placed
  <2> QED
    BY <2>7, <2>9
<1>10. ASSUME Publish(r)
       PROVE  Good
  <2>0. PICK published \in SUBSET Tiles(r) :
           /\ tasks' = [tasks EXCEPT ![r] = published]
           /\ \/ /\ Return(r, IF published = {} THEN 500 ELSE 200)
                 /\ IF published = Tiles(r) THEN UNCHANGED faults ELSE Fault
              \/ Return(r, 500) /\ Fault
    BY <1>10 DEF Publish
  <2>1. PICK code \in {200, 500} : Return(r, code) /\ (code = 200 => published # {})
    BY <2>0
  <2>2. /\ rpc[r] = "created" /\ rpc' = [rpc EXCEPT ![r] = "done"]
        /\ file' = [file EXCEPT ![r] = None]
        /\ UNCHANGED job
    BY <1>10, <2>1 DEF Publish, Goto, Return
  <2>3. r \in DOMAIN job /\ Tiles(r) = Layout(job[r])
    BY <1>1, <2>2 DEF Placed, Tiles, Layout
  <2>4. (Layout(job[r]))' = Layout(job[r]) /\ Laid(job[r])'
    BY <1>4, <2>2, <2>3
  <2>5. DOMAIN tasks' = Request /\ Others
    BY <1>1, <2>0, <2>1, <2>2 DEF Return, Answer
  <2>6. tasks'[r] = published /\ answer'[r] = code /\ rpc'[r] = "done"
    BY <1>1, <2>0, <2>1, <2>2 DEF Return, Answer
  <2>7. Placed(r)'
    BY <2>1, <2>2, <2>3, <2>4, <2>6 DEF Placed
  <2> QED
    BY <2>5, <2>7
<1>11. Good
  <2> HIDE DEF Good
  <2> QED
    BY <1>6, <1>7, <1>8, <1>9, <1>10, Zenon DEF Handle
<1> QED
  BY <1>3, <1>11

LEMMA LaidInductive ==
    ASSUME TypeOK, LaidInv, [Next]_vars
    PROVE  LaidInv'
<1>1. ASSUME NEW r \in Request, Handle(r) \/ Exception(r)
      PROVE  LaidInv'
  <2>1. /\ DOMAIN tasks' = Request
        /\ Placed(r)'
        /\ \A q \in Request \ {r} : Placed(q)'
    BY <1>1, OnePlaced
  <2> QED
    BY <2>1 DEF LaidInv
<1>2. CASE Restart
  <2>1. \A r \in Request : rpc'[r] \in {"new", "done"}
                           /\ (rpc[r] = "done" => rpc'[r] = "done")
    BY <1>2 DEF Restart
  <2>2. UNCHANGED <<job, tasks, answer>>
    BY <1>2 DEF Restart
  <2>3. ASSUME NEW r \in Request
        PROVE  Placed(r)'
    <3>1. Placed(r)
      BY DEF LaidInv
    <3>2. r \in DOMAIN job => (Layout(job[r]))' = Layout(job[r]) /\ Laid(job[r])'
      BY <2>2, <3>1 DEF Placed, Laid, Layout
    <3> QED
      BY <2>1, <2>2, <3>1, <3>2 DEF Placed
  <2> QED
    BY <2>2, <2>3 DEF LaidInv
<1>3. CASE Passing \/ UNCHANGED vars
  <2>1. UNCHANGED <<rpc, file, tasks, job, answer, TILE_SIZE>>
    BY <1>3 DEF Passing, Tick, handlerVars, vars
  <2>2. \A r \in Request : Placed(r)'
    BY <2>1, StaysPlaced DEF LaidInv
  <2> QED
    BY <2>1, <2>2 DEF LaidInv
<1> QED
  BY <1>1, <1>2, <1>3 DEF Next

\* The layout of every job, for every size of image and of tiles: it covers the
\* image but for a strip that is too narrow, without overlap, the ids of its
\* tiles are the ones the listener and the reaper count from 0 on, there are no
\* more than MAX_TILES, and the reaper computes the tiles that were dispatched
\* and the ones that could not be, whatever TILE_SIZE is by then.  With a TILE_SIZE
\* below the smallest tile, which app/config.py does not refuse, pixels anywhere
\* may be without a tile (app/imaging.py:74-137, app/jobstore.py:154-161,
\* master/publisher.py:139-153, master/reaper.py:191-222).
THEOREM LayoutTheorem == Spec => []LayoutCovers
<1>1. Init => LaidInv
  <2> SUFFICES ASSUME Init PROVE LaidInv
    OBVIOUS
  <2>1. \A r \in Request : rpc[r] = "new" /\ tasks[r] = {} /\ r \notin DOMAIN job
                             /\ answer[r] = 0
    BY DEF Init, LimiterInit
  <2>2. DOMAIN tasks = Request
    BY DEF Init
  <2> QED
    BY <2>1, <2>2 DEF LaidInv, Placed
<1>2. TypeOK /\ LaidInv => LayoutCovers
  <2> SUFFICES ASSUME TypeOK, LaidInv, NEW r \in DOMAIN job
               PROVE  LET j == job[r]
                          tiles == Layout(j)
                      IN /\ Cardinality(tiles) = j.expected_tiles
                         /\ j.expected_tiles <= MAX_TILES
                         /\ {t.tile_id : t \in tiles} = 0..j.expected_tiles - 1
                         /\ tasks[r] \subseteq tiles
                         /\ answer[r] = 200 => tasks[r] # {}
                         /\ \A t, u \in tiles :
                               t # u => Pixels(t.at) \cap Pixels(u.at) = {}
                         /\ \A p \in ((0..j.width - 1) \X (0..j.height - 1))
                                        \ Painted(tiles) :
                               \/ j.tile_size < MIN_TILE
                               \/ p[1] + MIN_TILE > j.width
                               \/ p[2] + MIN_TILE > j.height
    BY DEF LayoutCovers
  <2>1. r \in Request /\ Placed(r)
    BY DEF TypeOK, LaidInv
  <2> DEFINE j == job[r]
  <2>2. /\ j.width \in Nat /\ j.height \in Nat /\ j.tile_size \in Nat \ {0}
        /\ ~TooManyTiles(j.width, j.height, j.tile_size)
        /\ j.expected_tiles = Cardinality(Layout(j))
    BY <2>1, UploadAssumption DEF Placed, Laid
  <2>3. /\ tasks[r] \subseteq Layout(j)
        /\ answer[r] = 200 => tasks[r] # {}
    BY <2>1 DEF Placed
  <2> HIDE DEF j
  <2> DEFINE tiles == tile_geometries(j.width, j.height, j.tile_size)
  <2>4. /\ Cardinality(tiles) <= MAX_TILES
        /\ {t.tile_id : t \in tiles} = 0..Cardinality(tiles) - 1
        /\ \A t, u \in tiles :
              t # u => Pixels(t.at) \cap Pixels(u.at) = {}
        /\ \A p \in ((0..j.width - 1) \X (0..j.height - 1)) \ Painted(tiles) :
              \/ j.tile_size < MIN_TILE
              \/ p[1] + MIN_TILE > j.width \/ p[2] + MIN_TILE > j.height
    BY <2>2, LayoutGood
  <2>5. Layout(j) = tiles
    BY DEF Layout
  <2> HIDE DEF tiles
  <2> QED
    BY <2>2, <2>3, <2>4, <2>5 DEF j
<1> QED
  BY <1>1, <1>2, LaidInductive, TypeCorrect, PTL DEF Spec
=============================================================================
