------------------------ MODULE LeaderElectionProofs ------------------------
(***************************************************************************)
(* Proofs about LeaderElection, for every set of replicas, every TTL and   *)
(* every bound on the length of a call and on the number of faults.        *)
(***************************************************************************)
EXTENDS LeaderElection, TLAPS

\* A call that took effect, whose reply has not been seen yet.
Granted(r) == pc[r] \in {"acquire", "renew"} /\ rep[r] = "yes"

KeyInv == holder # None => ttl > 0

ThreadInv ==
    \A r \in Replica :
        /\ ~isSet[r] => left[r] = 0
        /\ pc[r] \in {"renew", "release"} => isSet[r]

LateInv == ~Interference => late = {}

\* While the key is r's, r's deadline trails the key's by at most MaxCall.
HeldInv ==
    \A r \in Replica : holder = r =>
        /\ gone[r] = 0
        /\ left[r] <= ttl + MaxCall
        /\ Granted(r) => TTL <= ttl + age[r]

\* What is left of a deadline and the time since the key was lost trade off,
\* except while r waits for the reply of its own release.
LostInv ==
    \A r \in Replica : holder # r =>
        /\ Granted(r) => IF Interference THEN gone[r] <= age[r]
                                         ELSE gone[r] + TTL <= age[r]
        /\ left[r] > 0 =>
             \/ IF Interference THEN left[r] + gone[r] <= TTL + MaxCall
                                ELSE left[r] + gone[r] <= MaxCall
             \/ /\ pc[r] = "release"
                /\ rep[r] = "yes"
                /\ gone[r] <= age[r]

IInv == TypeOK /\ KeyInv /\ ThreadInv /\ LateInv /\ HeldInv /\ LostInv

----------------------------------------------------------------------------
(* Types.                                                                  *)

\* Whatever command Redis executes, the key stays well typed.
LEMMA ExecType ==
    ASSUME TypeOK, NEW cmd \in Call, NEW tok \in Token, Exec(cmd, tok)
    PROVE  /\ holder' \in Token \cup {None}
           /\ ttl' \in 0..TTL
           /\ gone' \in [Replica -> 0..Long]
  BY LeaderAssumption
     DEF TypeOK, Exec, ExecAcquire, ExecRenew, ExecRelease, Store, GoneWhen,
         Keep, lockVars, Long, Token, Call

\* Going to sleep sets the event to a Boolean and the deadline within the TTL.
LEMMA SleepType ==
    ASSUME TypeOK, NEW r \in Replica, NEW b \in BOOLEAN, Sleep(r, b)
    PROVE  /\ isSet' \in [Replica -> BOOLEAN]
           /\ left' \in [Replica -> 0..TTL]
           /\ pc' \in [Replica -> Call \cup {"sleep"}]
           /\ rep' \in [Replica -> Reply]
           /\ age' \in [Replica -> 0..MaxCall]
<1>1. isSet' \in [Replica -> BOOLEAN]
  BY Zenon DEF TypeOK, Sleep
<1>2. left' \in [Replica -> 0..TTL]
  <2>1. (IF b THEN TTL ELSE 0) \in 0..TTL
    BY LeaderAssumption
  <2> QED
    BY <2>1 DEF TypeOK, Sleep
<1> QED
  BY <1>1, <1>2, LeaderAssumption DEF TypeOK, Sleep, Reply

LEMMA InitType == Init => TypeOK
  BY LeaderAssumption DEF Init, TypeOK, Token, Call, Reply, Long

LEMMA NextType == TypeOK /\ [Next]_vars => TypeOK'
<1> SUFFICES ASSUME TypeOK, [Next]_vars
             PROVE  TypeOK'
  OBVIOUS
<1> USE LeaderAssumption
<1>1. ASSUME NEW r \in Replica, Wake(r)
      PROVE  TypeOK'
  BY <1>1 DEF TypeOK, Wake, Start, lockVars, Call, Reply
<1>2. ASSUME NEW r \in Replica, Execute(r)
      PROVE  TypeOK'
  <2>1. pc[r] \in Call /\ r \in Token
    BY <1>2 DEF Execute, Token
  <2>2. /\ holder' \in Token \cup {None}
        /\ ttl' \in 0..TTL
        /\ gone' \in [Replica -> 0..Long]
    BY <1>2, <2>1, ExecType DEF Execute
  <2>3. Result(pc[r], r) \in Reply
    BY DEF Result, Reply
  <2> QED
    BY <1>2, <2>2, <2>3 DEF Execute, TypeOK
<1>3. ASSUME NEW r \in Replica, ReplyArrives(r) \/ ReleaseReturns(r)
      PROVE  TypeOK'
  <2>1. PICK b \in BOOLEAN : Sleep(r, b)
    BY <1>3 DEF ReplyArrives, ReleaseReturns
  <2> QED
    BY <1>3, <2>1, SleepType DEF TypeOK, ReplyArrives, ReleaseReturns, lockVars
<1>4. ASSUME NEW r \in Replica, CallFails(r) \/ ReleaseFails(r)
      PROVE  TypeOK'
  <2>1. late' \subseteq (Call \X Token) /\ faults' \in 0..MaxFaults
    <3>1. <<pc[r], r>> \in Call \X Token
      BY <1>4 DEF CallFails, ReleaseFails, Call, Token
    <3>2. late' = late \/ late' = late \cup {<<pc[r], r>>}
      BY <1>4 DEF CallFails, ReleaseFails, Abandon
    <3>3. faults' \in 0..MaxFaults
      <4>1. faults < MaxFaults /\ faults' = faults + 1
        BY <1>4 DEF CallFails, ReleaseFails
      <4>2. faults \in 0..MaxFaults
        BY DEF TypeOK
      <4> QED
        BY <4>1, <4>2
    <3>4. late \subseteq (Call \X Token)
      BY DEF TypeOK
    <3> QED
      BY <3>1, <3>2, <3>3, <3>4
  <2>2. UNCHANGED lockVars
    BY <1>4 DEF CallFails, ReleaseFails
  <2>3. CASE Sleep(r, FALSE)
    BY <2>1, <2>2, <2>3, SleepType DEF TypeOK, lockVars
  <2>4. CASE Start(r, "release") /\ UNCHANGED <<isSet, left>>
    BY <2>1, <2>2, <2>4 DEF TypeOK, Start, lockVars, Call, Reply
  <2> QED
    BY <1>4, <2>3, <2>4 DEF CallFails, ReleaseFails
<1>5. ASSUME NEW r \in Replica, Crash(r)
      PROVE  TypeOK'
  <2>1. late' \subseteq (Call \X Token)
    BY <1>5 DEF Crash, TypeOK, Token
  <2>2. /\ holder' \in Token \cup {None}
        /\ gone' \in [Replica -> 0..Long]
        /\ faults' \in 0..MaxFaults
    BY <1>5 DEF Crash, TypeOK, Token, Long
  <2> QED
    BY <1>5, <2>1, <2>2, SleepType DEF Crash, TypeOK
<1>6. CASE LateCommand
  <2>1. PICK c \in late : /\ Exec(c[1], c[2])
                          /\ late' = late \ {c}
                          /\ UNCHANGED <<threadVars, faults>>
    BY <1>6 DEF LateCommand
  <2>2. c[1] \in Call /\ c[2] \in Token
    BY DEF TypeOK
  <2>3. /\ holder' \in Token \cup {None}
        /\ ttl' \in 0..TTL
        /\ gone' \in [Replica -> 0..Long]
    BY <2>1, <2>2, ExecType
  <2> QED
    BY <2>1, <2>3 DEF TypeOK, threadVars
<1>7. CASE Flush
  BY <1>7 DEF TypeOK, Flush, Store, GoneWhen, threadVars, Long
<1>8. CASE Tick
  BY <1>8 DEF TypeOK, Tick, Long, Call
<1>9. CASE UNCHANGED vars
  BY <1>9 DEF TypeOK, vars
<1> QED
  BY <1>1, <1>2, <1>3, <1>4, <1>5, <1>6, <1>7, <1>8, <1>9 DEF Next, Thread

\* Every variable keeps its type: in particular no countdown exceeds its bound.
THEOREM TypeCorrect == Spec => []TypeOK
<1>1. Init => TypeOK
  BY InitType
<1>2. TypeOK /\ [Next]_vars => TypeOK'
  BY NextType
<1> QED
  BY <1>1, <1>2, PTL DEF Spec

----------------------------------------------------------------------------
(* The overlap.                                                            *)

\* What a command does to the key, as one replica q sees it.
LEMMA ExecEffect ==
    ASSUME TypeOK, NEW cmd \in Call, NEW tok \in Token, Exec(cmd, tok),
           NEW q \in Replica
    PROVE  \/ UNCHANGED <<holder, ttl>> /\ gone'[q] = gone[q]
           \/ /\ cmd \in {"acquire", "renew"}
              /\ holder = None \/ holder = tok
              /\ holder' = tok
              /\ ttl' = TTL
              /\ gone'[q] = IF q = tok \/ holder = q THEN 0 ELSE gone[q]
           \/ /\ cmd = "release"
              /\ holder = tok
              /\ holder' = None
              /\ ttl' = 0
              /\ gone'[q] = IF q = tok THEN 0 ELSE gone[q]
  BY LeaderAssumption
     DEF TypeOK, Exec, ExecAcquire, ExecRenew, ExecRelease, Store, GoneWhen,
         Keep, lockVars, Token, Call

LEMMA InitIInv == Init => IInv
  BY InitType, LeaderAssumption
     DEF Init, IInv, KeyInv, ThreadInv, LateInv, HeldInv, LostInv, Granted

\* Going to sleep as a leader needs a call that took effect; going to sleep
\* otherwise leaves no deadline at all.
LEMMA SleepKeeps ==
    ASSUME IInv, NEW r \in Replica, NEW b \in BOOLEAN, Sleep(r, b),
           UNCHANGED lockVars, b => Granted(r)
    PROVE  ThreadInv' /\ HeldInv' /\ LostInv'
<1> USE LeaderAssumption
<1>1. ASSUME NEW q \in Replica, q # r
      PROVE  /\ isSet'[q] = isSet[q] /\ left'[q] = left[q] /\ pc'[q] = pc[q]
             /\ rep'[q] = rep[q] /\ age'[q] = age[q]
  BY <1>1 DEF Sleep, IInv, TypeOK
<1>2. /\ isSet'[r] = b
      /\ left'[r] = IF b THEN TTL ELSE 0
      /\ pc'[r] = "sleep"
  <2>1. isSet'[r] = b
    BY Zenon DEF Sleep, IInv, TypeOK
  <2> QED
    BY <2>1 DEF Sleep, IInv, TypeOK
<1>3. holder' = holder /\ ttl' = ttl /\ gone' = gone
  BY DEF lockVars
<1>4. /\ ttl \in 0..TTL
      /\ \A q \in Replica : gone[q] \in Nat /\ age[q] \in 0..MaxCall
  BY DEF IInv, TypeOK, Long
<1>5. ThreadInv'
  BY <1>1, <1>2 DEF IInv, ThreadInv
<1>6. HeldInv'
  <2> SUFFICES ASSUME NEW q \in Replica, holder = q
               PROVE  /\ gone[q] = 0
                      /\ left'[q] <= ttl + MaxCall
                      /\ Granted(q)' => TTL <= ttl + age'[q]
    BY <1>3 DEF HeldInv
  <2>1. CASE q # r
    BY <1>1, <2>1 DEF IInv, HeldInv, Granted
  <2>2. CASE q = r
    BY <1>2, <1>4, <2>2 DEF IInv, HeldInv, Granted
  <2> QED
    BY <2>1, <2>2
<1>7. LostInv'
  <2> SUFFICES ASSUME NEW q \in Replica, holder # q
               PROVE  /\ Granted(q)' => IF Interference THEN gone[q] <= age'[q]
                                          ELSE gone[q] + TTL <= age'[q]
                      /\ left'[q] > 0 =>
                            \/ IF Interference
                               THEN left'[q] + gone[q] <= TTL + MaxCall
                               ELSE left'[q] + gone[q] <= MaxCall
                            \/ /\ pc'[q] = "release"
                               /\ rep'[q] = "yes"
                               /\ gone[q] <= age'[q]
    BY <1>3 DEF LostInv
  <2>1. CASE q # r
    BY <1>1, <2>1 DEF IInv, LostInv, Granted
  <2>2. CASE q = r
    BY <1>2, <1>4, <2>2 DEF IInv, LostInv, Granted
  <2> QED
    BY <2>1, <2>2
<1> QED
  BY <1>5, <1>6, <1>7

\* Sending a command changes neither the key nor a deadline.
LEMMA StartKeeps ==
    ASSUME IInv, NEW r \in Replica, NEW cmd \in Call, Start(r, cmd),
           UNCHANGED <<lockVars, isSet, left>>,
           cmd \in {"renew", "release"} => isSet[r],
           pc[r] # "release"
    PROVE  ThreadInv' /\ HeldInv' /\ LostInv'
<1> USE LeaderAssumption
<1>1. ASSUME NEW q \in Replica, q # r
      PROVE  pc'[q] = pc[q] /\ rep'[q] = rep[q] /\ age'[q] = age[q]
  BY <1>1 DEF Start, IInv, TypeOK
<1>2. pc'[r] = cmd /\ rep'[r] = "none"
  BY DEF Start, IInv, TypeOK
<1>3. holder' = holder /\ ttl' = ttl /\ gone' = gone /\ isSet' = isSet
      /\ left' = left
  BY DEF lockVars
<1>4. ThreadInv'
  BY <1>1, <1>2, <1>3 DEF IInv, ThreadInv
<1>5. HeldInv'
  BY <1>1, <1>2, <1>3 DEF IInv, HeldInv, Granted
<1>6. LostInv'
  BY <1>1, <1>2, <1>3 DEF IInv, LostInv, Granted
<1> QED
  BY <1>4, <1>5, <1>6

\* Redis executes the call of r.
LEMMA ExecuteKeeps ==
    ASSUME IInv, NEW r \in Replica, Execute(r)
    PROVE  KeyInv' /\ HeldInv' /\ LostInv'
<1> USE LeaderAssumption
<1>1. pc[r] \in Call /\ r \in Token /\ Exec(pc[r], r) /\ TypeOK
  BY DEF Execute, Token, IInv
<1>2. isSet' = isSet /\ left' = left /\ pc' = pc /\ age' = age
  BY DEF Execute
<1>3. \A q \in Replica : q # r => rep'[q] = rep[q]
  BY DEF Execute, IInv, TypeOK
<1>4. rep'[r] = Result(pc[r], r) /\ rep[r] = "none"
  BY DEF Execute, IInv, TypeOK
<1>5. \A q \in Replica : /\ left[q] \in 0..TTL
                         /\ age[q] \in 0..MaxCall
                         /\ gone[q] \in Nat
  BY DEF IInv, TypeOK, Long
<1>6. holder \in Token \cup {None} /\ ttl \in 0..TTL
  BY DEF IInv, TypeOK
<1>7. KeyInv'
  BY <1>1, <1>6, ExecEffect DEF IInv, KeyInv
<1> SUFFICES ASSUME NEW q \in Replica
             PROVE  /\ holder' = q =>
                          /\ gone'[q] = 0
                          /\ left'[q] <= ttl' + MaxCall
                          /\ Granted(q)' => TTL <= ttl' + age'[q]
                    /\ holder' # q =>
                          /\ Granted(q)' =>
                                IF Interference THEN gone'[q] <= age'[q]
                                ELSE gone'[q] + TTL <= age'[q]
                          /\ left'[q] > 0 =>
                                \/ IF Interference
                                   THEN left'[q] + gone'[q] <= TTL + MaxCall
                                   ELSE left'[q] + gone'[q] <= MaxCall
                                \/ /\ pc'[q] = "release"
                                   /\ rep'[q] = "yes"
                                   /\ gone'[q] <= age'[q]
  BY <1>7 DEF HeldInv, LostInv
<1>a. /\ holder = q => /\ gone[q] = 0
                       /\ left[q] <= ttl + MaxCall
                       /\ Granted(q) => TTL <= ttl + age[q]
      /\ holder # q =>
            /\ Granted(q) => IF Interference THEN gone[q] <= age[q]
                             ELSE gone[q] + TTL <= age[q]
            /\ left[q] > 0 => \/ IF Interference
                                 THEN left[q] + gone[q] <= TTL + MaxCall
                                 ELSE left[q] + gone[q] <= MaxCall
                              \/ /\ pc[q] = "release"
                                 /\ rep[q] = "yes"
                                 /\ gone[q] <= age[q]
  BY DEF IInv, HeldInv, LostInv
<1>b. CASE UNCHANGED <<holder, ttl>> /\ gone'[q] = gone[q]
  <2>1. CASE q # r
    BY <1>2, <1>3, <1>a, <1>b, <2>1 DEF Granted
  <2>2. CASE q = r
    <3>1. ~Granted(r)'
        \/ (pc[r] = "acquire" /\ holder = None)
        \/ (pc[r] = "renew" /\ holder = r)
      BY <1>2, <1>4 DEF Granted, Result
    <3>2. ~(pc[r] = "acquire" /\ holder = None)
      BY <1>1, <1>b DEF Exec, ExecAcquire, Store, Token
    <3>3. pc[r] = "renew" /\ holder = r => ttl = TTL
      BY <1>1, <1>b DEF Exec, ExecRenew, Store
    <3> QED
      BY <1>2, <1>4, <1>5, <1>a, <1>b, <2>2, <3>1, <3>2, <3>3
  <2> QED
    BY <2>1, <2>2
<1>c. CASE /\ holder = None \/ holder = r
           /\ holder' = r
           /\ ttl' = TTL
           /\ gone'[q] = IF q = r \/ holder = q THEN 0 ELSE gone[q]
  <2>1. CASE q # r
    BY <1>2, <1>3, <1>5, <1>a, <1>c, <2>1 DEF Granted
  <2>2. CASE q = r
    BY <1>2, <1>5, <1>c, <2>2
  <2> QED
    BY <2>1, <2>2
<1>d. CASE /\ pc[r] = "release"
           /\ holder = r
           /\ holder' = None
           /\ ttl' = 0
           /\ gone'[q] = IF q = r THEN 0 ELSE gone[q]
  <2>1. CASE q # r
    BY <1>2, <1>3, <1>5, <1>a, <1>d, <2>1 DEF Granted
  <2>2. CASE q = r
    <3>1. rep'[r] = "yes"
      BY <1>4, <1>d DEF Result
    <3> QED
      BY <1>2, <1>5, <1>d, <2>2, <3>1 DEF Granted
  <2> QED
    BY <2>1, <2>2
<1> QED
  BY <1>1, <1>b, <1>c, <1>d, ExecEffect

\* One tick takes as much from the deadline as it adds to the time since the
\* key was lost.
LEMMA TickKeeps ==
    ASSUME IInv, Tick
    PROVE  KeyInv' /\ ThreadInv' /\ HeldInv' /\ LostInv'
<1> USE LeaderAssumption
<1>1. /\ ttl' = IF ttl > 0 THEN ttl - 1 ELSE 0
      /\ holder' = IF ttl > 1 THEN holder ELSE None
      /\ isSet' = isSet /\ pc' = pc /\ rep' = rep
  BY DEF Tick
<1>2. ASSUME NEW q \in Replica
      PROVE  /\ left'[q] = IF left[q] > 0 THEN left[q] - 1 ELSE 0
             /\ age'[q] = IF pc[q] = "sleep" THEN 0 ELSE age[q] + 1
             /\ pc[q] # "sleep" => age[q] < MaxCall
             /\ gone'[q] = IF holder = q THEN 0
                           ELSE IF gone[q] < Long THEN gone[q] + 1 ELSE Long
  BY DEF Tick
<1>3. ASSUME NEW q \in Replica
      PROVE  left[q] \in 0..TTL /\ age[q] \in 0..MaxCall /\ gone[q] \in 0..Long
  BY DEF IInv, TypeOK
<1>4. ttl \in 0..TTL /\ (holder # None => ttl > 0)
  BY DEF IInv, TypeOK, KeyInv
<1>5. KeyInv'
  BY <1>1, <1>4 DEF KeyInv
<1>6. ThreadInv'
  BY <1>1, <1>2 DEF IInv, ThreadInv
<1>7. HeldInv'
  <2> SUFFICES ASSUME NEW q \in Replica, holder' = q
               PROVE  /\ gone'[q] = 0
                      /\ left'[q] <= ttl' + MaxCall
                      /\ Granted(q)' => TTL <= ttl' + age'[q]
    BY DEF HeldInv
  <2>1. holder = q /\ ttl > 1
    BY <1>1
  <2>2. /\ gone[q] = 0
        /\ left[q] <= ttl + MaxCall
        /\ Granted(q) => TTL <= ttl + age[q]
    BY <2>1 DEF IInv, HeldInv
  <2> QED
    BY <1>1, <1>2, <1>3, <1>4, <2>1, <2>2 DEF Granted
<1>8. LostInv'
  <2> SUFFICES ASSUME NEW q \in Replica, holder' # q
               PROVE  /\ Granted(q)' => IF Interference THEN gone'[q] <= age'[q]
                                          ELSE gone'[q] + TTL <= age'[q]
                      /\ left'[q] > 0 =>
                            \/ IF Interference
                               THEN left'[q] + gone'[q] <= TTL + MaxCall
                               ELSE left'[q] + gone'[q] <= MaxCall
                            \/ /\ pc'[q] = "release"
                               /\ rep'[q] = "yes"
                               /\ gone'[q] <= age'[q]
    BY DEF LostInv
  <2>1. CASE holder = q
    <3>1. /\ left[q] <= ttl + MaxCall
          /\ Granted(q) => TTL <= ttl + age[q]
      BY <2>1 DEF IInv, HeldInv
    <3>2. ttl = 1
      BY <1>1, <1>4, <2>1
    <3> QED
      BY <1>1, <1>2, <1>3, <2>1, <3>1, <3>2 DEF Granted
  <2>2. CASE holder # q
    <3>1. /\ Granted(q) => IF Interference THEN gone[q] <= age[q]
                           ELSE gone[q] + TTL <= age[q]
          /\ left[q] > 0 => \/ IF Interference
                               THEN left[q] + gone[q] <= TTL + MaxCall
                               ELSE left[q] + gone[q] <= MaxCall
                            \/ /\ pc[q] = "release"
                               /\ rep[q] = "yes"
                               /\ gone[q] <= age[q]
      BY <2>2 DEF IInv, LostInv
    <3>2. gone'[q] <= gone[q] + 1 /\ gone'[q] \in Nat
      BY <1>2, <1>3, <2>2 DEF Long
    <3>3. Granted(q)' => Granted(q) /\ age'[q] = age[q] + 1
      BY <1>1, <1>2 DEF Granted
    <3>4. left'[q] > 0 => left[q] > 0 /\ left'[q] = left[q] - 1
      BY <1>2, <1>3
    <3>5. pc[q] = "release" => age'[q] = age[q] + 1
      BY <1>2
    <3> QED
      BY <1>1, <1>3, <3>1, <3>2, <3>3, <3>4, <3>5
  <2> QED
    BY <2>1, <2>2
<1> QED
  BY <1>5, <1>6, <1>7, <1>8

\* The key vanishes under its holder, or a command outlives its caller: the
\* weaker bound of Interference is what is left.
LEMMA InterferenceKeeps ==
    ASSUME IInv, Interference, UNCHANGED threadVars,
           \/ Flush
           \/ \E cmd \in Call, tok \in Token : Exec(cmd, tok)
    PROVE  KeyInv' /\ HeldInv' /\ LostInv'
<1> USE LeaderAssumption
<1>1. /\ isSet' = isSet /\ left' = left /\ pc' = pc /\ rep' = rep
      /\ age' = age
  BY DEF threadVars
<1>2. /\ ttl \in 0..TTL
      /\ holder \in Token \cup {None}
      /\ \A q \in Replica : /\ left[q] \in 0..TTL
                           /\ age[q] \in 0..MaxCall
                           /\ gone[q] \in Nat
  BY DEF IInv, TypeOK, Long
<1>3. ASSUME NEW q \in Replica
      PROVE  \/ UNCHANGED <<holder, ttl>> /\ gone'[q] = gone[q]
             \/ /\ holder' # None
                /\ holder = None \/ holder = holder'
                /\ ttl' = TTL
                /\ gone'[q] = IF q = holder' \/ holder = q THEN 0 ELSE gone[q]
             \/ /\ holder' = None
                /\ ttl' = 0
                /\ gone'[q] = IF q = holder THEN 0 ELSE gone[q]
  <2>1. CASE Flush
    BY <1>2, <2>1 DEF Flush, Store, GoneWhen
  <2>2. CASE \E cmd \in Call, tok \in Token : Exec(cmd, tok)
    <3>1. PICK cmd \in Call, tok \in Token : Exec(cmd, tok)
      BY <2>2
    <3>2. tok # None /\ TypeOK
      BY DEF Token, IInv
    <3> QED
      BY <3>1, <3>2, ExecEffect
  <2> QED
    BY <2>1, <2>2
<1>4. KeyInv'
  <2>1. \/ UNCHANGED <<holder, ttl>>
        \/ ttl' = TTL
        \/ holder' = None
    <3>1. CASE Flush
      BY <3>1 DEF Flush, Store
    <3>2. CASE \E cmd \in Call, tok \in Token : Exec(cmd, tok)
      BY <3>2
         DEF Exec, ExecAcquire, ExecRenew, ExecRelease, Store, Keep, lockVars
    <3> QED
      BY <3>1, <3>2
  <2> QED
    BY <2>1 DEF IInv, KeyInv
<1>5. HeldInv'
  BY <1>1, <1>2, <1>3 DEF IInv, HeldInv, Granted
<1>6. LostInv'
  <2> SUFFICES ASSUME NEW q \in Replica, holder' # q
               PROVE  /\ Granted(q) => gone'[q] <= age[q]
                      /\ left[q] > 0 =>
                            \/ left[q] + gone'[q] <= TTL + MaxCall
                            \/ /\ pc[q] = "release"
                               /\ rep[q] = "yes"
                               /\ gone'[q] <= age[q]
    BY <1>1 DEF LostInv, Granted
  <2>1. holder = q => gone'[q] = 0
    BY <1>2, <1>3 DEF IInv, HeldInv
  <2>2. holder # q => gone'[q] = gone[q]
    BY <1>3
  <2> QED
    BY <1>2, <2>1, <2>2 DEF IInv, LostInv
<1> QED
  BY <1>4, <1>5, <1>6

\* A crashed replica has no deadline, and its key belongs to nobody.
LEMMA CrashKeeps ==
    ASSUME IInv, NEW r \in Replica, Crash(r)
    PROVE  KeyInv' /\ ThreadInv' /\ LateInv' /\ HeldInv' /\ LostInv'
<1> USE LeaderAssumption
<1>1. /\ holder' = IF holder = r THEN Orphan ELSE holder
      /\ gone' = [gone EXCEPT ![r] = Long]
      /\ ttl' = ttl
      /\ Sleep(r, FALSE)
  BY DEF Crash
<1>2. /\ left'[r] = 0
      /\ pc'[r] = "sleep"
  BY <1>1 DEF Sleep, IInv, TypeOK
<1>3. ASSUME NEW q \in Replica, q # r
      PROVE  /\ isSet'[q] = isSet[q] /\ left'[q] = left[q] /\ pc'[q] = pc[q]
             /\ rep'[q] = rep[q] /\ age'[q] = age[q] /\ gone'[q] = gone[q]
             /\ holder' = q <=> holder = q
  BY <1>1, <1>3 DEF Sleep, IInv, TypeOK
<1>4. holder' # r
  BY <1>1
<1>5. KeyInv'
  BY <1>1 DEF IInv, KeyInv
<1>6. ThreadInv'
  BY <1>2, <1>3 DEF IInv, ThreadInv
<1>7. LateInv'
  BY DEF IInv, LateInv, Crash
<1>8. HeldInv'
  BY <1>1, <1>3, <1>4 DEF IInv, HeldInv, Granted
<1>9. LostInv'
  <2> SUFFICES ASSUME NEW q \in Replica, holder' # q
               PROVE  /\ Granted(q)' => IF Interference THEN gone'[q] <= age'[q]
                                          ELSE gone'[q] + TTL <= age'[q]
                      /\ left'[q] > 0 =>
                            \/ IF Interference
                               THEN left'[q] + gone'[q] <= TTL + MaxCall
                               ELSE left'[q] + gone'[q] <= MaxCall
                            \/ /\ pc'[q] = "release"
                               /\ rep'[q] = "yes"
                               /\ gone'[q] <= age'[q]
    BY DEF LostInv
  <2>1. CASE q = r
    BY <1>2, <2>1 DEF Granted
  <2>2. CASE q # r
    BY <1>3, <2>2 DEF IInv, LostInv, Granted
  <2> QED
    BY <2>1, <2>2
<1> QED
  BY <1>5, <1>6, <1>7, <1>8, <1>9

LEMMA NextIInv == IInv /\ [Next]_vars => IInv'
<1> SUFFICES ASSUME IInv, [Next]_vars
             PROVE  IInv'
  OBVIOUS
<1>t. TypeOK'
  BY NextType DEF IInv
<1>1. ASSUME NEW r \in Replica, Wake(r)
      PROVE  IInv'
  <2>1. PICK cmd \in {"renew", "acquire"} :
           Start(r, cmd) /\ (cmd = "renew" => isSet[r])
    BY <1>1 DEF Wake
  <2>2. pc[r] # "release" /\ cmd \in Call
    BY <1>1 DEF Wake, Call
  <2>3. ThreadInv' /\ HeldInv' /\ LostInv'
    BY <1>1, <2>1, <2>2, StartKeeps DEF Wake
  <2> QED
    BY <1>t, <1>1, <2>3 DEF IInv, Wake, KeyInv, LateInv, lockVars
<1>2. ASSUME NEW r \in Replica, Execute(r)
      PROVE  IInv'
  <2>1. ThreadInv' /\ LateInv'
    BY <1>2 DEF IInv, Execute, ThreadInv, LateInv
  <2> QED
    BY <1>t, <1>2, <2>1, ExecuteKeeps DEF IInv
<1>3. ASSUME NEW r \in Replica, ReplyArrives(r) \/ ReleaseReturns(r)
      PROVE  IInv'
  <2>1. PICK b \in BOOLEAN : Sleep(r, b) /\ (b => Granted(r))
    BY <1>3 DEF ReplyArrives, ReleaseReturns, Granted
  <2>2. UNCHANGED lockVars /\ UNCHANGED late
    BY <1>3 DEF ReplyArrives, ReleaseReturns
  <2>3. ThreadInv' /\ HeldInv' /\ LostInv'
    BY <2>1, <2>2, SleepKeeps
  <2> QED
    BY <1>t, <2>2, <2>3 DEF IInv, KeyInv, LateInv, lockVars
<1>4. ASSUME NEW r \in Replica, CallFails(r) \/ ReleaseFails(r)
      PROVE  IInv'
  <2>1. UNCHANGED lockVars /\ (~Interference => late' = late)
    BY <1>4 DEF CallFails, ReleaseFails, Abandon
  <2>2. KeyInv' /\ LateInv'
    BY <2>1 DEF IInv, KeyInv, LateInv, lockVars
  <2>3. CASE Sleep(r, FALSE)
    BY <1>t, <2>1, <2>2, <2>3, SleepKeeps DEF IInv
  <2>4. CASE /\ Start(r, "release") /\ UNCHANGED <<isSet, left>>
             /\ isSet[r] /\ pc[r] # "release"
    <3>1. ThreadInv' /\ HeldInv' /\ LostInv'
      BY <2>1, <2>4, StartKeeps DEF Call
    <3> QED
      BY <1>t, <2>2, <3>1 DEF IInv
  <2> QED
    BY <1>4, <2>3, <2>4 DEF CallFails, ReleaseFails
<1>5. ASSUME NEW r \in Replica, Crash(r)
      PROVE  IInv'
  BY <1>t, <1>5, CrashKeeps DEF IInv
<1>6. CASE LateCommand
  <2>1. PICK c \in late : /\ Exec(c[1], c[2])
                          /\ late' = late \ {c}
                          /\ UNCHANGED <<threadVars, faults>>
    BY <1>6 DEF LateCommand
  <2>2. Interference
    BY <2>1 DEF IInv, LateInv
  <2>3. c[1] \in Call /\ c[2] \in Token
    BY DEF IInv, TypeOK
  <2>4. UNCHANGED threadVars
    BY <2>1
  <2>5. KeyInv' /\ HeldInv' /\ LostInv'
    BY <2>1, <2>2, <2>3, <2>4, InterferenceKeeps
  <2> QED
    BY <1>t, <2>2, <2>4, <2>5 DEF IInv, ThreadInv, LateInv, threadVars
<1>7. CASE Flush
  <2>1. Interference /\ UNCHANGED threadVars
    BY <1>7 DEF Flush
  <2>2. KeyInv' /\ HeldInv' /\ LostInv'
    BY <1>7, <2>1, InterferenceKeeps
  <2> QED
    BY <1>t, <2>1, <2>2 DEF IInv, ThreadInv, LateInv, threadVars
<1>8. CASE Tick
  <2>1. LateInv'
    BY <1>8 DEF Tick, IInv, LateInv
  <2> QED
    BY <1>t, <1>8, <2>1, TickKeeps DEF IInv
<1>9. CASE UNCHANGED vars
  BY <1>9
     DEF vars, IInv, TypeOK, KeyInv, ThreadInv, LateInv, HeldInv, LostInv, Granted
<1> QED
  BY <1>1, <1>2, <1>3, <1>4, <1>5, <1>6, <1>7, <1>8, <1>9 DEF Next, Thread

\* No replica acts as the leader for longer than MaxOverlap after it has lost
\* LEADER_KEY, whatever the number of replicas, crashes and failed calls.
THEOREM OverlapTheorem == Spec => []OverlapBounded
<1>1. Init => IInv
  BY InitIInv
<1>2. IInv /\ [Next]_vars => IInv'
  BY NextIInv
<1>3. IInv => OverlapBounded
  <2> SUFFICES ASSUME IInv, NEW r \in Replica, Believes(r)
               PROVE  gone[r] <= MaxOverlap
    BY DEF OverlapBounded
  <2>1. left[r] \in Nat /\ left[r] > 0 /\ gone[r] \in Nat
        /\ age[r] \in 0..MaxCall
    BY DEF Believes, IInv, TypeOK, Long
  <2>2. CASE holder = r
    BY <2>2, LeaderAssumption DEF IInv, HeldInv, MaxOverlap
  <2>3. CASE holder # r
    BY <2>1, <2>3, LeaderAssumption DEF IInv, LostInv, MaxOverlap
  <2> QED
    BY <2>2, <2>3
<1> QED
  BY <1>1, <1>2, <1>3, PTL DEF Spec

----------------------------------------------------------------------------
(* The key is lost by its owner.                                           *)

\* Only a release by its own token takes the key from whoever holds it.
LEMMA ExecLoses ==
    ASSUME NEW cmd, NEW tok, Exec(cmd, tok),
           NEW r \in Replica, holder = r, holder' # r
    PROVE  cmd = "release" /\ tok = r /\ holder' = None
BY LeaderAssumption
   DEF Exec, ExecAcquire, ExecRenew, ExecRelease, Store, Keep, lockVars

\* No replica takes the key from another one: it expires, or its holder gives
\* it up, dies, or the database is flushed, whatever renewals and releases of
\* anybody are delayed on the way (app/leader.py:69-91).
THEOREM LockTheorem == Spec => LockLostByOwner
<1> DEFINE Lost(r) ==
       \/ /\ holder' = None
          /\ \/ ttl = 1
             \/ pc[r] = "release"
             \/ <<"release", r>> \in late
             \/ Flush
       \/ Crash(r)
<1>1. ASSUME IInv, [Next]_vars, NEW r \in Replica, holder = r, holder' # r
      PROVE  Lost(r)
  <2>1. ASSUME NEW q \in Replica, Execute(q)
        PROVE  Lost(r)
    <3>1. pc[q] = "release" /\ q = r /\ holder' = None
      BY <1>1, <2>1, ExecLoses DEF Execute
    <3> QED
      BY <3>1
  <2>2. CASE LateCommand
    <3>1. PICK c \in late : Exec(c[1], c[2])
      BY <2>2 DEF LateCommand
    <3>2. c[1] = "release" /\ c[2] = r /\ holder' = None
      BY <1>1, <3>1, ExecLoses
    <3>3. c = <<"release", r>>
      <4>1. late \subseteq Call \X Token
        BY <1>1 DEF IInv, TypeOK
      <4> QED
        BY <3>1, <3>2, <4>1
    <3> QED
      BY <3>1, <3>2, <3>3
  <2>3. CASE Flush
    BY <2>3 DEF Flush, Store
  <2>4. CASE Tick
    <3>1. ttl \in Nat /\ ttl > 0
      BY <1>1, LeaderAssumption DEF IInv, TypeOK, KeyInv
    <3> QED
      BY <1>1, <2>4, <3>1 DEF Tick
  <2>5. ASSUME NEW q \in Replica, Crash(q)
        PROVE  Lost(r)
    BY <1>1, <2>5 DEF Crash
  <2>6. ASSUME NEW q \in Replica,
               \/ Wake(q) \/ ReplyArrives(q) \/ ReleaseReturns(q)
               \/ CallFails(q) \/ ReleaseFails(q)
        PROVE  FALSE
    BY <1>1, <2>6 DEF Wake, ReplyArrives, ReleaseReturns, CallFails,
                      ReleaseFails, lockVars
  <2>7. CASE UNCHANGED vars
    BY <1>1, <2>7 DEF vars
  <2> QED
    BY <1>1, <2>1, <2>2, <2>3, <2>4, <2>5, <2>6, <2>7 DEF Next, Thread
<1>2. IInv /\ [Next]_vars
      => [\A r \in Replica : holder = r /\ holder' # r => Lost(r)]_vars
  BY <1>1
<1> QED
  BY <1>2, InitIInv, NextIInv, PTL DEF Spec, LockLostByOwner
=============================================================================
