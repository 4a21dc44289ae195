---------------------------- MODULE WorkerProofs ----------------------------
(***************************************************************************)
(* Proofs about Worker, for every number of workers, tasks, retries and    *)
(* failures.                                                               *)
(***************************************************************************)
EXTENDS Worker, FiniteSetTheorems, SequenceTheorems, TLAPS

\* Where a worker has a task in hand.
Busy == {"process", "produce", "flush", "dlq", "dlq_flush", "commit"}

PlaceInv == \A w \in Worker : pc[w] \in Busy => pos[w] \in Task

TInv == TypeOK /\ PlaceInv

\* What worker w does, or what is done to it.
Step(w) ==
    \/ Run(w) \/ Deliver(w) \/ DeliveryFails(w) \/ ProduceFails(w)
    \/ Evict(w) \/ Shutdown(w) \/ Crash(w)

\* A worker polls the task after its own, or the one after the committed ones.
LEMMA PollEffect ==
    ASSUME TypeOK, NEW w \in Worker, Poll(w)
    PROVE  \E n \in Task :
              /\ n = IF owner = w THEN pos[w] + 1 ELSE committed + 1
              /\ pos' = [pos EXCEPT ![w] = n]
<1> DEFINE n == IF owner = w THEN pos[w] + 1 ELSE committed + 1
<1>1. pos[w] \in Nat /\ committed \in Nat
  BY DEF TypeOK
<1>2. n <= LastMessage /\ pos' = [pos EXCEPT ![w] = n]
  BY DEF Poll
<1>3. n \in Task
  BY <1>1, <1>2, WorkerAssumption DEF Task
<1> QED
  BY <1>2, <1>3

\* The form of what a step of w does to the worker itself.
LEMMA StepEffect ==
    ASSUME TypeOK, NEW w \in Worker, Step(w)
    PROVE  /\ kind' = kind
           /\ pc' = pc \/ \E l \in Pc : pc' = [pc EXCEPT ![w] = l]
           /\ pos' = pos \/ \E n \in 0..LastMessage : pos' = [pos EXCEPT ![w] = n]
           /\ owner' = owner \/ owner' = w \/ owner' = None
           /\ faults' = faults \/ (faults < MaxFaults /\ faults' = faults + 1)
           /\ committed' = committed \/ (Commit(w) /\ owner = w /\ committed' = pos[w])
<1> USE DEF Step, Run
<1>1. kind' = kind
  BY DEF Start, Poll, ProcessSucceeds, ProcessFails, UnknownOperation, Produce,
         Flush, SendToDlq, DlqFlush, Commit, Cleanup, Deliver, DeliveryFails,
         ProduceFails, Evict, Shutdown, Crash, Exit
<1>2. pc' = pc \/ \E l \in Pc : pc' = [pc EXCEPT ![w] = l]
  BY DEF Start, Poll, ProcessSucceeds, ProcessFails, UnknownOperation, Produce,
         Flush, SendToDlq, DlqFlush, Commit, Cleanup, Deliver, DeliveryFails,
         ProduceFails, Evict, Shutdown, Crash, Exit, Goto, Pc
<1>3. pos' = pos \/ \E n \in 0..LastMessage : pos' = [pos EXCEPT ![w] = n]
  <2>1. CASE Poll(w)
    <3>1. Task \subseteq 0..LastMessage
      BY WorkerAssumption DEF Task
    <3> QED
      BY <2>1, <3>1, PollEffect
  <2>2. CASE ~Poll(w)
    BY <2>2 DEF Start, ProcessSucceeds, ProcessFails, UnknownOperation,
       Produce, Flush, SendToDlq, DlqFlush, Commit, Cleanup, Deliver,
       DeliveryFails, ProduceFails, Evict, Shutdown, Crash, Exit
  <2> QED
    BY <2>1, <2>2
<1>4. owner' = owner \/ owner' = w \/ owner' = None
  BY DEF Start, Poll, ProcessSucceeds, ProcessFails, UnknownOperation, Produce,
         Flush, SendToDlq, DlqFlush, Commit, Cleanup, Deliver, DeliveryFails,
         ProduceFails, Evict, Shutdown, Crash, Exit
<1>5. faults' = faults \/ (faults < MaxFaults /\ faults' = faults + 1)
  BY DEF Start, Poll, ProcessSucceeds, ProcessFails, UnknownOperation, Produce,
         Flush, SendToDlq, DlqFlush, Commit, Cleanup, Deliver, DeliveryFails,
         ProduceFails, Evict, Shutdown, Crash, Exit, Fault, NoFault
<1>6. committed' = committed \/ (Commit(w) /\ owner = w /\ committed' = pos[w])
  BY DEF Start, Poll, ProcessSucceeds, ProcessFails, UnknownOperation, Produce,
         Flush, SendToDlq, DlqFlush, Commit, Cleanup, Deliver, DeliveryFails,
         ProduceFails, Evict, Shutdown, Crash, Exit, topicVars
<1> QED
  BY <1>1, <1>2, <1>3, <1>4, <1>5, <1>6

\* A step of w leaves the other workers alone.
LEMMA StepFrame ==
    ASSUME TypeOK, NEW w \in Worker, Step(w), NEW v \in Worker, v # w
    PROVE  /\ pc'[v] = pc[v]
           /\ pos'[v] = pos[v]
           /\ outbox'[v] = outbox[v]
           /\ delivery_failed'[v] = delivery_failed[v]
<1>1. pc'[v] = pc[v] /\ pos'[v] = pos[v]
  BY StepEffect DEF TypeOK
<1>2. outbox'[v] = outbox[v] /\ delivery_failed'[v] = delivery_failed[v]
  BY DEF TypeOK, Step, Run, Start, Poll, ProcessSucceeds, ProcessFails,
     UnknownOperation, Produce, Flush, SendToDlq, DlqFlush, Commit, Cleanup,
     Deliver, DeliveryFails, ProduceFails, Evict, Shutdown, Crash, Exit, Enqueue
<1> QED
  BY <1>1, <1>2

\* What a step of w does to the queue of its producer.
LEMMA OutboxEffect ==
    ASSUME TInv, NEW w \in Worker, Step(w)
    PROVE  \/ UNCHANGED <<outbox, results, dlq>>
           \/ /\ outbox[w] # <<>>
              /\ outbox' = [outbox EXCEPT ![w] = Tail(@)]
              /\ Deliver(w) \/ DeliveryFails(w)
           \/ /\ Produce(w)
              /\ outbox' = [outbox EXCEPT ![w] =
                    Append(@, [topic |-> "results", task |-> pos[w]])]
              /\ UNCHANGED <<results, dlq>>
           \/ /\ SendToDlq(w)
              /\ outbox' = [outbox EXCEPT ![w] =
                    Append(@, [topic |-> "dlq", task |-> pos[w]])]
              /\ UNCHANGED <<results, dlq>>
           \/ /\ Exit(w)
              /\ outbox' = [outbox EXCEPT ![w] = <<>>]
              /\ UNCHANGED <<results, dlq>>
BY DEF Step, Run, Start, Poll, ProcessSucceeds, ProcessFails,
   UnknownOperation, Produce, Flush, SendToDlq, DlqFlush, Commit, Cleanup,
   Deliver, DeliveryFails, ProduceFails, Evict, Shutdown, Crash, Exit, Enqueue,
   topicVars

LEMMA StepType ==
    ASSUME TInv, NEW w \in Worker, Step(w)
    PROVE  TInv'
<1>0. TypeOK
  BY DEF TInv
<1>1. kind' \in [Task -> Kind]
  BY <1>0, StepEffect DEF TypeOK
<1>2. owner' \in Worker \cup {None}
  BY <1>0, StepEffect DEF TypeOK
<1>3. committed' \in 0..LastMessage
  <2>1. committed' = committed \/ committed' = pos[w]
    BY <1>0, StepEffect
  <2> QED
    BY <1>0, <2>1 DEF TypeOK
<1>4. pc' \in [Worker -> Pc]
  BY <1>0, StepEffect DEF TypeOK
<1>5. pos' \in [Worker -> 0..LastMessage]
  BY <1>0, StepEffect DEF TypeOK
<1>6. faults' \in 0..MaxFaults
  <2>1. faults' = faults \/ (faults < MaxFaults /\ faults' = faults + 1)
    BY <1>0, StepEffect
  <2> QED
    BY <1>0, <2>1, WorkerAssumption DEF TypeOK
<1>7. attempt' \in [Worker -> 0..max_retries]
  <2>1. \/ attempt' = attempt
        \/ attempt' = [attempt EXCEPT ![w] = 0]
        \/ attempt[w] < max_retries /\ attempt' = [attempt EXCEPT ![w] = @ + 1]
    BY DEF Step, Run, Start, Poll, ProcessSucceeds, ProcessFails,
       UnknownOperation, Produce, Flush, SendToDlq, DlqFlush, Commit, Cleanup,
       Deliver, DeliveryFails, ProduceFails, Evict, Shutdown, Crash, Exit,
       RetriesLeft
  <2> QED
    BY <1>0, <2>1, WorkerAssumption DEF TypeOK
<1>8. delivery_failed' \in [Worker -> BOOLEAN]
  <2>1. \/ delivery_failed' = delivery_failed
        \/ \E b \in BOOLEAN : delivery_failed' = [delivery_failed EXCEPT ![w] = b]
    <3>1. delivery_failed[w] \in BOOLEAN
      BY <1>0 DEF TypeOK
    <3> QED
      BY <3>1 DEF Step, Run, Start, Poll, ProcessSucceeds, ProcessFails,
         UnknownOperation, Produce, Flush, SendToDlq, DlqFlush, Commit,
         Cleanup, Deliver, DeliveryFails, ProduceFails, Evict, Shutdown,
         Crash, Exit
  <2> QED
    BY <1>0, <2>1 DEF TypeOK
<1>9. ASSUME pc[w] \in Busy
      PROVE  pos[w] \in Task
  BY <1>9 DEF TInv, PlaceInv
<1>10. outbox' \in [Worker -> Seq(Message)]
  <2>1. outbox \in [Worker -> Seq(Message)]
    BY <1>0 DEF TypeOK
  <2>2. ASSUME Produce(w) \/ SendToDlq(w), NEW topic \in {"results", "dlq"}
        PROVE  Append(outbox[w], [topic |-> topic, task |-> pos[w]]) \in Seq(Message)
    <3>1. pos[w] \in Task
      BY <1>9, <2>2 DEF Produce, SendToDlq, Goto, Busy
    <3>2. [topic |-> topic, task |-> pos[w]] \in Message
      BY <3>1 DEF Message
    <3> QED
      BY <2>1, <3>2
  <2>3. outbox[w] # <<>> => Tail(outbox[w]) \in Seq(Message)
    BY <2>1
  <2>4. <<>> \in Seq(Message)
    OBVIOUS
  <2>5. outbox' = outbox \/ \E s \in Seq(Message) : outbox' = [outbox EXCEPT ![w] = s]
    BY <2>2, <2>3, <2>4, OutboxEffect
  <2> QED
    BY <2>1, <2>5
<1>11. results' \in [Task -> Nat] /\ dlq' \in [Task -> Nat]
  <2>1. CASE Deliver(w)
    <3>1. Head(outbox[w]) \in Message
      BY <1>0, <2>1 DEF TypeOK, Deliver
    <3>2. Head(outbox[w]).task \in Task
      BY <3>1 DEF Message
    <3>3. results \in [Task -> Nat] /\ dlq \in [Task -> Nat]
      BY <1>0 DEF TypeOK
    <3>4. \/ results' = [results EXCEPT ![Head(outbox[w]).task] = @ + 1]
             /\ UNCHANGED dlq
          \/ dlq' = [dlq EXCEPT ![Head(outbox[w]).task] = @ + 1]
             /\ UNCHANGED results
      BY <2>1 DEF Deliver
    <3> QED
      BY <3>2, <3>3, <3>4
  <2>2. CASE DeliveryFails(w)
    BY <1>0, <2>2 DEF DeliveryFails, TypeOK
  <2>3. CASE UNCHANGED <<results, dlq>>
    BY <1>0, <2>3 DEF TypeOK
  <2> QED
    BY <2>1, <2>2, <2>3, OutboxEffect
<1>12. lost' \in SUBSET Task
  <2>1. lost \in SUBSET Task
    BY <1>0 DEF TypeOK
  <2>2. CASE DeliveryFails(w)
    <3>1. Head(outbox[w]) \in Message
      BY <1>0, <2>2 DEF TypeOK, DeliveryFails
    <3>2. Head(outbox[w]).task \in Task
      BY <3>1 DEF Message
    <3> QED
      BY <2>1, <2>2, <3>2 DEF DeliveryFails
  <2>3. CASE SendToDlq(w) \/ DlqFlush(w)
    <3>1. pos[w] \in Task
      BY <1>9, <2>3 DEF SendToDlq, DlqFlush, Goto, Busy
    <3> QED
      BY <2>1, <2>3, <3>1 DEF SendToDlq, DlqFlush
  <2>4. CASE ~DeliveryFails(w) /\ ~SendToDlq(w) /\ ~DlqFlush(w)
    <3>1. lost' = lost
      BY <2>4 DEF Step, Run, Start, Poll, ProcessSucceeds, ProcessFails,
         UnknownOperation, Produce, Flush, Commit, Cleanup, Deliver,
         ProduceFails, Evict, Shutdown, Crash, Exit, topicVars
    <3> QED
      BY <2>1, <3>1
  <2> QED
    BY <2>2, <2>3, <2>4
<1>13. PlaceInv'
  <2>1. ASSUME pc'[w] \in Busy
        PROVE  pos'[w] \in Task
    <3>1. CASE Poll(w)
      BY <1>0, <3>1, PollEffect DEF TypeOK
    <3>2. CASE ~Poll(w)
      <4>1. pos' = pos /\ (pc[w] \in Busy)
        BY <1>0, <2>1, <3>2 DEF TypeOK, Step, Run, Start, ProcessSucceeds,
           ProcessFails, UnknownOperation, Produce, Flush, SendToDlq,
           DlqFlush, Commit, Cleanup, Deliver, DeliveryFails, ProduceFails,
           Evict, Shutdown, Crash, Exit, Goto, Busy
      <4> QED
        BY <1>9, <4>1
    <3> QED
      BY <3>1, <3>2
  <2> QED
    BY <1>0, <2>1, StepFrame DEF TInv, PlaceInv
<1> QED
  BY <1>1, <1>2, <1>3, <1>4, <1>5, <1>6, <1>7, <1>8, <1>10, <1>11, <1>12, <1>13
     DEF TInv, TypeOK

LEMMA InitType == Init => TInv
  BY WorkerAssumption DEF Init, TInv, TypeOK, PlaceInv, Busy, Pc

LEMMA TypeInductive == TInv /\ [Next]_vars => TInv'
<1> SUFFICES ASSUME TInv, [Next]_vars
             PROVE  TInv'
  OBVIOUS
<1>1. ASSUME NEW w \in Worker, Step(w)
      PROVE  TInv'
  BY <1>1, StepType
<1>2. CASE UNCHANGED vars
  BY <1>2 DEF vars, topicVars, TInv, TypeOK, PlaceInv
<1> QED
  BY <1>1, <1>2 DEF Next, Step

\* Every variable of the workers keeps its type, for any number of workers,
\* tasks and failures: a worker publishes, parks and commits only tasks of its
\* partition, and tries one at most max_retries + 1 times
\* (worker/main.py:181-264).
THEOREM TypeCorrect == Spec => []TypeOK
<1>1. TInv => TypeOK
  BY DEF TInv
<1> QED
  BY <1>1, InitType, TypeInductive, PTL DEF Spec

----------------------------------------------------------------------------
(* A worker commits only what somebody knows the outcome of.               *)

Handled == Answered \cup lost

\* The last message in the queue of w is about the task it has in hand.
LastIs(w, topic) ==
    /\ outbox[w] # <<>>
    /\ outbox[w][Len(outbox[w])] = [topic |-> topic, task |-> pos[w]]

\* Before a worker commits, its message has gone through the queue or is still
\* the last one there, and the owner of the partition has left no task behind.
SafeInv ==
    /\ \A i \in 1..committed : i \in Handled
    /\ \A w \in Worker :
          /\ pc[w] = "flush" =>
                delivery_failed[w] \/ pos[w] \in Handled \/ LastIs(w, "results")
          /\ pc[w] = "dlq_flush" => pos[w] \in Handled \/ LastIs(w, "dlq")
          /\ pc[w] = "commit" => pos[w] \in Handled
          /\ owner = w =>
                /\ pc[w] # "stopped"
                /\ \A i \in Task : i < pos[w] => i \in Handled
                /\ pc[w] \in {"poll", "cleanup"} => pos[w] \in Handled

\* What is handled stays handled, and so is the task of a message that leaves
\* the queue, but for a refused result.
LEMMA HandledEffect ==
    ASSUME TInv, NEW w \in Worker, Step(w)
    PROVE  /\ Handled \subseteq Handled'
           /\ Deliver(w) => Head(outbox[w]).task \in Handled'
           /\ DeliveryFails(w) => \/ Head(outbox[w]).task \in Handled'
                                  \/ Head(outbox[w]).topic = "results"
<1>1. /\ results \in [Task -> Nat] /\ dlq \in [Task -> Nat]
      /\ outbox \in [Worker -> Seq(Message)]
  BY DEF TInv, TypeOK
<1>2. results' \in [Task -> Nat] /\ dlq' \in [Task -> Nat]
  BY StepType DEF TInv, TypeOK
<1>3. lost \subseteq lost'
  BY DEF Step, Run, Start, Poll, ProcessSucceeds, ProcessFails,
     UnknownOperation, Produce, Flush, SendToDlq, DlqFlush, Commit, Cleanup,
     Deliver, DeliveryFails, ProduceFails, Evict, Shutdown, Crash, Exit,
     topicVars
<1>4. CASE Deliver(w)
  <2>1. Head(outbox[w]) \in Message
    BY <1>1, <1>4 DEF Deliver
  <2>2. Head(outbox[w]).task \in Task
    BY <2>1 DEF Message
  <2> DEFINE j == Head(outbox[w]).task
  <2>3. \/ results' = [results EXCEPT ![j] = @ + 1] /\ dlq' = dlq
        \/ dlq' = [dlq EXCEPT ![j] = @ + 1] /\ results' = results
    BY <1>4 DEF Deliver
  <2> HIDE DEF j
  <2>4. \A i \in Task : results[i] + dlq[i] > 0 \/ i = j
                           => results'[i] + dlq'[i] > 0
    BY <1>1, <2>2, <2>3 DEF j
  <2>5. Answered \subseteq Answered' /\ j \in Answered'
    BY <2>2, <2>4 DEF Answered, j
  <2>6. ~DeliveryFails(w)
    <3>1. results' # results \/ dlq' # dlq
      BY <1>1, <2>2, <2>3 DEF j
    <3> QED
      BY <3>1 DEF DeliveryFails
  <2> QED
    BY <1>3, <2>5, <2>6 DEF Handled, j
<1>5. CASE DeliveryFails(w)
  <2>1. Answered' = Answered
    BY <1>5 DEF DeliveryFails, Answered
  <2>2. \/ Head(outbox[w]).task \in lost'
        \/ Head(outbox[w]).topic = "results"
    BY <1>5 DEF DeliveryFails
  <2>3. ~Deliver(w)
    <3> SUFFICES ASSUME Deliver(w)
                 PROVE  FALSE
      OBVIOUS
    <3>1. Head(outbox[w]) \in Message
      BY <1>1, <1>5 DEF DeliveryFails
    <3>2. Head(outbox[w]).task \in Task
      BY <3>1 DEF Message
    <3>3. results' = results /\ dlq' = dlq
      BY <1>5 DEF DeliveryFails
    <3> QED
      BY <1>1, <3>2, <3>3 DEF Deliver
  <2> QED
    BY <1>3, <2>1, <2>2, <2>3 DEF Handled
<1>6. CASE ~Deliver(w) /\ ~DeliveryFails(w)
  <2>1. UNCHANGED <<results, dlq>>
    BY <1>6, OutboxEffect
  <2>2. Answered' = Answered
    BY <2>1 DEF Answered
  <2> QED
    BY <1>3, <1>6, <2>2 DEF Handled
<1> QED
  BY <1>4, <1>5, <1>6

\* The queue keeps its last message until that one leaves it.
LEMMA LastStays ==
    ASSUME TInv, NEW w \in Worker, NEW topic, LastIs(w, topic),
           outbox' = [outbox EXCEPT ![w] = Tail(@)], pos'[w] = pos[w]
    PROVE  \/ LastIs(w, topic)'
           \/ /\ Len(outbox[w]) = 1
              /\ Head(outbox[w]) = [topic |-> topic, task |-> pos[w]]
<1>1. outbox \in [Worker -> Seq(Message)]
  BY DEF TInv, TypeOK
<1> DEFINE s == outbox[w]
<1>2. s \in Seq(Message) /\ s # <<>> /\ s[Len(s)] = [topic |-> topic, task |-> pos[w]]
  BY <1>1 DEF LastIs
<1>3. outbox'[w] = Tail(s)
  BY <1>1
<1> HIDE DEF s
<1>4. CASE Len(s) = 1
  BY <1>2, <1>4 DEF s
<1>5. CASE Len(s) # 1
  <2>1. Len(s) \in Nat /\ Len(s) # 0
    BY <1>2, EmptySeq, LenProperties
  <2>2. /\ Tail(s) \in Seq(Message)
        /\ Len(Tail(s)) = Len(s) - 1
        /\ \A i \in 1..Len(Tail(s)) : Tail(s)[i] = s[i+1]
    BY <1>2, HeadTailProperties
  <2> DEFINE n == Len(Tail(s))
  <2>3. n \in 1..n /\ n + 1 = Len(s)
    BY <1>5, <2>1, <2>2
  <2>4. Tail(s)[n] = s[Len(s)]
    BY <2>2, <2>3
  <2>5. Tail(s) # <<>>
    BY <2>3
  <2> QED
    BY <1>2, <1>3, <2>4, <2>5 DEF LastIs
<1> QED
  BY <1>4, <1>5

\* A worker's own message, once it has left the queue.
LEMMA MessageLeaves ==
    ASSUME TInv, NEW w \in Worker, Step(w), NEW topic \in {"results", "dlq"},
           LastIs(w, topic), pos'[w] = pos[w], pc[w] # "produce", pc[w] # "dlq",
           pc'[w] # "stopped"
    PROVE  \/ LastIs(w, topic)'
           \/ pos[w] \in Handled'
           \/ topic = "results" /\ (pc[w] = "flush" => delivery_failed'[w])
<1>1. CASE UNCHANGED outbox
  BY <1>1 DEF LastIs
<1>2. CASE outbox' = [outbox EXCEPT ![w] = Tail(@)] /\ (Deliver(w) \/ DeliveryFails(w))
  <2>1. CASE LastIs(w, topic)'
    BY <2>1
  <2>2. CASE /\ Len(outbox[w]) = 1
             /\ Head(outbox[w]) = [topic |-> topic, task |-> pos[w]]
    <3>1. Head(outbox[w]).task = pos[w] /\ Head(outbox[w]).topic = topic
      BY <2>2
    <3>2. CASE pos[w] \in Handled'
      BY <3>2
    <3>3. CASE DeliveryFails(w) /\ topic = "results"
      <4>1. /\ delivery_failed' = [delivery_failed EXCEPT
                   ![w] = @ \/ (pc[w] = "flush" /\ Len(outbox[w]) = 1)]
            /\ delivery_failed \in [Worker -> BOOLEAN]
        BY <3>1, <3>3 DEF DeliveryFails, TInv, TypeOK
      <4> QED
        BY <2>2, <3>3, <4>1
    <3> QED
      BY <1>2, <3>1, <3>2, <3>3, HandledEffect
  <2> QED
    BY <1>2, <2>1, <2>2, LastStays
<1>3. CASE Produce(w) \/ SendToDlq(w)
  BY <1>3 DEF Produce, SendToDlq, Goto
<1>4. CASE Exit(w)
  BY <1>4 DEF Exit, TInv, TypeOK
<1> QED
  BY <1>1, <1>2, <1>3, <1>4, OutboxEffect

LEMMA SafeInductive ==
    ASSUME TInv, SafeInv, NEW w \in Worker, Step(w)
    PROVE  SafeInv'
<1>0. TypeOK /\ TypeOK'
  BY StepType DEF TInv
<1>1. Handled \subseteq Handled'
  BY HandledEffect
<1>2. /\ pc \in [Worker -> Pc] /\ pos \in [Worker -> 0..LastMessage]
      /\ outbox \in [Worker -> Seq(Message)]
      /\ delivery_failed \in [Worker -> BOOLEAN]
      /\ committed \in Nat /\ pos[w] \in Nat
  <2>1. committed \in Nat /\ pos[w] \in Nat
    BY <1>0 DEF TypeOK
  <2> QED
    BY <1>0, <2>1 DEF TypeOK
<1>3. /\ pc[w] = "flush" =>
            delivery_failed[w] \/ pos[w] \in Handled \/ LastIs(w, "results")
      /\ pc[w] = "dlq_flush" => pos[w] \in Handled \/ LastIs(w, "dlq")
      /\ pc[w] = "commit" => pos[w] \in Handled
      /\ owner = w =>
            /\ pc[w] # "stopped"
            /\ \A i \in Task : i < pos[w] => i \in Handled
            /\ pc[w] \in {"poll", "cleanup"} => pos[w] \in Handled
  BY DEF SafeInv
<1>4. \A i \in 1..committed' : i \in Handled'
  <2>1. CASE committed' = committed
    BY <1>1, <2>1 DEF SafeInv
  <2>2. CASE Commit(w) /\ owner = w /\ committed' = pos[w]
    <3>1. pc[w] = "commit" /\ pos[w] \in Task
      BY <2>2 DEF Commit, Goto, TInv, PlaceInv, Busy
    <3>2. \A i \in 1..pos[w] : i \in Task /\ (i = pos[w] \/ i < pos[w])
      BY <3>1, WorkerAssumption DEF Task
    <3> QED
      BY <1>1, <1>3, <2>2, <3>1, <3>2
  <2> QED
    BY <1>0, <2>1, <2>2, StepEffect
<1>5. ASSUME pc'[w] = "flush"
      PROVE  delivery_failed'[w] \/ pos'[w] \in Handled' \/ LastIs(w, "results")'
  <2>1. CASE Produce(w)
    <3>1. outbox'[w] = Append(outbox[w], [topic |-> "results", task |-> pos[w]])
          /\ pos' = pos
      BY <1>2, <2>1 DEF Produce, Enqueue
    <3>2. outbox[w] \in Seq(Message)
          /\ [topic |-> "results", task |-> pos[w]] \in Message
      BY <1>2, <2>1 DEF Produce, Goto, TInv, PlaceInv, Busy, Message
    <3>3. /\ outbox'[w] # <<>>
          /\ Len(outbox'[w]) = Len(outbox[w]) + 1
          /\ outbox'[w][Len(outbox[w]) + 1] = [topic |-> "results", task |-> pos[w]]
      BY <3>1, <3>2, AppendProperties
    <3> QED
      BY <3>1, <3>3 DEF LastIs
  <2>2. CASE ~Produce(w)
    <3>1. /\ pc[w] = "flush" /\ pos' = pos
          /\ delivery_failed[w] => delivery_failed'[w]
      BY <1>2, <1>5, <2>2 DEF Step, Run, Start, Poll, ProcessSucceeds,
         ProcessFails, UnknownOperation, Flush, SendToDlq, DlqFlush, Commit,
         Cleanup, Deliver, DeliveryFails, ProduceFails, Evict, Shutdown, Crash,
         Exit, Goto
    <3>2. LastIs(w, "results") =>
             \/ LastIs(w, "results")' \/ pos[w] \in Handled'
             \/ delivery_failed'[w]
      BY <1>5, <3>1, MessageLeaves
    <3> QED
      BY <1>1, <1>3, <3>1, <3>2
  <2> QED
    BY <2>1, <2>2
<1>6. ASSUME pc'[w] = "dlq_flush"
      PROVE  pos'[w] \in Handled' \/ LastIs(w, "dlq")'
  <2>1. CASE SendToDlq(w)
    <3>1. outbox'[w] = Append(outbox[w], [topic |-> "dlq", task |-> pos[w]])
          /\ pos' = pos
      BY <1>2, <1>6, <2>1 DEF SendToDlq, Enqueue, Goto
    <3>2. outbox[w] \in Seq(Message)
          /\ [topic |-> "dlq", task |-> pos[w]] \in Message
      BY <1>2, <2>1 DEF SendToDlq, Goto, TInv, PlaceInv, Busy, Message
    <3>3. /\ outbox'[w] # <<>>
          /\ Len(outbox'[w]) = Len(outbox[w]) + 1
          /\ outbox'[w][Len(outbox[w]) + 1] = [topic |-> "dlq", task |-> pos[w]]
      BY <3>1, <3>2, AppendProperties
    <3> QED
      BY <3>1, <3>3 DEF LastIs
  <2>2. CASE ~SendToDlq(w)
    <3>1. pc[w] = "dlq_flush" /\ pos' = pos
      BY <1>2, <1>6, <2>2 DEF Step, Run, Start, Poll, ProcessSucceeds,
         ProcessFails, UnknownOperation, Produce, Flush, DlqFlush, Commit,
         Cleanup, Deliver, DeliveryFails, ProduceFails, Evict, Shutdown, Crash,
         Exit, Goto
    <3>2. LastIs(w, "dlq") => LastIs(w, "dlq")' \/ pos[w] \in Handled'
      BY <1>6, <3>1, MessageLeaves
    <3> QED
      BY <1>1, <1>3, <3>1, <3>2
  <2> QED
    BY <2>1, <2>2
<1>7. ASSUME pc'[w] = "commit"
      PROVE  pos'[w] \in Handled'
  <2>1. CASE Flush(w)
    <3>1. outbox[w] = <<>> /\ ~delivery_failed[w] /\ pc[w] = "flush" /\ pos' = pos
      BY <1>2, <1>7, <2>1 DEF Flush, Goto, Published
    <3> QED
      BY <1>1, <1>3, <3>1 DEF LastIs
  <2>2. CASE SendToDlq(w)
    BY <1>2, <1>7, <2>2 DEF SendToDlq, Goto, Handled
  <2>3. CASE DlqFlush(w)
    <3>1. pos' = pos /\ pc[w] = "dlq_flush"
      BY <2>3 DEF DlqFlush, Goto
    <3>2. outbox[w] = <<>> \/ pos[w] \in lost'
      BY <2>3 DEF DlqFlush
    <3> QED
      BY <1>1, <1>3, <3>1, <3>2 DEF LastIs, Handled
  <2>4. CASE ~Flush(w) /\ ~SendToDlq(w) /\ ~DlqFlush(w)
    <3>1. pc[w] = "commit" /\ pos' = pos
      BY <1>2, <1>7, <2>4 DEF Step, Run, Start, Poll, ProcessSucceeds,
         ProcessFails, UnknownOperation, Produce, Commit, Cleanup, Deliver,
         DeliveryFails, ProduceFails, Evict, Shutdown, Crash, Exit, Goto
    <3> QED
      BY <1>1, <1>3, <3>1
  <2> QED
    BY <2>1, <2>2, <2>3, <2>4
<1>8. ASSUME owner' = w
      PROVE  /\ pc'[w] # "stopped"
             /\ \A i \in Task : i < pos'[w] => i \in Handled'
             /\ pc'[w] \in {"poll", "cleanup"} => pos'[w] \in Handled'
  <2>1. CASE Poll(w)
    <3>1. pc'[w] = "process" /\ pc[w] = "poll" /\ owner \in {w, None}
      BY <1>2, <2>1 DEF Poll, Goto
    <3>2. PICK n \in Task : /\ n = IF owner = w THEN pos[w] + 1 ELSE committed + 1
                            /\ pos' = [pos EXCEPT ![w] = n]
      BY <1>0, <2>1, PollEffect
    <3>3. pos'[w] = n
      BY <1>2, <3>2
    <3>4. ASSUME NEW i \in Task, i < n
          PROVE  i \in Handled
      <4>1. i \in Nat /\ i >= 1
        BY WorkerAssumption DEF Task
      <4>2. CASE owner = w
        <5>1. i < pos[w] \/ i = pos[w]
          BY <1>2, <3>2, <3>4, <4>1, <4>2
        <5> QED
          BY <1>3, <3>1, <4>2, <5>1
      <4>3. CASE owner # w
        <5>1. i \in 1..committed
          BY <1>2, <3>2, <3>4, <4>1, <4>3
        <5> QED
          BY <5>1 DEF SafeInv
      <4> QED
        BY <4>2, <4>3
    <3> QED
      BY <1>1, <3>1, <3>3, <3>4
  <2>2. CASE ~Poll(w)
    <3>1. owner = w /\ pos' = pos
      BY <1>2, <1>8, <2>2, WorkerAssumption DEF Step, Run, Start,
         ProcessSucceeds, ProcessFails, UnknownOperation, Produce, Flush,
         SendToDlq, DlqFlush, Commit, Cleanup, Deliver, DeliveryFails,
         ProduceFails, Evict, Shutdown, Crash, Exit
    <3>2. ~Exit(w) /\ ~Start(w)
      BY <1>2, <1>3, <1>8, <3>1, WorkerAssumption DEF Exit, Start, Goto
    <3>3. /\ pc'[w] # "stopped"
          /\ pc'[w] \in {"poll", "cleanup"} =>
                pc[w] \in {"poll", "cleanup", "commit"}
      BY <1>2, <1>3, <1>8, <2>2, <3>1, <3>2 DEF Step, Run, ProcessSucceeds,
         ProcessFails, UnknownOperation, Produce, Flush, SendToDlq, DlqFlush,
         Commit, Cleanup, Deliver, DeliveryFails, ProduceFails, Evict,
         Shutdown, Crash, Goto
    <3> QED
      BY <1>1, <1>3, <3>1, <3>3
  <2> QED
    BY <2>1, <2>2
<1>9. ASSUME NEW v \in Worker, v # w
      PROVE  /\ pc'[v] = "flush" =>
                   delivery_failed'[v] \/ pos'[v] \in Handled' \/ LastIs(v, "results")'
             /\ pc'[v] = "dlq_flush" => pos'[v] \in Handled' \/ LastIs(v, "dlq")'
             /\ pc'[v] = "commit" => pos'[v] \in Handled'
             /\ owner' = v =>
                   /\ pc'[v] # "stopped"
                   /\ \A i \in Task : i < pos'[v] => i \in Handled'
                   /\ pc'[v] \in {"poll", "cleanup"} => pos'[v] \in Handled'
  <2>1. /\ pc'[v] = pc[v] /\ pos'[v] = pos[v] /\ outbox'[v] = outbox[v]
        /\ delivery_failed'[v] = delivery_failed[v]
    BY <1>0, <1>9, StepFrame
  <2>2. owner' = v => owner = v
    BY <1>0, <1>9, StepEffect, WorkerAssumption
  <2>3. \A topic : LastIs(v, topic)' = LastIs(v, topic)
    BY <2>1 DEF LastIs
  <2> QED
    BY <1>1, <2>1, <2>2, <2>3 DEF SafeInv
<1> QED
  BY <1>4, <1>5, <1>6, <1>7, <1>8, <1>9 DEF SafeInv

----------------------------------------------------------------------------
(* The workers implement AtLeastOnce.                                      *)

\* A task is committed only after its result or its parked copy was sent, or
\* was refused by the dead letter queue itself, whatever crashes, evictions,
\* refused deliveries and flushes that time out happen: the safety half of
\* TaskDelivery (worker/main.py:244-264, 305-312, 384-421).
THEOREM WorkersDeliver == Spec => AtLeastOnce!Spec
<1>1. Init => AtLeastOnce!Init
  BY DEF Init, AtLeastOnce!Init, Answered
<1>2. Init => SafeInv
  <2> SUFFICES ASSUME Init
               PROVE  SafeInv
    OBVIOUS
  <2>1. 1..committed = {} /\ owner = None /\ \A w \in Worker : pc[w] = "stopped"
    BY DEF Init
  <2> QED
    BY <2>1, WorkerAssumption DEF SafeInv
<1>3. TInv /\ SafeInv /\ [Next]_vars => TInv' /\ SafeInv'
  <2>1. ASSUME SafeInv, UNCHANGED vars
        PROVE  SafeInv'
    BY <2>1 DEF SafeInv, Handled, Answered, LastIs, vars, topicVars
  <2> QED
    BY <2>1, TypeInductive, SafeInductive DEF Next, Step
<1>4. ASSUME TInv, SafeInv, [Next]_vars
      PROVE  [AtLeastOnce!Next]_<<Answered \cup lost, committed>>
  <2>1. ASSUME NEW w \in Worker, Step(w)
        PROVE  AtLeastOnce!Next
    <3>1. Handled' \subseteq Task
      BY <1>4, <2>1, StepType DEF Handled, Answered, TInv, TypeOK
    <3>2. CASE committed' = committed
      <4>1. Handled' = Handled \cup Handled' /\ Handled' \in SUBSET (1..LastMessage)
        BY <1>4, <2>1, <3>1, HandledEffect DEF Task
      <4>2. AtLeastOnce!Handle
        BY <3>2, <4>1 DEF AtLeastOnce!Handle, Handled
      <4> QED
        BY <4>2 DEF AtLeastOnce!Next
    <3>3. CASE Commit(w) /\ owner = w /\ committed' = pos[w]
      <4>1. pc[w] = "commit" /\ pos[w] \in Task
        BY <1>4, <3>3 DEF Commit, Goto, TInv, PlaceInv, Busy
      <4>2. \A i \in 1..pos[w] : i \in Task /\ (i = pos[w] \/ i < pos[w])
        BY <4>1, WorkerAssumption DEF Task
      <4>3. 1..pos[w] \subseteq Handled /\ pos[w] \in 0..LastMessage
        BY <1>4, <3>3, <4>1, <4>2 DEF SafeInv, TInv, TypeOK
      <4>4. Handled' = Handled
        BY <3>3 DEF Commit, Handled, Answered
      <4>5. AtLeastOnce!Commit
        BY <3>3, <4>3, <4>4 DEF AtLeastOnce!Commit, Handled
      <4> QED
        BY <4>5 DEF AtLeastOnce!Next
    <3> QED
      BY <1>4, <2>1, <3>2, <3>3, StepEffect DEF TInv
  <2>2. CASE UNCHANGED vars
    BY <2>2 DEF vars, topicVars, Answered
  <2> QED
    BY <1>4, <2>1, <2>2 DEF Next, Step
<1> QED
  BY <1>1, <1>2, <1>3, <1>4, InitType, PTL DEF Spec, AtLeastOnce!Spec

----------------------------------------------------------------------------
(* How often a task can be answered.                                       *)

\* Worker w is going to queue an answer to task i.
Pending(w, i) ==
    /\ pos[w] = i
    /\ \/ pc[w] \in {"process", "produce", "dlq"}
       \/ pc[w] = "flush" /\ delivery_failed[w]

\* The answers to i on their way: <<w, 0>> stands for the one that w is going
\* to queue, <<w, k>> for the k-th message of its queue.
Live(i) ==
    {p \in Worker \X Nat :
        \/ p[2] = 0 /\ Pending(p[1], i)
        \/ p[2] \in 1..Len(outbox[p[1]]) /\ outbox[p[1]][p[2]].task = i}

\* The next task that is polled if nothing fails is after this one.
From ==
    IF owner = None THEN committed
    ELSE IF pc[owner] = "cleanup" /\ committed < pos[owner] THEN committed
    ELSE pos[owner]

\* Task i may still be polled without a failure.
ToPoll(i) == IF i > From THEN 1 ELSE 0

\* Each answer that was given, is on its way, or is still to come beyond the
\* first one was paid for with a failure.
CountInv ==
    /\ \A w \in Worker : delivery_failed[w] => pc[w] \notin {"process", "produce"}
    /\ \A i \in Task :
          /\ IsFiniteSet(Live(i))
          /\ results[i] + dlq[i] + Cardinality(Live(i)) + ToPoll(i) <= 1 + faults

\* One more element, or one less.
LEMMA Cards ==
    ASSUME NEW S, NEW T, NEW x, IsFiniteSet(S)
    PROVE  /\ Cardinality(S) \in Nat
           /\ T \subseteq S =>
                 IsFiniteSet(T) /\ Cardinality(T) <= Cardinality(S)
           /\ T \subseteq S \cup {x} =>
                 IsFiniteSet(T) /\ Cardinality(T) <= Cardinality(S) + 1
           /\ T \subseteq S \ {x} /\ x \in S =>
                 IsFiniteSet(T) /\ Cardinality(T) + 1 <= Cardinality(S)
<1>1. Cardinality(S) \in Nat
  BY FS_CardinalityType
<1>2. T \subseteq S => IsFiniteSet(T) /\ Cardinality(T) <= Cardinality(S)
  BY FS_Subset
<1>3. ASSUME T \subseteq S \cup {x}
      PROVE  IsFiniteSet(T) /\ Cardinality(T) <= Cardinality(S) + 1
  <2>1. /\ IsFiniteSet(S \cup {x})
        /\ Cardinality(S \cup {x}) =
              IF x \in S THEN Cardinality(S) ELSE Cardinality(S) + 1
    BY FS_AddElement
  <2>2. IsFiniteSet(T) /\ Cardinality(T) <= Cardinality(S \cup {x})
    BY <1>3, <2>1, FS_Subset
  <2>3. Cardinality(T) \in Nat
    BY <2>2, FS_CardinalityType
  <2> QED
    BY <1>1, <2>1, <2>2, <2>3
<1>4. ASSUME T \subseteq S \ {x}, x \in S
      PROVE  IsFiniteSet(T) /\ Cardinality(T) + 1 <= Cardinality(S)
  <2>1. IsFiniteSet(S \ {x}) /\ Cardinality(S \ {x}) = Cardinality(S) - 1
    BY <1>4, FS_RemoveElement
  <2>2. IsFiniteSet(T) /\ Cardinality(T) <= Cardinality(S \ {x})
    BY <1>4, <2>1, FS_Subset
  <2>3. Cardinality(T) \in Nat
    BY <2>2, FS_CardinalityType
  <2> QED
    BY <1>1, <2>1, <2>2, <2>3
<1> QED
  BY <1>1, <1>2, <1>3, <1>4

\* Exchanging one element keeps the number.
LEMMA Exchange ==
    ASSUME NEW S, NEW T, NEW x, NEW y, IsFiniteSet(S), x \in S,
           T \subseteq (S \ {x}) \cup {y}
    PROVE  IsFiniteSet(T) /\ Cardinality(T) <= Cardinality(S)
<1>1. IsFiniteSet(S \ {x}) /\ Cardinality(S \ {x}) = Cardinality(S) - 1
  BY FS_RemoveElement
<1>2. IsFiniteSet(T) /\ Cardinality(T) <= Cardinality(S \ {x}) + 1
  BY <1>1, Cards
<1>3. Cardinality(S) \in Nat /\ Cardinality(T) \in Nat
  BY <1>2, FS_CardinalityType
<1> QED
  BY <1>1, <1>2, <1>3

\* When the first message leaves the queue of w, the others move up: there are
\* no more of them, and one less about i if it was about i.
LEMMA TailCards ==
    ASSUME TInv, NEW w \in Worker, NEW i \in Task, IsFiniteSet(Live(i)),
           outbox[w] # <<>>, outbox' = [outbox EXCEPT ![w] = Tail(@)],
           NEW T, T \subseteq {p \in Live(i)' : p[2] # 0 \/ p \in Live(i)}
    PROVE  /\ IsFiniteSet(T)
           /\ Cardinality(T) <= Cardinality(Live(i))
           /\ Head(outbox[w]).task = i => Cardinality(T) + 1 <= Cardinality(Live(i))
<1> DEFINE f == [p \in T |-> IF p[1] = w /\ p[2] # 0 THEN <<w, p[2] + 1>> ELSE p]
           L == Live(i) \ {<<w, 1>>}
<1>1. /\ outbox \in [Worker -> Seq(Message)]
      /\ outbox[w] \in Seq(Message)
  BY DEF TInv, TypeOK
<1>2. /\ Tail(outbox[w]) \in Seq(Message)
      /\ Len(Tail(outbox[w])) = Len(outbox[w]) - 1
      /\ \A k \in 1..Len(Tail(outbox[w])) : Tail(outbox[w])[k] = outbox[w][k+1]
      /\ Head(outbox[w]) = outbox[w][1]
      /\ Len(outbox[w]) \in Nat \ {0}
  BY <1>1, HeadTailProperties, EmptySeq
<1>3. /\ outbox'[w] = Tail(outbox[w])
      /\ \A v \in Worker : v # w => outbox'[v] = outbox[v]
  BY <1>1
<1>4. ASSUME NEW p \in T
      PROVE  f[p] \in L
  <2>1. p \in Worker \X Nat /\ (p[2] # 0 \/ p \in Live(i))
        /\ p = <<p[1], p[2]>> /\ p[1] \in Worker /\ p[2] \in Nat
    BY <1>4 DEF Live
  <2>2. CASE p[2] = 0
    <3>1. f[p] = p /\ p # <<w, 1>>
      BY <1>4, <2>1, <2>2
    <3> QED
      BY <2>1, <2>2, <3>1
  <2>3. CASE p[2] # 0
    <3>1. p[2] \in 1..Len(outbox'[p[1]]) /\ outbox'[p[1]][p[2]].task = i
      BY <1>4, <2>3 DEF Live
    <3>2. CASE p[1] = w
      <4>1. f[p] = <<w, p[2] + 1>>
        BY <1>4, <2>3, <3>2
      <4>2. p[2] \in 1..Len(Tail(outbox[w])) /\ Tail(outbox[w])[p[2]].task = i
        BY <1>3, <3>1, <3>2
      <4>3. p[2] + 1 \in 1..Len(outbox[w]) /\ outbox[w][p[2] + 1].task = i
        BY <1>2, <2>1, <4>2
      <4>4. p[2] + 1 # 1 /\ p[2] + 1 \in Nat
        BY <2>1, <2>3
      <4>5. <<w, p[2] + 1>> \in Live(i)
        BY <4>3, <4>4 DEF Live
      <4> QED
        BY <4>1, <4>4, <4>5
    <3>3. CASE p[1] # w
      <4>1. f[p] = p
        BY <1>4, <3>3
      <4>2. p \in Live(i)
        BY <1>3, <2>1, <3>1, <3>3 DEF Live
      <4> QED
        BY <2>1, <3>3, <4>1, <4>2
    <3> QED
      BY <3>2, <3>3
  <2> QED
    BY <2>2, <2>3
<1>5. ASSUME NEW p \in T, NEW q \in T, f[p] = f[q]
      PROVE  p = q
  <2>1. /\ p = <<p[1], p[2]>> /\ p[2] \in Nat
        /\ q = <<q[1], q[2]>> /\ q[2] \in Nat
    BY <1>5 DEF Live
  <2>2. /\ f[p] = IF p[1] = w /\ p[2] # 0 THEN <<w, p[2] + 1>> ELSE p
        /\ f[q] = IF q[1] = w /\ q[2] # 0 THEN <<w, q[2] + 1>> ELSE q
    BY <1>5
  <2>3. CASE p[1] = w /\ p[2] # 0
    <3>1. f[p][1] = w /\ f[p][2] = p[2] + 1
      BY <2>2, <2>3
    <3>2. CASE q[1] = w /\ q[2] # 0
      <4>1. f[q][2] = q[2] + 1
        BY <2>2, <3>2
      <4> QED
        BY <1>5, <2>1, <2>3, <3>1, <3>2, <4>1
    <3>3. CASE ~(q[1] = w /\ q[2] # 0)
      BY <1>5, <2>1, <2>2, <2>3, <3>1, <3>3
    <3> QED
      BY <3>2, <3>3
  <2>4. CASE ~(p[1] = w /\ p[2] # 0)
    <3>1. CASE q[1] = w /\ q[2] # 0
      <4>1. f[q][1] = w /\ f[q][2] = q[2] + 1
        BY <2>2, <3>1
      <4> QED
        BY <1>5, <2>1, <2>2, <2>4, <3>1, <4>1
    <3>2. CASE ~(q[1] = w /\ q[2] # 0)
      BY <1>5, <2>2, <2>4, <3>2
    <3> QED
      BY <3>1, <3>2
  <2> QED
    BY <2>3, <2>4
<1>6. f \in Injection(T, L)
  <2>1. f \in [T -> L]
    BY <1>4
  <2> HIDE DEF f
  <2> QED
    BY <1>5, <2>1 DEF Injection, IsInjective
<1> HIDE DEF f
<1>7. IsFiniteSet(L) /\ Cardinality(L) <= Cardinality(Live(i))
  BY Cards
<1>8. IsFiniteSet(T) /\ Cardinality(T) <= Cardinality(L)
  BY <1>6, <1>7, FS_Injection
<1>9. Head(outbox[w]).task = i => Cardinality(L) + 1 <= Cardinality(Live(i))
  <2>1. SUFFICES ASSUME Head(outbox[w]).task = i
                 PROVE  <<w, 1>> \in Live(i)
    BY Cards
  <2> QED
    BY <1>2, <2>1 DEF Live
<1>10. Cardinality(T) \in Nat /\ Cardinality(L) \in Nat /\ Cardinality(Live(i)) \in Nat
  BY <1>7, <1>8, FS_CardinalityType
<1> QED
  BY <1>7, <1>8, <1>9, <1>10

\* The next poll moves past a task; nothing but an eviction, a signal or a
\* crash moves it back.
LEMMA FromMoves ==
    ASSUME TInv, NEW w \in Worker, Step(w)
    PROVE  /\ From \in Nat /\ From' \in Nat
           /\ ~Evict(w) /\ ~Shutdown(w) /\ ~Crash(w) => From' >= From
           /\ Poll(w) => pos'[w] = From + 1 /\ From' = From + 1
<1>0. TypeOK /\ TypeOK'
  BY StepType DEF TInv
<1>1. /\ pc \in [Worker -> Pc] /\ pos \in [Worker -> 0..LastMessage]
      /\ committed \in Nat /\ committed' \in Nat
      /\ \A v \in Worker : pos[v] \in Nat /\ pos'[v] \in Nat
      /\ owner \in Worker \cup {None} /\ owner' \in Worker \cup {None}
  <2>1. committed \in 0..LastMessage /\ committed' \in 0..LastMessage
    BY <1>0 DEF TypeOK
  <2>2. \A v \in Worker : pos[v] \in 0..LastMessage /\ pos'[v] \in 0..LastMessage
    BY <1>0 DEF TypeOK
  <2>3. /\ committed \in Nat /\ committed' \in Nat
        /\ \A v \in Worker : pos[v] \in Nat /\ pos'[v] \in Nat
    BY <2>1, <2>2
  <2>4. /\ pc \in [Worker -> Pc] /\ pos \in [Worker -> 0..LastMessage]
        /\ owner \in Worker \cup {None} /\ owner' \in Worker \cup {None}
    BY <1>0 DEF TypeOK
  <2> QED
    BY <2>3, <2>4
<1>2. From \in Nat /\ From' \in Nat
  BY <1>1 DEF From
<1>3. ASSUME Poll(w)
      PROVE  pos'[w] = From + 1 /\ From' = From + 1
  <2>1. /\ pc[w] = "poll" /\ pc'[w] = "process" /\ owner \in {w, None} /\ owner' = w
    BY <1>1, <1>3 DEF Poll, Goto
  <2>2. pos'[w] = IF owner = w THEN pos[w] + 1 ELSE committed + 1
    BY <1>0, <1>1, <1>3, PollEffect
  <2> QED
    BY <1>1, <2>1, <2>2, WorkerAssumption DEF From
<1>4. ASSUME ~Evict(w), ~Shutdown(w), ~Crash(w), ~Poll(w)
      PROVE  From' >= From
  <2>1. pos' = pos
    BY <1>4 DEF Step, Run, Start, ProcessSucceeds, ProcessFails,
       UnknownOperation, Produce, Flush, SendToDlq, DlqFlush, Commit, Cleanup,
       Deliver, DeliveryFails, ProduceFails, Exit
  <2>2. CASE Cleanup(w) /\ owner = w
    <3>1. owner' = None /\ committed' = committed /\ pc[w] = "cleanup"
      BY <2>2 DEF Cleanup, Exit, topicVars
    <3> QED
      BY <1>1, <2>2, <3>1, WorkerAssumption DEF From
  <2>3. CASE ~(Cleanup(w) /\ owner = w)
    <3>1. owner' = owner
      BY <1>4, <2>3 DEF Step, Run, Start, ProcessSucceeds, ProcessFails,
         UnknownOperation, Produce, Flush, SendToDlq, DlqFlush, Commit,
         Cleanup, Deliver, DeliveryFails, ProduceFails, Exit
    <3>2. owner # None => (pc'[owner] = "cleanup" <=> pc[owner] = "cleanup")
      <4>1. CASE owner = w
        BY <1>1, <1>4, <2>3, <4>1 DEF Step, Run, Start, ProcessSucceeds,
           ProcessFails, UnknownOperation, Produce, Flush, SendToDlq,
           DlqFlush, Commit, Deliver, DeliveryFails, ProduceFails, Goto
      <4>2. CASE owner # w
        BY <1>0, <1>1, <4>2, StepFrame
      <4> QED
        BY <4>1, <4>2
    <3>3. committed' = committed \/ (owner = w /\ pc[w] = "commit")
      <4>1. committed' = committed \/ (Commit(w) /\ owner = w)
        BY <1>0, StepEffect
      <4> QED
        BY <4>1 DEF Commit, Goto
    <3>4. CASE committed' = committed
      BY <1>1, <2>1, <3>1, <3>2, <3>4 DEF From
    <3>5. CASE owner = w /\ pc[w] = "commit"
      BY <1>1, <2>1, <3>1, <3>2, <3>5, WorkerAssumption DEF From
    <3> QED
      BY <3>3, <3>4, <3>5
  <2> QED
    BY <2>2, <2>3
<1> QED
  BY <1>2, <1>3, <1>4

\* What that says of one task.
LEMMA ToPollMoves ==
    ASSUME TInv, NEW w \in Worker, Step(w), NEW i \in Task
    PROVE  /\ ToPoll(i) \in {0, 1} /\ ToPoll(i)' \in {0, 1}
           /\ ~Evict(w) /\ ~Shutdown(w) /\ ~Crash(w) => ToPoll(i)' <= ToPoll(i)
           /\ Poll(w) /\ pos'[w] = i => ToPoll(i) = 1 /\ ToPoll(i)' = 0
<1>1. /\ From \in Nat /\ From' \in Nat
      /\ ~Evict(w) /\ ~Shutdown(w) /\ ~Crash(w) => From' >= From
      /\ Poll(w) => pos'[w] = From + 1 /\ From' = From + 1
  BY FromMoves
<1>2. i \in Nat
  BY WorkerAssumption DEF Task
<1> QED
  BY <1>1, <1>2 DEF ToPoll

\* Only w's own answers can change.
LEMMA LiveFrame ==
    ASSUME TInv, NEW w \in Worker, Step(w), NEW i \in Task, NEW p \in Live(i)'
    PROVE  /\ p[1] # w => p \in Live(i)
           /\ p[1] = w /\ p[2] = 0 => p = <<w, 0>> /\ Pending(w, i)'
           /\ p[1] = w /\ p[2] # 0 /\ outbox'[w] = outbox[w] => p \in Live(i)
           /\ p[1] = w /\ p[2] = 0 /\ Pending(w, i) => p \in Live(i)
<1>1. p \in Worker \X Nat /\ p = <<p[1], p[2]>>
  BY DEF Live
<1>2. ASSUME NEW v \in Worker, v # w
      PROVE  /\ Pending(v, i)' = Pending(v, i)
             /\ outbox'[v] = outbox[v]
  BY <1>2, StepFrame DEF Pending, TInv
<1>3. \/ p[2] = 0 /\ Pending(p[1], i)'
      \/ p[2] \in 1..Len(outbox'[p[1]]) /\ outbox'[p[1]][p[2]].task = i
  BY DEF Live, Pending
<1>4. p[1] \in Worker /\ p[2] \in Nat /\ (p[2] # 0 \/ ~(p[2] \in 1..Len(outbox'[p[1]])))
  BY <1>1
<1>5. p[1] # w => p \in Live(i)
  <2>1. p[1] # w => (Pending(p[1], i)' = Pending(p[1], i) /\ outbox'[p[1]] = outbox[p[1]])
    BY <1>2, <1>4
  <2> QED
    BY <1>1, <1>3, <2>1 DEF Live
<1>6. p[1] = w /\ p[2] = 0 => p = <<w, 0>> /\ Pending(w, i)'
  BY <1>1, <1>3, <1>4
<1>7. p[1] = w /\ p[2] # 0 /\ outbox'[w] = outbox[w] => p \in Live(i)
  BY <1>1, <1>3 DEF Live
<1>8. p[1] = w /\ p[2] = 0 /\ Pending(w, i) => p \in Live(i)
  BY <1>1 DEF Live
<1> QED
  BY <1>5, <1>6, <1>7, <1>8

\* The answers that were given.
Given(i) == results[i] + dlq[i]

\* A step that gives no answer, and queues none.
LEMMA QuietStep ==
    ASSUME TInv, CountInv, NEW w \in Worker, Step(w), NEW i \in Task,
           UNCHANGED <<results, dlq>>,
           \A p \in Live(i)' : p[1] = w /\ p[2] = 0 => Pending(w, i),
           outbox' = outbox \/ outbox'[w] = <<>>,
           \/ ~Evict(w) /\ ~Shutdown(w) /\ ~Crash(w)
           \/ faults' = faults + 1
    PROVE  /\ IsFiniteSet(Live(i)')
           /\ Given(i)' + Cardinality(Live(i)') + ToPoll(i)' <= 1 + faults'
<1>1. /\ IsFiniteSet(Live(i))
      /\ results[i] + dlq[i] + Cardinality(Live(i)) + ToPoll(i) <= 1 + faults
  BY DEF CountInv
<1>2. Live(i)' \subseteq Live(i)
  <2> SUFFICES ASSUME NEW p \in Live(i)'
               PROVE  p \in Live(i)
    OBVIOUS
  <2>1. CASE p[1] = w /\ p[2] # 0
    <3>1. p[2] \in 1..Len(outbox'[w])
      BY <2>1 DEF Live
    <3>2. outbox'[w] # <<>>
      BY <3>1
    <3> QED
      BY <2>1, <3>2, LiveFrame
  <2> QED
    BY <2>1, LiveFrame
<1>3. /\ IsFiniteSet(Live(i)') /\ Cardinality(Live(i)') <= Cardinality(Live(i))
      /\ Cardinality(Live(i)) \in Nat /\ Cardinality(Live(i)') \in Nat
  <2>1. IsFiniteSet(Live(i)') /\ Cardinality(Live(i)') <= Cardinality(Live(i))
    BY <1>1, <1>2, FS_Subset
  <2> QED
    BY <1>1, <2>1, FS_CardinalityType
<1>4. /\ results[i] \in Nat /\ dlq[i] \in Nat
      /\ Given(i)' = results[i] + dlq[i]
  BY DEF TInv, TypeOK, Given
<1>5. faults \in Nat /\ (faults' = faults \/ faults' = faults + 1)
  <2>1. faults \in 0..MaxFaults
    BY DEF TInv, TypeOK
  <2>2. faults' = faults \/ faults' = faults + 1
    BY StepEffect DEF TInv
  <2> QED
    BY <2>1, <2>2
<1>6. /\ ToPoll(i) \in {0, 1} /\ ToPoll(i)' \in {0, 1}
      /\ ToPoll(i)' <= ToPoll(i) \/ faults' = faults + 1
  BY ToPollMoves
<1>7. ToPoll(i)' <= ToPoll(i) + (faults' - faults)
  BY <1>5, <1>6
<1> HIDE DEF ToPoll
<1> QED
  BY <1>1, <1>3, <1>4, <1>5, <1>6, <1>7

\* The numbers of the count.
LEMMA CountTypes ==
    ASSUME TInv, CountInv, NEW w \in Worker, Step(w), NEW i \in Task
    PROVE  /\ IsFiniteSet(Live(i)) /\ Cardinality(Live(i)) \in Nat
           /\ Given(i) + Cardinality(Live(i)) + ToPoll(i) <= 1 + faults
           /\ Given(i) \in Nat /\ Given(i)' \in Nat
           /\ UNCHANGED <<results, dlq>> => Given(i)' = Given(i)
           /\ ToPoll(i) \in {0, 1} /\ ToPoll(i)' \in {0, 1}
           /\ faults \in Nat /\ (faults' = faults \/ faults' = faults + 1)
<1>1. /\ IsFiniteSet(Live(i))
      /\ Given(i) + Cardinality(Live(i)) + ToPoll(i) <= 1 + faults
  BY DEF CountInv, Given
<1>2. Cardinality(Live(i)) \in Nat
  BY <1>1, FS_CardinalityType
<1>3. results[i] \in Nat /\ dlq[i] \in Nat /\ results'[i] \in Nat /\ dlq'[i] \in Nat
  BY StepType DEF TInv, TypeOK
<1>4. Given(i) \in Nat /\ Given(i)' \in Nat
  BY <1>3 DEF Given
<1>5. UNCHANGED <<results, dlq>> => Given(i)' = Given(i)
  BY DEF Given
<1>6. faults \in Nat /\ (faults' = faults \/ faults' = faults + 1)
  <2>1. faults \in 0..MaxFaults
    BY DEF TInv, TypeOK
  <2>2. faults' = faults \/ faults' = faults + 1
    BY StepEffect DEF TInv
  <2> QED
    BY <2>1, <2>2
<1>7. ToPoll(i) \in {0, 1} /\ ToPoll(i)' \in {0, 1}
  BY ToPollMoves
<1> QED
  BY <1>1, <1>2, <1>4, <1>5, <1>6, <1>7

\* The first poll of a task uses up the one that was to come.
LEMMA PollCounts ==
    ASSUME TInv, CountInv, NEW w \in Worker, Poll(w), NEW i \in Task
    PROVE  /\ IsFiniteSet(Live(i)')
           /\ Given(i)' + Cardinality(Live(i)') + ToPoll(i)' <= 1 + faults'
<1>1. Step(w)
  BY DEF Step, Run
<1>2. /\ UNCHANGED <<results, dlq, faults>> /\ outbox' = outbox
      /\ pc[w] = "poll" /\ pc' = [pc EXCEPT ![w] = "process"]
  BY DEF Poll, Goto, topicVars
<1>3. ~Evict(w) /\ ~Shutdown(w) /\ ~Crash(w)
  <2>1. pc'[w] = "process"
    BY <1>2 DEF TInv, TypeOK
  <2> QED
    BY <1>2, <2>1 DEF Evict, Shutdown, Crash, Exit, Goto, TInv, TypeOK
<1>4. CASE pos'[w] = i
  <2>1. ToPoll(i) = 1 /\ ToPoll(i)' = 0
    BY <1>1, <1>4, ToPollMoves
  <2>2. Live(i)' \subseteq Live(i) \cup {<<w, 0>>}
    BY <1>1, <1>2, LiveFrame
  <2>3. IsFiniteSet(Live(i)') /\ Cardinality(Live(i)') <= Cardinality(Live(i)) + 1
    BY <1>1, <2>2, CountTypes, Cards
  <2>4. Cardinality(Live(i)') \in Nat
    BY <2>3, FS_CardinalityType
  <2> QED
    BY <1>1, <1>2, <2>1, <2>3, <2>4, CountTypes
<1>5. CASE pos'[w] # i
  <2>1. ~Pending(w, i)'
    BY <1>5 DEF Pending
  <2> QED
    BY <1>1, <1>2, <1>3, <2>1, LiveFrame, QuietStep
<1> QED
  BY <1>4, <1>5

\* A message that is queued is the one its worker was going to queue.
LEMMA EnqueueCounts ==
    ASSUME TInv, CountInv, NEW w \in Worker, Step(w), NEW i \in Task,
           NEW topic \in {"results", "dlq"}, Enqueue(w, topic),
           \/ Produce(w)
           \/ SendToDlq(w) /\ pc'[w] = "dlq_flush" /\ NoFault
    PROVE  /\ IsFiniteSet(Live(i)')
           /\ Given(i)' + Cardinality(Live(i)') + ToPoll(i)' <= 1 + faults'
<1>1. /\ pc \in [Worker -> Pc] /\ outbox \in [Worker -> Seq(Message)]
      /\ delivery_failed \in [Worker -> BOOLEAN]
  BY DEF TInv, TypeOK
<1>2. /\ UNCHANGED <<results, dlq, faults, pos, delivery_failed>>
      /\ pc[w] \in {"produce", "dlq"}
  BY DEF Produce, SendToDlq, Goto, NoFault, topicVars
<1>3. pc'[w] = "dlq_flush" \/ (pc[w] = "produce" /\ pc'[w] = "flush")
  BY <1>1 DEF Produce, Goto
<1>4. pos[w] \in Task
  BY <1>2 DEF TInv, PlaceInv, Busy
<1> DEFINE m == [topic |-> topic, task |-> pos[w]]
           n == Len(outbox[w])
<1>5. /\ outbox[w] \in Seq(Message) /\ m \in Message
      /\ outbox'[w] = Append(outbox[w], m)
  BY <1>1, <1>4 DEF Enqueue, Message
<1>6. /\ n \in Nat /\ Len(outbox'[w]) = n + 1
      /\ \A k \in 1..n : outbox'[w][k] = outbox[w][k]
      /\ outbox'[w][n + 1].task = pos[w]
  <2> HIDE DEF m
  <2>1. /\ n \in Nat /\ Len(outbox'[w]) = n + 1
        /\ \A k \in 1..n : outbox'[w][k] = outbox[w][k]
        /\ outbox'[w][n + 1] = m
    BY <1>5, AppendProperties, LenProperties
  <2> QED
    BY <2>1 DEF m
<1>7. ~Pending(w, i)'
  <2>1. pc[w] = "produce" => ~delivery_failed'[w]
    BY <1>2 DEF CountInv
  <2> QED
    BY <1>3, <2>1 DEF Pending
<1>8. ASSUME NEW p \in Live(i)', p \notin Live(i)
      PROVE  p = <<w, n + 1>> /\ pos[w] = i
  <2>1. p[1] = w /\ p[2] # 0
    BY <1>7, <1>8, LiveFrame
  <2>2. p = <<p[1], p[2]>> /\ p[2] \in 1..(n + 1) /\ outbox'[w][p[2]].task = i
    BY <1>6, <2>1 DEF Live
  <2>3. p[2] = n + 1 \/ p[2] \in 1..n
    BY <1>6, <2>2
  <2>4. ASSUME p[2] \in 1..n
        PROVE  FALSE
    <3>1. outbox[w][p[2]].task = i
      BY <1>6, <2>2, <2>4
    <3>2. p \in Worker \X Nat
      BY DEF Live
    <3> QED
      BY <1>8, <2>1, <2>4, <3>1, <3>2 DEF Live
  <2>5. p[2] = n + 1
    BY <2>3, <2>4
  <2> QED
    BY <1>6, <2>1, <2>2, <2>5
<1>9. ToPoll(i)' <= ToPoll(i)
  <2>1. ~Evict(w) /\ ~Shutdown(w) /\ ~Crash(w)
    <3>1. faults \in Nat
      BY CountTypes
    <3> QED
      BY <1>2, <3>1 DEF Evict, Shutdown, Crash, Fault
  <2> QED
    BY <2>1, ToPollMoves
<1>10. IsFiniteSet(Live(i)') /\ Cardinality(Live(i)') <= Cardinality(Live(i))
  <2>1. CASE pos[w] = i
    <3>1. <<w, 0>> \in Live(i) /\ <<w, 0>> \notin Live(i)'
      <4>1. Pending(w, i)
        BY <1>2, <2>1 DEF Pending
      <4>2. <<w, 0>> \in Live(i)
        BY <4>1 DEF Live
      <4> QED
        BY <1>7, <4>2, LiveFrame
    <3>2. Live(i)' \subseteq (Live(i) \ {<<w, 0>>}) \cup {<<w, n + 1>>}
      BY <1>8, <3>1
    <3> QED
      BY <3>1, <3>2, CountTypes, Exchange
  <2>2. CASE pos[w] # i
    <3>1. Live(i)' \subseteq Live(i)
      BY <1>8, <2>2
    <3> QED
      BY <3>1, CountTypes, FS_Subset
  <2> QED
    BY <2>1, <2>2
<1>11. Cardinality(Live(i)') \in Nat
  BY <1>10, FS_CardinalityType
<1> QED
  BY <1>2, <1>9, <1>10, <1>11, CountTypes

\* A flush that times out costs a failure, and so does a refused message.
LEMMA FailureCounts ==
    ASSUME TInv, CountInv, NEW w \in Worker, Step(w), NEW i \in Task,
           UNCHANGED <<results, dlq>>, faults' = faults + 1,
           ToPoll(i)' <= ToPoll(i),
           NEW T, IsFiniteSet(T), Cardinality(T) <= Cardinality(Live(i)),
           Live(i)' \subseteq T \cup {<<w, 0>>}
    PROVE  /\ IsFiniteSet(Live(i)')
           /\ Given(i)' + Cardinality(Live(i)') + ToPoll(i)' <= 1 + faults'
<1>1. IsFiniteSet(Live(i)') /\ Cardinality(Live(i)') <= Cardinality(T) + 1
  BY Cards
<1>2. Cardinality(Live(i)') \in Nat /\ Cardinality(T) \in Nat
  BY <1>1, FS_CardinalityType
<1> QED
  BY <1>1, <1>2, CountTypes

\* The queue of w moves up by one message.
LEMMA QueueCounts ==
    ASSUME TInv, CountInv, NEW w \in Worker, Deliver(w) \/ DeliveryFails(w),
           NEW i \in Task
    PROVE  /\ IsFiniteSet(Live(i)')
           /\ Given(i)' + Cardinality(Live(i)') + ToPoll(i)' <= 1 + faults'
<1>1. Step(w)
  BY DEF Step
<1>2. /\ outbox[w] # <<>> /\ outbox' = [outbox EXCEPT ![w] = Tail(@)]
      /\ UNCHANGED <<pc, pos, owner, committed>>
  BY DEF Deliver, DeliveryFails
<1>3. ToPoll(i)' = ToPoll(i)
  BY <1>2 DEF ToPoll, From
<1> DEFINE T == {p \in Live(i)' : p[2] # 0 \/ p \in Live(i)}
<1>4. /\ IsFiniteSet(T)
      /\ Cardinality(T) <= Cardinality(Live(i))
      /\ Head(outbox[w]).task = i => Cardinality(T) + 1 <= Cardinality(Live(i))
  BY <1>1, <1>2, CountTypes, TailCards
<1>5. CASE Deliver(w)
  <2>1. delivery_failed' = delivery_failed /\ faults' = faults
    BY <1>5 DEF Deliver
  <2>2. Pending(w, i)' = Pending(w, i)
    BY <1>2, <2>1 DEF Pending
  <2>3. Live(i)' = T
    BY <1>1, <2>2, LiveFrame
  <2>4. Cardinality(T) \in Nat
    BY <1>4, FS_CardinalityType
  <2> HIDE DEF T
  <2>5. Given(i)' = IF Head(outbox[w]).task = i THEN Given(i) + 1 ELSE Given(i)
    <3>1. results \in [Task -> Nat] /\ dlq \in [Task -> Nat]
          /\ outbox \in [Worker -> Seq(Message)]
      BY DEF TInv, TypeOK
    <3>2. Head(outbox[w]) \in Message
      BY <1>2, <3>1
    <3>3. Head(outbox[w]).task \in Task
      BY <3>2 DEF Message
    <3> DEFINE j == Head(outbox[w]).task
    <3>4. \/ results' = [results EXCEPT ![j] = @ + 1] /\ dlq' = dlq
          \/ dlq' = [dlq EXCEPT ![j] = @ + 1] /\ results' = results
      BY <1>5 DEF Deliver
    <3>5. j \in Task
      BY <3>3
    <3> HIDE DEF j
    <3>6. results'[i] + dlq'[i] =
             IF j = i THEN results[i] + dlq[i] + 1 ELSE results[i] + dlq[i]
      <4>1. results[i] \in Nat /\ dlq[i] \in Nat
        BY <3>1
      <4>2. \/ /\ results'[i] = IF j = i THEN results[i] + 1 ELSE results[i]
               /\ dlq'[i] = dlq[i]
            \/ /\ dlq'[i] = IF j = i THEN dlq[i] + 1 ELSE dlq[i]
               /\ results'[i] = results[i]
        BY <3>1, <3>4, <3>5
      <4> QED
        BY <4>1, <4>2
    <3> QED
      BY <3>6 DEF Given, j
  <2> QED
    BY <1>1, <1>3, <1>4, <2>1, <2>3, <2>4, <2>5, CountTypes
<1>6. CASE DeliveryFails(w)
  <2>1. UNCHANGED <<results, dlq>> /\ faults' = faults + 1
    BY <1>6 DEF DeliveryFails, Fault
  <2>2. Live(i)' \subseteq T \cup {<<w, 0>>}
    BY <1>1, LiveFrame
  <2>3. ToPoll(i)' <= ToPoll(i)
    BY <1>1, <1>3, CountTypes
  <2> HIDE DEF T
  <2> QED
    BY <1>1, <1>4, <2>1, <2>2, <2>3, FailureCounts
<1> QED
  BY <1>5, <1>6

\* publish_result() answers.
LEMMA FlushCounts ==
    ASSUME TInv, CountInv, NEW w \in Worker, Flush(w), NEW i \in Task
    PROVE  /\ IsFiniteSet(Live(i)')
           /\ Given(i)' + Cardinality(Live(i)') + ToPoll(i)' <= 1 + faults'
<1>1. Step(w)
  BY DEF Step, Run
<1>2. /\ UNCHANGED <<results, dlq, owner, committed, pos, outbox, delivery_failed>>
      /\ pc[w] = "flush"
      /\ pc' = [pc EXCEPT ![w] = IF Published(w) THEN "commit" ELSE "dlq"]
      /\ outbox[w] = <<>> \/ faults' = faults + 1
  BY DEF Flush, Goto, topicVars, Fault
<1>3. ~Evict(w) /\ ~Shutdown(w) /\ ~Crash(w)
  <2>1. pc'[w] = "dlq" \/ pc'[w] = "commit"
    BY <1>2 DEF TInv, TypeOK
  <2> QED
    BY <1>2, <2>1 DEF Evict, Shutdown, Crash, Exit, Goto, TInv, TypeOK
<1>4. CASE delivery_failed[w] \/ outbox[w] = <<>>
  <2>1. Pending(w, i)' => Pending(w, i)
    <3>1. pc'[w] = IF Published(w) THEN "commit" ELSE "dlq"
      BY <1>2 DEF TInv, TypeOK
    <3> QED
      BY <1>2, <1>4, <3>1 DEF Pending, Published
  <2> QED
    BY <1>1, <1>2, <1>3, <2>1, LiveFrame, QuietStep
<1>5. CASE outbox[w] # <<>>
  <2>1. Live(i)' \subseteq Live(i) \cup {<<w, 0>>}
    BY <1>1, <1>2, LiveFrame
  <2>2. Cardinality(Live(i)) <= Cardinality(Live(i))
    BY <1>1, CountTypes
  <2>3. ToPoll(i)' <= ToPoll(i)
    BY <1>1, <1>3, ToPollMoves
  <2> QED
    BY <1>1, <1>2, <1>5, <2>1, <2>2, <2>3, CountTypes, FailureCounts
<1> QED
  BY <1>4, <1>5

LEMMA CountInductive ==
    ASSUME TInv, CountInv, NEW w \in Worker, Step(w)
    PROVE  CountInv'
<1>1. ASSUME NEW v \in Worker, delivery_failed'[v]
      PROVE  pc'[v] \notin {"process", "produce"}
  <2>1. CASE v = w
    <3>1. /\ pc \in [Worker -> Pc] /\ delivery_failed \in [Worker -> BOOLEAN]
          /\ delivery_failed[w] => pc[w] \notin {"process", "produce"}
      BY DEF TInv, TypeOK, CountInv
    <3>2. CASE DeliveryFails(w)
      BY <1>1, <2>1, <3>1, <3>2 DEF DeliveryFails
    <3>3. CASE ~DeliveryFails(w)
      <4>1. delivery_failed'[w] = delivery_failed[w] \/ ~delivery_failed'[w]
        BY <3>1, <3>3 DEF Step, Run, Start, Poll, ProcessSucceeds,
           ProcessFails, UnknownOperation, Produce, Flush, SendToDlq, DlqFlush,
           Commit, Cleanup, Deliver, ProduceFails, Evict, Shutdown, Crash, Exit
      <4>2. ~Poll(w) /\ pc[w] \notin {"process", "produce"}
        BY <1>1, <2>1, <3>1, <4>1 DEF Poll
      <4>3. pc'[w] \notin {"process", "produce"}
        BY <3>1, <3>3, <4>2 DEF Step, Run, Start, ProcessSucceeds,
           ProcessFails, UnknownOperation, Produce, Flush, SendToDlq, DlqFlush,
           Commit, Cleanup, Deliver, ProduceFails, Evict, Shutdown, Crash,
           Exit, Goto
      <4> QED
        BY <2>1, <4>3
    <3> QED
      BY <3>2, <3>3
  <2>2. CASE v # w
    BY <1>1, <2>2, StepFrame DEF TInv, CountInv
  <2> QED
    BY <2>1, <2>2
<1>2. ASSUME NEW i \in Task
      PROVE  /\ IsFiniteSet(Live(i)')
             /\ Given(i)' + Cardinality(Live(i)') + ToPoll(i)' <= 1 + faults'
  <2>1. CASE Poll(w)
    BY <2>1, PollCounts
  <2>2. CASE Deliver(w) \/ DeliveryFails(w)
    BY <2>2, QueueCounts
  <2>3. CASE Flush(w)
    BY <2>3, FlushCounts
  <2>4. CASE Produce(w)
    BY <2>4, EnqueueCounts DEF Produce
  <2>5. CASE SendToDlq(w)
    <3>1. CASE Enqueue(w, "dlq") /\ NoFault /\ Goto(w, "dlq", "dlq_flush")
      <4>1. pc'[w] = "dlq_flush"
        BY <3>1 DEF Goto, TInv, TypeOK
      <4> QED
        BY <2>5, <3>1, <4>1, EnqueueCounts
    <3>2. CASE UNCHANGED outbox /\ Goto(w, "dlq", "commit") /\ Fault("dlq")
      <4>1. pc'[w] = "commit" /\ faults' = faults + 1
        BY <3>2 DEF Goto, TInv, TypeOK, Fault
      <4>2. ~Pending(w, i)'
        BY <4>1 DEF Pending
      <4>3. UNCHANGED <<results, dlq>>
        BY <2>5 DEF SendToDlq
      <4> QED
        BY <3>2, <4>1, <4>2, <4>3, LiveFrame, QuietStep
    <3> QED
      BY <2>5, <3>1, <3>2 DEF SendToDlq
  <2>6. CASE ~Poll(w) /\ ~Deliver(w) /\ ~DeliveryFails(w) /\ ~Flush(w)
             /\ ~Produce(w) /\ ~SendToDlq(w)
    <3>1. UNCHANGED <<results, dlq>>
      BY <2>6, OutboxEffect
    <3>2. outbox' = outbox \/ outbox'[w] = <<>>
      <4>1. outbox' = outbox \/ outbox' = [outbox EXCEPT ![w] = <<>>]
        BY <2>6, OutboxEffect
      <4> QED
        BY <4>1 DEF TInv, TypeOK
    <3>3. (~Evict(w) /\ ~Shutdown(w) /\ ~Crash(w)) \/ faults' = faults + 1
      BY DEF Evict, Shutdown, Crash, Fault
    <3>4. Pending(w, i)' => Pending(w, i)
      <4>1. pos' = pos
        BY <2>6 DEF Step, Run, Start, ProcessSucceeds, ProcessFails,
           UnknownOperation, DlqFlush, Commit, Cleanup, ProduceFails, Evict,
           Shutdown, Crash, Exit
      <4>2. delivery_failed' = delivery_failed
        BY <2>6 DEF Step, Run, Start, ProcessSucceeds, ProcessFails,
           UnknownOperation, DlqFlush, Commit, Cleanup, ProduceFails, Evict,
           Shutdown, Crash, Exit
      <4>3. pc'[w] = pc[w] \/ pc'[w] \notin {"process", "produce", "dlq", "flush"}
            \/ pc[w] \in {"process", "produce", "dlq"}
        <5>1. pc \in [Worker -> Pc]
          BY DEF TInv, TypeOK
        <5> QED
          BY <2>6, <5>1 DEF Step, Run, Start, ProcessSucceeds, ProcessFails,
             UnknownOperation, DlqFlush, Commit, Cleanup, ProduceFails, Evict,
             Shutdown, Crash, Exit, Goto
      <4> QED
        BY <4>1, <4>2, <4>3 DEF Pending
    <3> QED
      BY <3>1, <3>2, <3>3, <3>4, LiveFrame, QuietStep
  <2> QED
    BY <2>1, <2>2, <2>3, <2>4, <2>5, <2>6
<1> QED
  BY <1>1, <1>2 DEF CountInv, Given

\* A task is answered once more than there were failures at the most, whatever
\* crashes, evictions, refused commits, refused deliveries and flushes that
\* time out happen: its result is not repeated, and not parked as well, without
\* a reason (worker/main.py:256-264, 384-421).
THEOREM AnswersTheorem == Spec => []AnswersBounded
<1>1. Init => CountInv
  <2> SUFFICES ASSUME Init
               PROVE  CountInv
    OBVIOUS
  <2>1. ASSUME NEW i \in Task
        PROVE  /\ IsFiniteSet(Live(i))
               /\ results[i] + dlq[i] + Cardinality(Live(i)) + ToPoll(i) <= 1 + faults
    <3>1. \A w \in Worker : pc[w] = "stopped" /\ outbox[w] = <<>>
      BY DEF Init
    <3>2. Live(i) = {}
      <4> SUFFICES ASSUME NEW p \in Live(i)
                   PROVE  FALSE
        OBVIOUS
      <4>1. /\ p[1] \in Worker
            /\ Pending(p[1], i) \/ p[2] \in 1..Len(outbox[p[1]])
        BY DEF Live
      <4>2. pc[p[1]] = "stopped" /\ outbox[p[1]] = <<>>
        BY <3>1, <4>1
      <4>3. ~Pending(p[1], i)
        BY <4>2 DEF Pending
      <4>4. p[2] \in 1..Len(<<>>)
        BY <4>1, <4>2, <4>3
      <4> QED
        BY <4>4
    <3>3. IsFiniteSet(Live(i)) /\ Cardinality(Live(i)) = 0
      BY <3>2, FS_EmptySet
    <3>4. results[i] = 0 /\ dlq[i] = 0 /\ faults = 0
      BY DEF Init
    <3> QED
      BY <3>3, <3>4 DEF ToPoll
  <2> QED
    BY <2>1 DEF CountInv, Init
<1>2. TInv /\ CountInv /\ [Next]_vars => TInv' /\ CountInv'
  <2>1. ASSUME CountInv, UNCHANGED vars
        PROVE  CountInv'
    BY <2>1 DEF CountInv, Live, Pending, ToPoll, From, vars, topicVars
  <2> QED
    BY <2>1, TypeInductive, CountInductive DEF Next, Step
<1>3. TInv /\ CountInv => AnswersBounded
  <2> SUFFICES ASSUME TInv, CountInv, NEW i \in Task
               PROVE  results[i] + dlq[i] <= 1 + faults
    BY DEF AnswersBounded
  <2>1. IsFiniteSet(Live(i)) /\ Cardinality(Live(i)) \in Nat
    BY FS_CardinalityType DEF CountInv
  <2>2. results[i] \in Nat /\ dlq[i] \in Nat /\ faults \in Nat
    <3>1. faults \in 0..MaxFaults
      BY DEF TInv, TypeOK
    <3> QED
      BY <3>1 DEF TInv, TypeOK
  <2>3. ToPoll(i) \in {0, 1}
    BY DEF ToPoll
  <2>4. results[i] + dlq[i] + Cardinality(Live(i)) + ToPoll(i) <= 1 + faults
    BY DEF CountInv
  <2> QED
    BY <2>1, <2>2, <2>3, <2>4
<1> QED
  BY <1>1, <1>2, <1>3, InitType, PTL DEF Spec
=============================================================================
