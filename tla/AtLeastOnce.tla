---------------------------- MODULE AtLeastOnce ----------------------------
(***************************************************************************)
(* What the consumers of a task topic promise to whoever produced it: a    *)
(* message is committed only after it was handled, and every message is    *)
(* handled.  Handling twice is allowed, and so is a committed offset that  *)
(* goes back.  Worker and InferenceWorker are shown to implement it.       *)
(***************************************************************************)
EXTENDS Naturals

CONSTANT LastMessage     \* the partition holds the messages 1 .. LastMessage

VARIABLES
    handled,      \* the messages whose outcome somebody else can see
    committed     \* the offset of the consumer group: 1 .. committed are done

Init ==
    /\ handled = {}
    /\ committed = 0

Handle ==
    /\ \E new \in SUBSET (1..LastMessage) : handled' = handled \cup new
    /\ UNCHANGED committed

Commit ==
    /\ committed' \in {n \in 0..LastMessage : 1..n \subseteq handled}
    /\ UNCHANGED handled

Next == Handle \/ Commit

Spec == Init /\ [][Next]_<<handled, committed>>

EventuallyHandled == \A i \in 1..LastMessage : <>(i \in handled)

FairSpec == Spec /\ EventuallyHandled
=============================================================================
