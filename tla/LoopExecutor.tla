---------------------------- MODULE LoopExecutor ----------------------------
(***************************************************************************)
(* What EventLoop promises to the threads that hand it functors through    *)
(* runInLoop and queueInLoop: the functors run one after the other, each   *)
(* once, in the order in which they were queued, and every one of them     *)
(* runs unless the loop stops first.  EventLoop.tla is shown to implement  *)
(* this specification.                                                     *)
(***************************************************************************)
EXTENDS Naturals, Sequences, Functions

CONSTANT Functor      \* the functor objects that can be queued, each once

VARIABLES
    posted,           \* every functor queued so far, in queueing order
    ran,              \* every functor whose call has begun, in call order
    open              \* the loop has not returned from loop()

vars == <<posted, ran, open>>

Init ==
    /\ posted = <<>>
    /\ ran = <<>>
    /\ open = TRUE

Post(f) ==
    /\ f \notin Range(posted)
    /\ posted' = Append(posted, f)
    /\ UNCHANGED <<ran, open>>

Run ==
    /\ open
    /\ Len(ran) < Len(posted)
    /\ ran' = Append(ran, posted[Len(ran) + 1])
    /\ UNCHANGED <<posted, open>>

Close ==
    /\ open
    /\ open' = FALSE
    /\ UNCHANGED <<posted, ran>>

Next == (\E f \in Functor : Post(f)) \/ Run \/ Close

SafeSpec == Init /\ [][Next]_vars

-----------------------------------------------------------------------------
TypeOK ==
    /\ posted \in Seq(Functor)
    /\ ran \in Seq(Functor)
    /\ open \in BOOLEAN

\* The calls made so far are exactly the functors queued first, in the order in
\* which the mutex of queueInLoop let them in.
RunInOrder ==
    /\ Len(ran) <= Len(posted)
    /\ \A i \in 1 .. Len(ran) : ran[i] = posted[i]

\* No functor object is called twice.
RunOnce == IsInjective(ran)

=============================================================================
