-------------------------------- MODULE Barrier --------------------------------
(* What a reusable barrier promises: nobody leaves its i-th barrier before       *)
(* everybody has arrived there.  pth_cond_bar_pthreads.c gets this from          *)
(* pthread_barrier_wait; CondBarrier.tla shows that the barriers built from a    *)
(* mutex and a condition variable keep the same promise.                         *)
EXTENDS Naturals

CONSTANTS Threads, Rounds       \* Rounds is BARRIER_COUNT

VARIABLES
    arrived,    \* how many barriers each thread has arrived at
    passed      \* how many it has left

barrierVars == <<arrived, passed>>

BarrierTypeOK ==
    /\ arrived \in [Threads -> 0 .. Rounds]
    /\ passed \in [Threads -> 0 .. Rounds]

BarrierInit ==
    /\ arrived = [t \in Threads |-> 0]
    /\ passed = [t \in Threads |-> 0]

Arrive(t) ==
    /\ arrived[t] = passed[t]
    /\ arrived[t] < Rounds
    /\ arrived' = [arrived EXCEPT ![t] = @ + 1]
    /\ UNCHANGED passed

Leave(t) ==
    /\ passed[t] < arrived[t]
    /\ \A u \in Threads : arrived[u] >= arrived[t]
    /\ passed' = [passed EXCEPT ![t] = @ + 1]
    /\ UNCHANGED arrived

BarrierNext == \E t \in Threads : Arrive(t) \/ Leave(t)

BarrierSpec == BarrierInit /\ [][BarrierNext]_barrierVars
================================================================================
