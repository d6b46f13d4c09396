------------------------------- MODULE SemBarrier -------------------------------
(* pthreads-1/barrier_semaphores.c: a barrier of two semaphores and a counter,   *)
(* passed once.  The last thread to arrive posts barrier_sem once for every      *)
(* other thread.                                                                 *)
EXTENDS RankSet

VARIABLES
    count_sem, barrier_sem,     \* the values of the semaphores
    counter,
    pc, j                       \* where each thread is, and its loop variable

vars == <<count_sem, barrier_sem, counter, pc, j>>

(* start: line 34; test: has count_sem; posting: in the loop of line 40; wait:   *)
(* line 49; reached: past the barrier.                                           *)
Locations == {"start", "test", "posting", "wait", "reached"}

TypeOK ==
    /\ count_sem \in {0, 1}
    /\ barrier_sem \in 0 .. thread_count - 1
    /\ counter \in 0 .. thread_count - 1
    /\ pc \in [Ranks -> Locations]
    /\ j \in [Ranks -> 0 .. thread_count - 1]

Init ==
    /\ count_sem = 1
    /\ barrier_sem = 0
    /\ counter = 0
    /\ pc = [r \in Ranks |-> "start"]
    /\ j = [r \in Ranks |-> 0]

Goto(r, from, to) == pc[r] = from /\ pc' = [pc EXCEPT ![r] = to]

WaitCount(r) ==
    /\ Goto(r, "start", "test")
    /\ count_sem > 0
    /\ count_sem' = count_sem - 1
    /\ UNCHANGED <<barrier_sem, counter, j>>

(* A slip, and then the test of line 36.  Operators named for a slip are not     *)
(* part of the model: each is what a plausible mistake would make of the         *)
(* operator after it, and the README says which property notices.                *)
IsLastButOne == counter = thread_count - 2

IsLast == counter = thread_count - 1

ArriveLast(r) ==
    /\ Goto(r, "test", "posting")
    /\ IsLast
    /\ count_sem' = count_sem + 1
    /\ UNCHANGED <<barrier_sem, counter, j>>

ArriveNotLast(r) ==
    /\ Goto(r, "test", "wait")
    /\ ~IsLast
    /\ counter' = counter + 1
    /\ count_sem' = count_sem + 1
    /\ UNCHANGED <<barrier_sem, j>>

OneForAll(r) == j[r] < thread_count

OneForEachOther(r) == j[r] < thread_count - 1

Post(r) ==
    /\ pc[r] = "posting"
    /\ OneForEachOther(r)
    /\ barrier_sem' = barrier_sem + 1
    /\ j' = [j EXCEPT ![r] = @ + 1]
    /\ UNCHANGED <<count_sem, counter, pc>>

PostedAll(r) ==
    /\ Goto(r, "posting", "reached")
    /\ ~OneForEachOther(r)
    /\ UNCHANGED <<count_sem, barrier_sem, counter, j>>

WaitBarrier(r) ==
    /\ Goto(r, "wait", "reached")
    /\ barrier_sem > 0
    /\ barrier_sem' = barrier_sem - 1
    /\ UNCHANGED <<count_sem, counter, j>>

ThreadStep(r) ==
    \/ WaitCount(r) \/ ArriveLast(r) \/ ArriveNotLast(r)
    \/ Post(r) \/ PostedAll(r) \/ WaitBarrier(r)

AllDone == \A r \in Ranks : pc[r] = "reached"

Joined == AllDone /\ UNCHANGED vars

Next == (\E r \in Ranks : ThreadStep(r)) \/ Joined

Spec == Init /\ [][Next]_vars

(* The barrier implements the abstract one, passed once: a thread arrives when   *)
(* it gives count_sem back and has passed when it goes on to its printf, and no  *)
(* thread gets there before all have arrived (lines 34-50).                      *)
Abstract == INSTANCE Barrier WITH
    Threads <- Ranks,
    Rounds <- 1,
    arrived <- [r \in Ranks |-> IF pc[r] \in {"start", "test"} THEN 0 ELSE 1],
    passed <- [r \in Ranks |-> IF pc[r] = "reached" THEN 1 ELSE 0]

ImplementsBarrier == Abstract!BarrierSpec
================================================================================
