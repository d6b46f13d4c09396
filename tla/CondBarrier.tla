------------------------------- MODULE CondBarrier ------------------------------
(* The two barriers made of a mutex and a condition variable:                    *)
(*   "Assignment 03/pth_cond_bar.c"          reusable, passed BARRIER_COUNT      *)
(*                                           times; the last to arrive resets    *)
(*                                           the counter                         *)
(*   pthreads-1/barrier_condition_variables.c   passed once, counter not reset   *)
(* The condition variable is the set of the threads asleep on it, as in RWLock.  *)
(* Here a thread leaves it by a broadcast only; CondBarrierSpurious adds the     *)
(* returns without a broadcast that POSIX allows.                                *)
EXTENDS Naturals, FiniteSets

CONSTANTS
    Threads,        \* thread_count of them
    NoThread,       \* the owner of a mutex that is free
    BarrierCount    \* BARRIER_COUNT: 100 in pth_cond_bar.c

ASSUME BarrierThreadsAssumption ==
    IsFiniteSet(Threads) /\ Threads # {} /\ NoThread \notin Threads
ASSUME BarrierBoundsAssumption ==
    BarrierCount \in Nat \ {0}

VARIABLES
    reusable,               \* which of the two programs runs
    barrier_mutex,
    barrier_thread_count,
    ok_to_proceed,          \* the threads asleep on the condition variable
    pc,                     \* where each thread is
    i                       \* each thread's loop variable: barriers it has left

vars == <<reusable, barrier_mutex, barrier_thread_count, ok_to_proceed, pc, i>>

(* top: at the loop; locked: has the mutex; wait: in pthread_cond_wait; out: has *)
(* the mutex again, past the wait or the broadcast.                              *)
Locations == {"top", "locked", "wait", "out"}

TypeOK ==
    /\ reusable \in BOOLEAN
    /\ barrier_mutex \in Threads \cup {NoThread}
    /\ barrier_thread_count \in 0 .. Cardinality(Threads)
    /\ ok_to_proceed \subseteq Threads
    /\ pc \in [Threads -> Locations]
    /\ i \in [Threads -> 0 .. BarrierCount]

--------------------------------------------------------------------------------

thread_count == Cardinality(Threads)

(* The single-use program has no loop. *)
Rounds == IF reusable THEN BarrierCount ELSE 1

Init ==
    /\ reusable \in BOOLEAN
    /\ barrier_mutex = NoThread
    /\ barrier_thread_count = 0
    /\ ok_to_proceed = {}
    /\ pc = [t \in Threads |-> "top"]
    /\ i = [t \in Threads |-> 0]

Goto(t, from, to) == pc[t] = from /\ pc' = [pc EXCEPT ![t] = to]

Lock(t) ==
    /\ i[t] < Rounds
    /\ Goto(t, "top", "locked")
    /\ barrier_mutex = NoThread
    /\ barrier_mutex' = t
    /\ UNCHANGED <<reusable, barrier_thread_count, ok_to_proceed, i>>

(* A slip, and then the test of line 101.  Operators named for a slip are not    *)
(* part of the model: each is what a plausible mistake would make of the         *)
(* operator after it, and the README says which property notices.                *)
IsLastButOne == barrier_thread_count + 2 = thread_count

IsLast == barrier_thread_count + 1 = thread_count

ArriveNotLast(t) ==
    /\ Goto(t, "locked", "wait")
    /\ ~IsLast
    /\ barrier_thread_count' = barrier_thread_count + 1
    /\ ok_to_proceed' = ok_to_proceed \cup {t}
    /\ barrier_mutex' = NoThread
    /\ UNCHANGED <<reusable, i>>

OpenForOneOnly(t) ==
    /\ Goto(t, "locked", "out")
    /\ IsLast
    /\ \E u \in ok_to_proceed : ok_to_proceed' = ok_to_proceed \ {u}
    /\ UNCHANGED <<reusable, barrier_mutex, i>>

(* Every sleeper is woken; the last thread goes on with the mutex. *)
OpenBarrier(t) ==
    /\ Goto(t, "locked", "out")
    /\ IsLast
    /\ ok_to_proceed' = {}
    /\ UNCHANGED <<reusable, barrier_mutex, i>>

CountGoesOn == barrier_thread_count' = barrier_thread_count + 1

ResetCount == barrier_thread_count' = 0

(* pth_cond_bar.c *)
ArriveLast(t) ==
    /\ reusable
    /\ OpenBarrier(t)
    /\ ResetCount

(* barrier_condition_variables.c: the counter stays where it is. *)
ArriveLastOnce(t) ==
    /\ ~reusable
    /\ OpenBarrier(t)
    /\ CountGoesOn

(* pthread_cond_wait returns, always with 0, and the while loop ends: the code   *)
(* has no condition to test again.                                               *)
WaitReturns(t) ==
    /\ t \notin ok_to_proceed
    /\ Goto(t, "wait", "out")
    /\ barrier_mutex = NoThread
    /\ barrier_mutex' = t
    /\ UNCHANGED <<reusable, barrier_thread_count, ok_to_proceed, i>>

Unlock(t) ==
    /\ Goto(t, "out", "top")
    /\ barrier_mutex' = NoThread
    /\ i' = [i EXCEPT ![t] = @ + 1]
    /\ UNCHANGED <<reusable, barrier_thread_count, ok_to_proceed>>

Done(t) == pc[t] = "top" /\ i[t] = Rounds

ThreadStep(t) ==
    \/ Lock(t) \/ ArriveNotLast(t) \/ ArriveLast(t) \/ ArriveLastOnce(t)
    \/ WaitReturns(t) \/ Unlock(t)

(* Every pthread_join has returned. *)
Joined == (\A t \in Threads : Done(t)) /\ UNCHANGED vars

Next ==
    \/ \E t \in Threads : ThreadStep(t)
    \/ Joined

Spec == Init /\ [][Next]_vars

(* Every thread that can run is run. *)
FairSpec == Spec /\ \A t \in Threads : WF_vars(ThreadStep(t))

--------------------------------------------------------------------------------
(* Properties *)

(* The barriers a thread has arrived at: those it left and the one it is in. *)
Arrived(t) == i[t] + (IF pc[t] \in {"wait", "out"} THEN 1 ELSE 0)

(* Nobody is past its i-th barrier while another has not arrived there, however *)
(* fast a thread comes back to the same mutex, counter and condition variable   *)
(* for the next one (pth_cond_bar.c:98-121).                                    *)
Separation == \A t, u \in Threads : i[t] <= Arrived(u)

(* A thread asleep is waiting for somebody: there is a thread that has not       *)
(* arrived at its barrier.  A reset that came late, or a wake-up taken by a      *)
(* thread of the next round, would leave it asleep for ever                      *)
(* (pth_cond_bar.c:101-108).                                                     *)
SleepersAwaitSomebody ==
    \A t \in ok_to_proceed : \E u \in Threads : Arrived(u) < Arrived(t)

Abstract == INSTANCE Barrier WITH
    Rounds <- BarrierCount,
    arrived <- [t \in Threads |-> Arrived(t)],
    passed <- i

(* Each barrier of the two programs implements the abstract one. *)
ImplementsBarrier == Abstract!BarrierSpec

(* Every thread gets through all its barriers. *)
Termination == <>(\A t \in Threads : Done(t))
================================================================================
