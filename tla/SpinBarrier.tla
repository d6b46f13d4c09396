------------------------------- MODULE SpinBarrier ------------------------------
(* pthreads-1/barrier_busy_waiting_mutex.c: threads count themselves under a     *)
(* mutex, spin on the counter without it, and then print one after the other: a  *)
(* thread spins until flag is its rank and hands flag on.                        *)
(* The reads of counter and flag in the spins are data races.  The program is    *)
(* built without optimisation: each is a load, which sees the value before or    *)
(* after a store.                                                                *)
EXTENDS RankSet

VARIABLES
    barrier_mutex, counter, flag,
    loaded,         \* what counter++ has read and not yet written back
    pc

vars == <<barrier_mutex, counter, flag, loaded, pc>>

(* start: line 34; counting: in counter++; spin: line 38; turn: line 43; active: *)
(* lines 45-46; done.                                                            *)
Locations == {"start", "counting", "spin", "turn", "active", "done"}

TypeOK ==
    /\ barrier_mutex \in Ranks \cup {NoRank}
    /\ counter \in 0 .. thread_count
    /\ flag \in Ranks
    /\ loaded \in [Ranks -> 0 .. thread_count]
    /\ pc \in [Ranks -> Locations]

Init ==
    /\ barrier_mutex = NoRank
    /\ counter = 0
    /\ flag = 0
    /\ loaded = [r \in Ranks |-> 0]
    /\ pc = [r \in Ranks |-> "start"]

Goto(r, from, to) == pc[r] = from /\ pc' = [pc EXCEPT ![r] = to]

(* A slip and the lock: operators named for a slip are not part of the model.    *)
CountUnlocked(r) == UNCHANGED barrier_mutex

CountLocked(r) == barrier_mutex = NoRank /\ barrier_mutex' = r

LoadCounter(r) ==
    /\ Goto(r, "start", "counting")
    /\ CountLocked(r)
    /\ loaded' = [loaded EXCEPT ![r] = counter]
    /\ UNCHANGED <<counter, flag>>

StoreCounter(r) ==
    /\ Goto(r, "counting", "spin")
    /\ counter' = loaded[r] + 1
    /\ barrier_mutex' = NoRank
    /\ UNCHANGED <<flag, loaded>>

AllCounted(r) ==
    /\ Goto(r, "spin", "turn")
    /\ counter >= thread_count
    /\ UNCHANGED <<barrier_mutex, counter, flag, loaded>>

ItsTurn(r) ==
    /\ Goto(r, "turn", "active")
    /\ flag = r
    /\ UNCHANGED <<barrier_mutex, counter, flag, loaded>>

NextRankPlusTwo == (flag + 2) % thread_count

NextRank == (flag + 1) % thread_count

HandOn(r) ==
    /\ Goto(r, "active", "done")
    /\ flag' = NextRank
    /\ UNCHANGED <<barrier_mutex, counter, loaded>>

ThreadStep(r) ==
    \/ LoadCounter(r) \/ StoreCounter(r) \/ AllCounted(r)
    \/ ItsTurn(r) \/ HandOn(r)

AllDone == \A r \in Ranks : pc[r] = "done"

Joined == AllDone /\ UNCHANGED vars

Next == (\E r \in Ranks : ThreadStep(r)) \/ Joined

Spec == Init /\ [][Next]_vars

(* The counter is a barrier passed once: nobody leaves the spin of line 38       *)
(* before everybody has stored its increment.                                    *)
Abstract == INSTANCE Barrier WITH
    Threads <- Ranks,
    Rounds <- 1,
    arrived <- [r \in Ranks |-> IF pc[r] \in {"start", "counting"} THEN 0 ELSE 1],
    passed <- [r \in Ranks |-> IF pc[r] \in {"turn", "active", "done"} THEN 1 ELSE 0]

ImplementsBarrier == Abstract!BarrierSpec

(* Threads are activated one at a time and in the order of their ranks, although *)
(* flag comes back to 0 at the end (lines 43-46).                                *)
ActivatedInTurn ==
    \A r, u \in Ranks :
        pc[r] = "active" => /\ u < r => pc[u] = "done"
                            /\ u > r => pc[u] \notin {"active", "done"}
================================================================================
