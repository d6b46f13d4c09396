----------------------------- MODULE ListOverRWLock ----------------------------
(* All of "Assignment 03/program_6_.c": the sorted list of ListWork with the     *)
(* lock of RWLock in the place of pthread_rwlock_t.  The list, the totals and    *)
(* main are those of pth_ll_rwl.c line by line (Insert 158, Member 179, Delete   *)
(* 186, Free_list 203, Thread_work 216, main 92), so their steps are taken from  *)
(* ListWork; a call of rwlock_rdlock, rwlock_wrlock or rwlock_unlock is the      *)
(* steps of RWLock.  ListWork's own lock is only a view of RWLock's state, and   *)
(* nothing here asks it for permission: that the list gets from the hand-written *)
(* lock what it gets from pthread_rwlock_t is the property, not an assumption.   *)
EXTENDS Integers, FiniteSets

CONSTANTS Threads, Main, NoThread, Keys, Addrs, NULL, TotalOps, InsertsInMain

ASSUME ProcsAssumption ==
    /\ IsFiniteSet(Threads) /\ Threads # {}
    /\ Main \notin Threads /\ NoThread \notin Threads /\ NULL \notin Addrs
ASSUME InputAssumption ==
    Keys \subseteq Int /\ TotalOps \in Nat /\ InsertsInMain \in Nat
ASSUME MemoryAssumption == IsFiniteSet(Addrs)

VARIABLES
    head, data, next, alloc, count_mutex, counts, pc, call, left, mine, loaded,
    inserted, attempts,                                             \* ListWork
    writer_preference, mutex, readers, writers, waiting_writers,
    readers_ok, writers_ok, lock_pc, ops, spurious                  \* RWLock

(* No spurious wake-ups here: that the lock behaves the same with them is        *)
(* ImplementsReadWriteLock of RWLock.                                            *)
R == INSTANCE RWLock WITH pc <- lock_pc, MaxSpurious <- 0,
                          OpsPerThread <- TotalOps \div Cardinality(Threads)

L == INSTANCE ListWork WITH reading <- R!ReadHolders, writing <- R!WriteHolders

listVars == <<head, data, next, alloc, count_mutex, counts, pc, call, left, mine,
              loaded, inserted, attempts>>
lockVars == <<writer_preference, mutex, readers, writers, waiting_writers,
              readers_ok, writers_ok, lock_pc, ops, spurious>>
vars == <<listVars, lockVars>>

(* rwlock_init comes after main's inserts (line 118), which take no lock; until  *)
(* then nobody looks at the lock, so that it may as well be initialised at once. *)
Init == R!Init /\ L!Init

(* A slip (no part of the model), and then which of its two entries into the     *)
(* lock an operation calls.                                                      *)
EntryDeleteReads(op) == IF op = "insert" THEN "wr_test" ELSE "rd_test"

Entry(op) == IF op = "member" THEN "rd_test" ELSE "wr_test"

(* The draws of one iteration, and rwlock_rdlock or rwlock_wrlock until it has   *)
(* the lock's mutex.  Both modules count the iterations.                         *)
BeginOp(t) ==
    /\ R!RdLock(t) \/ R!WrLock(t)
    /\ L!PickOp(t)
    /\ lock_pc'[t] = Entry(call'[t].op)

WaitForLock(t) ==
    /\ R!RdWait(t) \/ R!RdWake(t) \/ R!WrWait(t) \/ R!WrWake(t)
    /\ UNCHANGED listVars

(* rwlock_rdlock or rwlock_wrlock returns: the thread goes on into the list.     *)
LockTaken(t) ==
    /\ R!RdTake(t) \/ R!WrTake(t)
    /\ L!Goto(t, "lock", "enter")
    /\ UNCHANGED <<head, data, next, alloc, count_mutex, counts, call, left, mine,
                   loaded, inserted, attempts>>

(* Insert, Member, Delete between the two calls of the lock. *)
InList(p) == UNCHANGED lockVars /\ L!ListStep(p)

BeginUnlock(t) ==
    /\ pc[t] = "return"
    /\ R!UnlockEnter(t)
    /\ UNCHANGED listVars

(* rwlock_unlock returns, and the thread counts its operation. *)
EndOp(t) == R!Unlock(t) /\ L!ReleaseAndCount(t)

AddCounts(t) ==
    /\ UNCHANGED lockVars
    /\ L!LockCounts(t) \/ L!LoadCounts(t) \/ L!StoreCounts(t)

ThreadStep(t) ==
    \/ BeginOp(t) \/ WaitForLock(t) \/ LockTaken(t) \/ InList(t)
    \/ BeginUnlock(t) \/ EndOp(t) \/ AddCounts(t)

FreeList == UNCHANGED lockVars /\ (L!FreeNode \/ L!Exit)

MainStep ==
    \/ InList(Main)
    \/ UNCHANGED lockVars /\ (L!MainInsert \/ L!MainInserted \/ L!CreateThreads \/ L!Join)
    \/ FreeList

Exited == pc[Main] = "exit" /\ UNCHANGED vars

Next ==
    \/ MainStep
    \/ \E t \in Threads : ThreadStep(t)
    \/ Exited

Spec == Init /\ [][Next]_vars

FairSpec == Spec /\ WF_vars(MainStep) /\ \A t \in Threads : WF_vars(ThreadStep(t))

--------------------------------------------------------------------------------

(* With rwlock_t every operation of the list still finds the lock held as        *)
(* pthread_rwlock_t would hold it: each step of program_6_.c is a step of        *)
(* pth_ll_rwl.c or none, in both modes.  All that holds of ListWork - a          *)
(* linearizable set, no node used after it is freed, no leak, exact totals -     *)
(* therefore holds of program_6_.c.                                              *)
ImplementsListWork == L!Spec

(* The lock strands nobody who runs the list over it, even when the last threads *)
(* to want it are of one kind, and main gets to free the list (lines 121-138).   *)
Termination == L!Termination
================================================================================
