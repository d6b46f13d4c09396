-------------------------- MODULE ListOverRWLockProofs -------------------------
(* Proofs about program_6_.c as a whole: the sorted list over the lock written   *)
(* by hand does what the list over pthread_rwlock_t does, for every number of    *)
(* threads, operations, keys and addresses, in both modes of the lock.           *)
(*                                                                               *)
(* Nothing is proved again.  What RWLockProofs says of the lock is cited through *)
(* RP, what ListWorkProofs says of the list through LP; the work of this module  *)
(* is that each step of the whole is a step of both parts, and the one fact      *)
(* neither part knows: a thread waits at the entry of the lock that its          *)
(* operation of the list calls for.                                              *)
EXTENDS ListOverRWLock, FiniteSetTheorems, TLAPS

RP == INSTANCE RWLockProofs WITH pc <- lock_pc, MaxSpurious <- 0,
                          OpsPerThread <- TotalOps \div Cardinality(Threads)

LP == INSTANCE ListWorkProofs WITH reading <- R!ReadHolders,
                                   writing <- R!WriteHolders

--------------------------------------------------------------------------------
(* The assumptions of the two parts follow from those of the whole, and RP is    *)
(* about the lock of ListOverRWLock.                                             *)

LEMMA LockThreads == RP!ThreadsAssumption
BY ProcsAssumption DEF RP!ThreadsAssumption, RP!IsFiniteSet, IsFiniteSet

LEMMA LockBounds == RP!BoundsAssumption
<1>1. Cardinality(Threads) \in Nat \ {0}
  BY ProcsAssumption, FS_CardinalityType, FS_EmptySet
<1>2. TotalOps \div Cardinality(Threads) \in Nat
  BY <1>1, InputAssumption
<1> QED BY <1>2 DEF RP!BoundsAssumption

LEMMA SameInit == R!Init <=> RP!Init
BY DEF R!Init, RP!Init

LEMMA SameEntry ==
    ASSUME NEW t
    PROVE  /\ R!RdLock(t) <=> RP!RdLock(t)
           /\ R!WrLock(t) <=> RP!WrLock(t)
BY DEF R!RdLock, RP!RdLock, R!WrLock, RP!WrLock, R!Goto, RP!Goto, R!TakeMutex,
       RP!TakeMutex, R!counters, RP!counters, R!waitSets, RP!waitSets

LEMMA SameWait ==
    ASSUME NEW t
    PROVE  /\ R!RdWait(t) <=> RP!RdWait(t)
           /\ R!RdWake(t) <=> RP!RdWake(t)
           /\ R!WrWait(t) <=> RP!WrWait(t)
           /\ R!WrWake(t) <=> RP!WrWake(t)
BY DEF R!RdWait, RP!RdWait, R!RdWake, RP!RdWake, R!WrWait, RP!WrWait, R!WrWake,
       RP!WrWake, R!Goto, RP!Goto, R!TakeMutex, RP!TakeMutex, R!DropMutex,
       RP!DropMutex, R!counters, RP!counters, R!waitSets, RP!waitSets,
       R!ReadBlocked, RP!ReadBlocked, R!WriteBlocked, RP!WriteBlocked

LEMMA SameTake ==
    ASSUME NEW t
    PROVE  /\ R!RdTake(t) <=> RP!RdTake(t)
           /\ R!WrTake(t) <=> RP!WrTake(t)
BY DEF R!RdTake, RP!RdTake, R!WrTake, RP!WrTake, R!Goto, RP!Goto, R!DropMutex,
       RP!DropMutex, R!waitSets, RP!waitSets, R!ReadBlocked, RP!ReadBlocked,
       R!WriteBlocked, RP!WriteBlocked

LEMMA SameExit ==
    ASSUME NEW t
    PROVE  /\ R!UnlockEnter(t) <=> RP!UnlockEnter(t)
           /\ R!Unlock(t) <=> RP!Unlock(t)
BY DEF R!UnlockEnter, RP!UnlockEnter, R!Unlock, RP!Unlock, R!Goto, RP!Goto,
       R!TakeMutex, RP!TakeMutex, R!DropMutex, RP!DropMutex, R!counters,
       RP!counters, R!waitSets, RP!waitSets, R!LeaveCounters, RP!LeaveCounters,
       R!WakeNext, RP!WakeNext, R!SignalWriter, RP!SignalWriter,
       R!BroadcastReaders, RP!BroadcastReaders

LEMMA SameHolders ==
    /\ R!ReadHolders = RP!ReadHolders /\ R!WriteHolders = RP!WriteHolders
    /\ R!ReadHolders' = RP!ReadHolders' /\ R!WriteHolders' = RP!WriteHolders'
BY DEF R!ReadHolders, RP!ReadHolders, R!WriteHolders, RP!WriteHolders, R!At, RP!At

(* What a step of the whole is for the lock. *)
LEMMA LockStep == [Next]_vars => [RP!Next]_(RP!vars)
<1> SUFFICES ASSUME [Next]_vars PROVE [RP!Next]_(RP!vars) OBVIOUS
<1>1. ASSUME NEW t \in Threads,
             \/ BeginOp(t) \/ WaitForLock(t) \/ LockTaken(t) \/ BeginUnlock(t)
             \/ EndOp(t)
      PROVE  RP!Next
  <2>1. RP!ThreadStep(t)
    BY <1>1, SameEntry, SameWait, SameTake, SameExit
       DEF BeginOp, WaitForLock, LockTaken, BeginUnlock, EndOp, RP!ThreadStep
  <2> QED BY <2>1 DEF RP!Next
<1>2. ASSUME UNCHANGED lockVars PROVE UNCHANGED RP!vars
  BY <1>2 DEF lockVars, RP!vars
<1>3. ASSUME MainStep PROVE UNCHANGED lockVars
  BY <1>3 DEF MainStep, InList, FreeList
<1>4. ASSUME NEW t \in Threads, InList(t) \/ AddCounts(t) PROVE UNCHANGED lockVars
  BY <1>4 DEF InList, AddCounts
<1>5. ASSUME Exited \/ UNCHANGED vars PROVE UNCHANGED lockVars
  BY <1>5 DEF Exited, vars
<1> QED BY <1>1, <1>2, <1>3, <1>4, <1>5 DEF Next, ThreadStep

LEMMA LockInvKept == RP!LockInv /\ [Next]_vars => RP!LockInv'
BY LockStep, LockThreads, LockBounds, RP!LockInvStep

--------------------------------------------------------------------------------
(* The inductive invariant. *)

(* A thread at the entry for readers is there for Member, one at the entry for   *)
(* writers for Insert or Delete.                                                 *)
AtRightEntry(t) ==
    /\ lock_pc[t] \in {"rd_test", "rd_wait"} =>
         pc[t] = "lock" /\ call[t].op = "member"
    /\ lock_pc[t] \in {"wr_test", "wr_wait"} =>
         pc[t] = "lock" /\ call[t].op # "member"

(* The threads exist once main has gone on to join them, and not before. *)
NoThreadYet ==
    pc[Main] \notin {"join", "free", "exit"} => \A t \in Threads : pc[t] = "none"

(* pc and call are arrays over the threads and main. *)
Arrays ==
    /\ pc = [p \in L!Procs |-> pc[p]]
    /\ call = [p \in L!Procs |-> call[p]]

OverInv ==
    /\ RP!LockInv
    /\ Arrays
    /\ NoThreadYet
    /\ \A t \in Threads : AtRightEntry(t)

LEMMA OverInvInit == Init => OverInv
<1> SUFFICES ASSUME Init PROVE OverInv OBVIOUS
<1>1. RP!LockInv BY SameInit, LockThreads, LockBounds, RP!LockInvInit DEF Init
<1>2. Arrays BY DEF Init, L!Init, Arrays
<1>3. NoThreadYet
  BY ProcsAssumption DEF Init, L!Init, NoThreadYet, L!Procs
<1>4. \A t \in Threads : AtRightEntry(t) BY DEF Init, R!Init, AtRightEntry
<1> QED BY <1>1, <1>2, <1>3, <1>4 DEF OverInv

(* A step of the list, by a thread or by main, moves one process, which is not   *)
(* waiting for the lock before and is not after.                                 *)
LEMMA ListStepInv ==
    ASSUME OverInv, NEW p \in L!Procs, L!ListStep(p), UNCHANGED lockVars
    PROVE  Arrays' /\ NoThreadYet' /\ \A t \in Threads : AtRightEntry(t)'
<1>1. /\ pc[p] \in {"enter", "walk", "publish", "unlinked"}
      /\ \E at \in {"walk", "return", "publish", "unlinked"} :
            pc' = [pc EXCEPT ![p] = at]
  BY DEF L!ListStep, L!Enter, L!Walk, L!ReturnUnchanged, L!InsertAlloc,
         L!InsertPublish, L!DeleteUnlink, L!DeleteFree, L!Goto, OverInv, Arrays
<1>2. \E c : call' = [call EXCEPT ![p] = c]
  BY DEF L!ListStep, L!Enter, L!Walk, L!ReturnUnchanged, L!InsertAlloc,
         L!InsertPublish, L!DeleteUnlink, L!DeleteFree, OverInv, Arrays
<1>3. lock_pc' = lock_pc BY DEF lockVars
<1>4. Arrays' BY <1>1, <1>2 DEF OverInv, Arrays
<1>5. NoThreadYet'
  BY <1>1, ProcsAssumption DEF OverInv, Arrays, NoThreadYet, L!Procs
<1>6. ASSUME NEW t \in Threads PROVE AtRightEntry(t)'
  BY <1>1, <1>2, <1>3 DEF OverInv, Arrays, AtRightEntry, L!Procs
<1> QED BY <1>4, <1>5, <1>6

LEMMA MainStepInv ==
    ASSUME OverInv, MainStep
    PROVE  Arrays' /\ NoThreadYet' /\ \A t \in Threads : AtRightEntry(t)'
<1>1. CASE InList(Main) BY <1>1, ListStepInv DEF InList, L!Procs
<1>2. CASE UNCHANGED lockVars /\ L!CreateThreads
  BY <1>2 DEF OverInv, Arrays, NoThreadYet, AtRightEntry, L!CreateThreads, L!Procs,
              lockVars
<1>3. CASE /\ UNCHANGED lockVars
           /\ \/ L!MainInsert \/ L!MainInserted \/ L!Join \/ L!FreeNode \/ L!Exit
  <2>1. /\ \E at : pc' = [pc EXCEPT ![Main] = at]
        /\ pc'[Main] \in {"join", "free", "exit"} => pc[Main] \in {"join", "free", "exit"}
    BY <1>3 DEF L!MainInsert, L!MainInserted, L!Join, L!FreeNode, L!Exit, L!Goto,
                OverInv, Arrays, L!Procs
  <2>2. \E c : call' = [call EXCEPT ![Main] = c]
    BY <1>3 DEF L!MainInsert, L!MainInserted, L!Join, L!FreeNode, L!Exit,
                OverInv, Arrays, L!Procs
  <2>3. lock_pc' = lock_pc BY <1>3 DEF lockVars
  <2>4. \A t \in Threads : t # Main BY ProcsAssumption
  <2>5. Arrays' BY <2>1, <2>2 DEF OverInv, Arrays
  <2>6. NoThreadYet'
    <3>1. pc[Main] \in {"join", "free", "exit"} => pc'[Main] \in {"join", "free", "exit"}
      BY <1>3 DEF L!MainInsert, L!MainInserted, L!Join, L!FreeNode, L!Exit, L!Goto,
                  OverInv, Arrays, L!Procs
    <3> QED BY <2>1, <2>4, <3>1 DEF OverInv, Arrays, NoThreadYet, L!Procs
  <2>7. ASSUME NEW t \in Threads PROVE AtRightEntry(t)'
    BY <2>1, <2>2, <2>3, <2>4 DEF OverInv, Arrays, AtRightEntry, L!Procs
  <2> QED BY <2>5, <2>6, <2>7
<1> QED BY <1>1, <1>2, <1>3 DEF MainStep, FreeList

(* A step of thread t into the lock, out of it, or among the totals. *)
LEMMA ThreadStepInv ==
    ASSUME OverInv, NEW t \in Threads, ThreadStep(t)
    PROVE  Arrays' /\ NoThreadYet' /\ \A u \in Threads : AtRightEntry(u)'
<1>1. CASE InList(t) BY <1>1, ListStepInv DEF InList, L!Procs
<1> DEFINE Others == \A u \in Threads \ {t} :
               pc'[u] = pc[u] /\ call'[u] = call[u] /\ lock_pc'[u] = lock_pc[u]
<1>2. lock_pc \in [Threads -> RP!Locations] BY DEF OverInv, RP!LockInv, RP!TypeOK
<1>3. pc[t] # "none" => pc[Main] \in {"join", "free", "exit"}
  BY DEF OverInv, NoThreadYet
<1>4. t # Main BY ProcsAssumption
<1>5. ASSUME Others, AtRightEntry(t)', Arrays', pc[t] # "none", pc'[Main] = pc[Main]
      PROVE  Arrays' /\ NoThreadYet' /\ \A u \in Threads : AtRightEntry(u)'
  <2>1. ASSUME NEW u \in Threads PROVE AtRightEntry(u)'
    BY <1>5, <2>1 DEF OverInv, AtRightEntry
  <2>2. NoThreadYet' BY <1>3, <1>5 DEF NoThreadYet
  <2> QED BY <1>5, <2>1, <2>2
<1>6. CASE BeginOp(t)
  <2>1. /\ pc[t] = "loop" /\ pc' = [pc EXCEPT ![t] = "lock"]
        /\ \E c : call' = [call EXCEPT ![t] = c]
        /\ \E at : lock_pc' = [lock_pc EXCEPT ![t] = at]
    BY <1>6 DEF BeginOp, R!RdLock, R!WrLock, R!Goto, L!PickOp, L!Goto
  <2>2. lock_pc'[t] = Entry(call'[t].op) BY <1>6 DEF BeginOp
  <2>3. AtRightEntry(t)'
    BY <2>1, <2>2 DEF Entry, AtRightEntry, OverInv, Arrays, L!Procs
  <2> QED BY <1>2, <1>4, <1>5, <2>1, <2>3 DEF OverInv, Arrays, L!Procs
<1>7. CASE WaitForLock(t)
  <2>1. /\ \/ lock_pc[t] = "rd_test" /\ lock_pc' = [lock_pc EXCEPT ![t] = "rd_wait"]
           \/ lock_pc[t] = "rd_wait" /\ lock_pc' = [lock_pc EXCEPT ![t] = "rd_test"]
           \/ lock_pc[t] = "wr_test" /\ lock_pc' = [lock_pc EXCEPT ![t] = "wr_wait"]
           \/ lock_pc[t] = "wr_wait" /\ lock_pc' = [lock_pc EXCEPT ![t] = "wr_test"]
        /\ pc' = pc /\ call' = call
    BY <1>7 DEF WaitForLock, R!RdWait, R!RdWake, R!WrWait, R!WrWake, R!Goto, listVars
  <2>2. AtRightEntry(t)' /\ pc[t] = "lock"
    BY <1>2, <2>1 DEF OverInv, AtRightEntry
  <2> QED BY <1>2, <1>5, <2>1, <2>2 DEF OverInv, Arrays
<1>8. CASE LockTaken(t)
  <2>1. /\ pc[t] = "lock" /\ pc' = [pc EXCEPT ![t] = "enter"] /\ call' = call
        /\ \E at \in {"reading", "writing"} : lock_pc' = [lock_pc EXCEPT ![t] = at]
    BY <1>8 DEF LockTaken, R!RdTake, R!WrTake, R!Goto, L!Goto
  <2>2. AtRightEntry(t)' BY <1>2, <2>1 DEF AtRightEntry
  <2> QED BY <1>2, <1>4, <1>5, <2>1, <2>2 DEF OverInv, Arrays, L!Procs
<1>9. CASE BeginUnlock(t)
  <2>1. /\ pc[t] = "return" /\ pc' = pc /\ call' = call
        /\ \E at \in {"rd_unlock", "wr_unlock"} : lock_pc' = [lock_pc EXCEPT ![t] = at]
    BY <1>9 DEF BeginUnlock, R!UnlockEnter, R!Goto, listVars
  <2>2. AtRightEntry(t)' BY <1>2, <2>1 DEF AtRightEntry
  <2> QED BY <1>2, <1>5, <2>1, <2>2 DEF OverInv, Arrays
<1>10. CASE EndOp(t)
  <2>1. /\ pc[t] = "return" /\ pc' = [pc EXCEPT ![t] = "loop"]
        /\ \E c : call' = [call EXCEPT ![t] = c]
        /\ lock_pc' = [lock_pc EXCEPT ![t] = "idle"]
    BY <1>10 DEF EndOp, R!Unlock, R!Goto, L!ReleaseAndCount, L!Goto
  <2>2. AtRightEntry(t)' BY <1>2, <2>1 DEF AtRightEntry
  <2> QED BY <1>2, <1>4, <1>5, <2>1, <2>2 DEF OverInv, Arrays, L!Procs
<1>11. CASE AddCounts(t)
  <2>1. /\ pc[t] \in {"loop", "count", "store"}
        /\ \E at : pc' = [pc EXCEPT ![t] = at]
        /\ call' = call /\ lock_pc' = lock_pc
    BY <1>11 DEF AddCounts, lockVars, L!LockCounts, L!LoadCounts, L!StoreCounts, L!Goto
  <2>2. AtRightEntry(t)' BY <2>1 DEF AtRightEntry, OverInv
  <2> QED BY <1>4, <1>5, <2>1, <2>2 DEF OverInv, Arrays, L!Procs
<1> QED BY <1>1, <1>6, <1>7, <1>8, <1>9, <1>10, <1>11 DEF ThreadStep

LEMMA OverInvStep == OverInv /\ [Next]_vars => OverInv'
<1> SUFFICES ASSUME OverInv, [Next]_vars PROVE OverInv' OBVIOUS
<1>1. RP!LockInv' BY LockInvKept DEF OverInv
<1>2. Arrays' /\ NoThreadYet' /\ \A t \in Threads : AtRightEntry(t)'
  <2>1. CASE MainStep BY <2>1, MainStepInv
  <2>2. CASE \E t \in Threads : ThreadStep(t) BY <2>2, ThreadStepInv
  <2>3. CASE Exited \/ UNCHANGED vars
    <3>1. pc' = pc /\ call' = call /\ lock_pc' = lock_pc
      BY <2>3 DEF Exited, vars, listVars, lockVars
    <3> QED BY <3>1 DEF OverInv, Arrays, NoThreadYet, AtRightEntry
  <2> QED BY <2>1, <2>2, <2>3 DEF Next
<1> QED BY <1>1, <1>2 DEF OverInv

(* Everything OverInv says holds in every state of program_6_.c. *)
THEOREM OverInvariant == Spec => []OverInv
BY OverInvInit, OverInvStep, PTL DEF Spec

--------------------------------------------------------------------------------
(* The refinement. *)

(* rwlock_rdlock or rwlock_wrlock returns: for the list it is what the return of *)
(* pthread_rwlock_rdlock or pthread_rwlock_wrlock is.                            *)
LEMMA LockTakenAcquires ==
    ASSUME OverInv, NEW t \in Threads, LockTaken(t) PROVE L!Acquire(t)
<1>1. /\ L!Goto(t, "lock", "enter") /\ UNCHANGED L!heap /\ UNCHANGED L!totals
      /\ UNCHANGED <<call, left>> /\ UNCHANGED L!mainVars
  BY DEF LockTaken, L!heap, L!totals, L!mainVars
<1>2. CASE R!RdTake(t)
  <2>1. call[t].op = "member" BY <1>2 DEF OverInv, AtRightEntry, R!RdTake, R!Goto
  <2>2. RP!Abstract!AcquireRead(t)
    BY <1>2, SameTake, LockThreads, LockBounds, RP!RdTakeAcquires DEF OverInv
  <2>3. L!Lock!AcquireRead(t)
    BY <2>2, SameHolders DEF RP!Abstract!AcquireRead, L!Lock!AcquireRead
  <2> QED BY <1>1, <2>1, <2>3 DEF L!Acquire, L!LockFor
<1>3. CASE R!WrTake(t)
  <2>1. call[t].op # "member" BY <1>3 DEF OverInv, AtRightEntry, R!WrTake, R!Goto
  <2>2. RP!Abstract!AcquireWrite(t)
    BY <1>3, SameTake, LockThreads, LockBounds, RP!WrTakeAcquires DEF OverInv
  <2>3. L!Lock!AcquireWrite(t)
    BY <2>2, SameHolders DEF RP!Abstract!AcquireWrite, L!Lock!AcquireWrite
  <2> QED BY <1>1, <2>1, <2>3 DEF L!Acquire, L!LockFor
<1> QED BY <1>2, <1>3 DEF LockTaken

(* What BeginOp and EndOp take from ListWork says of the lock's view only what   *)
(* the lock does by itself: it permits and forbids nothing.                      *)
LEMMA ListAsksNothing ==
    ASSUME OverInv, NEW t \in Threads
    PROVE  /\ R!RdLock(t) \/ R!WrLock(t) => UNCHANGED L!lock
           /\ R!Unlock(t) => L!Lock!Release(t)
<1>1. ASSUME R!RdLock(t) \/ R!WrLock(t) PROVE UNCHANGED L!lock
  <2>1. RP!ReadHolders' = RP!ReadHolders /\ RP!WriteHolders' = RP!WriteHolders
    BY <1>1, SameEntry, LockThreads, LockBounds, RP!HoldersKept DEF OverInv
  <2> QED BY <2>1, SameHolders DEF L!lock
<1>2. ASSUME R!Unlock(t) PROVE L!Lock!Release(t)
  <2>1. RP!Abstract!Release(t)
    BY <1>2, SameExit, LockThreads, LockBounds, RP!UnlockReleases DEF OverInv
  <2> QED BY <2>1, SameHolders DEF RP!Abstract!Release, L!Lock!Release
<1> QED BY <1>1, <1>2

(* Waiting for the lock, and the first half of rwlock_unlock, are nothing the    *)
(* list can see.                                                                 *)
LEMMA WaitingIsUnseen ==
    ASSUME OverInv, NEW t \in Threads, WaitForLock(t) \/ BeginUnlock(t)
    PROVE  UNCHANGED L!vars
<1>1. RP!ReadHolders' = RP!ReadHolders /\ RP!WriteHolders' = RP!WriteHolders
  BY SameWait, SameExit, LockThreads, LockBounds, RP!HoldersKept
     DEF OverInv, WaitForLock, BeginUnlock
<1>2. UNCHANGED listVars BY DEF WaitForLock, BeginUnlock
<1> QED BY <1>1, <1>2, SameHolders
        DEF L!vars, L!heap, L!lock, L!totals, L!mainVars, listVars

LEMMA ListRefined == OverInv /\ [Next]_vars => [L!Next]_(L!vars)
<1> SUFFICES ASSUME OverInv, [Next]_vars PROVE [L!Next]_(L!vars) OBVIOUS
<1>1. CASE MainStep
  BY <1>1 DEF MainStep, InList, FreeList, L!Next, L!MainStep
<1>2. ASSUME NEW t \in Threads, ThreadStep(t) PROVE [L!Next]_(L!vars)
  <2>1. CASE WaitForLock(t) \/ BeginUnlock(t) BY <2>1, WaitingIsUnseen
  <2>2. CASE \/ BeginOp(t) \/ LockTaken(t) \/ InList(t) \/ EndOp(t) \/ AddCounts(t)
    <3>1. L!ThreadStep(t)
      BY <2>2, LockTakenAcquires
         DEF BeginOp, InList, EndOp, AddCounts, L!ThreadStep
    <3> QED BY <3>1 DEF L!Next
  <2> QED BY <1>2, <2>1, <2>2 DEF ThreadStep
<1>3. CASE Exited \/ UNCHANGED vars
  <2>1. UNCHANGED listVars /\ lock_pc' = lock_pc
    BY <1>3 DEF Exited, vars, listVars, lockVars
  <2>2. R!ReadHolders' = R!ReadHolders /\ R!WriteHolders' = R!WriteHolders
    BY <2>1 DEF R!ReadHolders, R!WriteHolders, R!At
  <2> QED BY <2>1, <2>2
          DEF L!vars, L!heap, L!lock, L!totals, L!mainVars, listVars
<1> QED BY <1>1, <1>2, <1>3 DEF Next

(* program_6_.c, with the lock written by hand, does only what pth_ll_rwl.c does *)
(* with pthread_rwlock_t: initial states map to initial states, every step to a  *)
(* step or a stutter.                                                            *)
THEOREM Program6IsTheList == Spec => ImplementsListWork
<1>1. Init => L!Init BY DEF Init
<1> QED BY <1>1, OverInvariant, ListRefined, PTL
        DEF Spec, ImplementsListWork, L!Spec

--------------------------------------------------------------------------------
(* What is proved of the list holds over this lock.  LP is about the list of     *)
(* ListOverRWLock: its definitions are those of L, one by one.                   *)

LEMMA ListProcs == LP!ProcsAssumption
BY ProcsAssumption DEF LP!ProcsAssumption, LP!IsFiniteSet, IsFiniteSet

LEMMA ListInput == LP!InputAssumption
BY InputAssumption DEF LP!InputAssumption

LEMMA ListMemory == LP!MemoryAssumption
BY MemoryAssumption DEF LP!MemoryAssumption, LP!IsFiniteSet, IsFiniteSet

LEMMA SameCount == L!Cardinality(Threads) = LP!Cardinality(Threads)
BY DEF L!Cardinality, LP!Cardinality

LEMMA SameListInit == L!Init <=> LP!Init
BY DEF L!Init, LP!Init, L!Lock!LockInit, LP!Lock!LockInit, L!Procs, LP!Procs, L!NoCall,
       LP!NoCall, L!NoCounts, LP!NoCounts, L!Kinds, LP!Kinds

LEMMA SameTuples ==
    /\ (UNCHANGED L!heap) <=> (UNCHANGED LP!heap)
    /\ (UNCHANGED L!lock) <=> (UNCHANGED LP!lock)
    /\ (UNCHANGED L!totals) <=> (UNCHANGED LP!totals)
    /\ (UNCHANGED L!mainVars) <=> (UNCHANGED LP!mainVars)
    /\ (UNCHANGED L!vars) <=> (UNCHANGED LP!vars)
BY SameHolders DEF L!heap, LP!heap, L!lock, LP!lock, L!totals, LP!totals, L!mainVars,
   LP!mainVars, L!vars, LP!vars

LEMMA SameListStep == ASSUME NEW p PROVE L!ListStep(p) => LP!ListStep(p)
<1>1. L!Enter(p) => LP!Enter(p)
  BY SameTuples DEF L!Enter, LP!Enter, L!Goto, LP!Goto
<1>2. L!Walk(p) => LP!Walk(p)
  BY SameTuples DEF L!Walk, LP!Walk, L!Ahead, LP!Ahead
<1>3. L!ReturnUnchanged(p) => LP!ReturnUnchanged(p)
  BY SameTuples DEF L!ReturnUnchanged, LP!ReturnUnchanged, L!Goto, LP!Goto, L!Ahead,
     LP!Ahead, L!Found, LP!Found
<1>4. L!InsertAlloc(p) => LP!InsertAlloc(p)
  BY SameTuples DEF L!InsertAlloc, LP!InsertAlloc, L!Goto, LP!Goto, L!Ahead, LP!Ahead,
     L!Found, LP!Found
<1>5. L!InsertPublish(p) => LP!InsertPublish(p)
  BY SameTuples DEF L!InsertPublish, LP!InsertPublish, L!Goto, LP!Goto, L!Link, LP!Link
<1>6. L!DeleteUnlink(p) => LP!DeleteUnlink(p)
  BY SameTuples DEF L!DeleteUnlink, LP!DeleteUnlink, L!Goto, LP!Goto, L!Ahead, LP!Ahead,
     L!Found, LP!Found, L!Link, LP!Link
<1>7. L!DeleteFree(p) => LP!DeleteFree(p)
  BY SameTuples DEF L!DeleteFree, LP!DeleteFree, L!Goto, LP!Goto, L!Free, LP!Free
<1> QED BY <1>1, <1>2, <1>3, <1>4, <1>5, <1>6, <1>7 DEF L!ListStep, LP!ListStep

LEMMA SameThreadStep == ASSUME NEW t PROVE L!ThreadStep(t) => LP!ThreadStep(t)
<1>1. L!PickOp(t) => LP!PickOp(t)
  BY SameTuples DEF L!PickOp, LP!PickOp, L!Goto, LP!Goto, L!CallOf, LP!CallOf,
     L!NoCall, LP!NoCall, L!Kinds, LP!Kinds
<1>2. L!Acquire(t) => LP!Acquire(t)
  BY SameTuples, SameHolders DEF L!Acquire, LP!Acquire, L!Goto, LP!Goto, L!LockFor,
     LP!LockFor, L!Lock!AcquireRead, LP!Lock!AcquireRead, L!Lock!AcquireWrite,
     LP!Lock!AcquireWrite
<1>3. L!ReleaseAndCount(t) => LP!ReleaseAndCount(t)
  BY SameTuples, SameHolders DEF L!ReleaseAndCount, LP!ReleaseAndCount, L!Goto, LP!Goto,
     L!Lock!Release, LP!Lock!Release, L!NoCall, LP!NoCall
<1>4. L!LockCounts(t) => LP!LockCounts(t)
  BY SameTuples DEF L!LockCounts, LP!LockCounts, L!Goto, LP!Goto
<1>5. L!LoadCounts(t) => LP!LoadCounts(t)
  BY SameTuples DEF L!LoadCounts, LP!LoadCounts, L!Goto, LP!Goto
<1>6. L!StoreCounts(t) => LP!StoreCounts(t)
  BY SameTuples DEF L!StoreCounts, LP!StoreCounts, L!Goto, LP!Goto, L!Kinds, LP!Kinds
<1> QED BY <1>1, <1>2, <1>3, <1>4, <1>5, <1>6, SameListStep
        DEF L!ThreadStep, LP!ThreadStep

LEMMA SameMainStep == L!MainStep => LP!MainStep
<1>1. L!MainInsert => LP!MainInsert
  BY SameTuples DEF L!MainInsert, LP!MainInsert, L!Populating, LP!Populating, L!Goto,
     LP!Goto, L!CallOf, LP!CallOf, L!NoCall, LP!NoCall
<1>2. L!MainInserted => LP!MainInserted
  BY SameTuples DEF L!MainInserted, LP!MainInserted, L!Goto, LP!Goto, L!NoCall, LP!NoCall
<1>3. L!CreateThreads => LP!CreateThreads
  BY SameTuples, SameCount DEF L!CreateThreads, LP!CreateThreads, L!Populating,
     LP!Populating, L!Procs, LP!Procs, L!ops_per_thread, LP!ops_per_thread,
     L!thread_count, LP!thread_count
<1>4. L!Join => LP!Join BY SameTuples DEF L!Join, LP!Join, L!Goto, LP!Goto
<1>5. L!FreeNode => LP!FreeNode
  BY SameTuples DEF L!FreeNode, LP!FreeNode, L!Free, LP!Free
<1>6. L!Exit => LP!Exit BY SameTuples DEF L!Exit, LP!Exit, L!Goto, LP!Goto
<1> QED BY <1>1, <1>2, <1>3, <1>4, <1>5, <1>6, SameListStep DEF L!MainStep, LP!MainStep

LEMMA SameListNext == [L!Next]_(L!vars) => [LP!Next]_(LP!vars)
<1>1. L!Exited => LP!Exited BY SameTuples DEF L!Exited, LP!Exited
<1> QED BY <1>1, SameMainStep, SameThreadStep, SameTuples DEF L!Next, LP!Next

(* Every behaviour of the whole is one of the list as LP knows it. *)
LEMMA ListBehaviour == Spec => LP!Spec
<1>1. L!Spec => LP!Spec
  BY SameListInit, SameListNext, PTL DEF L!Spec, LP!Spec
<1> QED BY <1>1, Program6IsTheList, PTL DEF ImplementsListWork

LEMMA SameNode == L!Node = LP!Node
BY DEF L!Node, LP!Node, L!Cardinality, LP!Cardinality

LEMMA SameLinked == L!Linked = LP!Linked
BY SameNode DEF L!Linked, LP!Linked, L!Cardinality, LP!Cardinality

(* A thread that changes the list of program_6_.c is alone there: the loop of    *)
(* Thread_work (lines 224-241) with the lock of lines 45-81.                     *)
THEOREM Program6WritersAlone == Spec => []L!ChangesAlone
<1>1. LP!Spec => []LP!ChangesAlone
  BY ListProcs, ListInput, ListMemory, LP!WriterAlone
<1>2. LP!ChangesAlone => L!ChangesAlone
  BY DEF L!ChangesAlone, LP!ChangesAlone, L!Procs, LP!Procs, L!InList, LP!InList
<1> QED BY <1>1, <1>2, ListBehaviour, PTL

(* The list of program_6_.c is a finite, strictly sorted chain of allocated      *)
(* nodes in every state until main frees it.                                     *)
THEOREM Program6Sorted == Spec => []L!ListSorted
<1>1. LP!Spec => []LP!ListSorted
  BY ListProcs, ListInput, ListMemory, LP!ListAlwaysSorted
<1>2. LP!ListSorted => L!ListSorted
  BY SameNode, SameLinked
     DEF L!ListSorted, LP!ListSorted, L!Freeing, LP!Freeing, L!Cardinality,
         LP!Cardinality
<1> QED BY <1>1, <1>2, ListBehaviour, PTL

(* No thread of program_6_.c reads, writes or frees a node that another has      *)
(* freed, and no node is lost: at exit none is allocated.                        *)
THEOREM Program6MemorySafe == Spec => [](L!MemorySafe /\ L!NoLeak)
<1>1. LP!Spec => []LP!MemorySafe
  BY ListProcs, ListInput, ListMemory, LP!MemoryAlwaysSafe
<1>2. LP!Spec => []LP!NoLeak
  BY ListProcs, ListInput, ListMemory, LP!NothingLeaks
<1>3. LP!MemorySafe => L!MemorySafe
  BY DEF L!MemorySafe, LP!MemorySafe, L!Procs, LP!Procs
<1>4. LP!NoLeak => L!NoLeak
  BY SameLinked DEF L!NoLeak, LP!NoLeak, L!Freeing, LP!Freeing, L!At, LP!At, L!Procs,
                    LP!Procs
<1> QED BY <1>1, <1>2, <1>3, <1>4, ListBehaviour, PTL

(* The totals program_6_.c prints are exactly thread_count * ops_per_thread, and *)
(* on the way there no count is lost.                                            *)
THEOREM Program6CountsConserved == Spec => []L!CountsConserved
<1>1. LP!Spec => []LP!CountsConserved
  BY ListProcs, ListInput, ListMemory, LP!CountsAlwaysConserved
<1>2. LP!CountsConserved => L!CountsConserved
  BY SameCount
     DEF L!CountsConserved, LP!CountsConserved, L!thread_count, LP!thread_count,
         L!ops_per_thread, LP!ops_per_thread, L!Sum, LP!Sum, L!Owed, LP!Owed,
         L!InList, LP!InList, L!MapThenSumSet, LP!MapThenSumSet, L!MapThenFoldSet,
         LP!MapThenFoldSet
<1> QED BY <1>1, <1>2, ListBehaviour, PTL

(* L and LP see the same set and the same calls. *)
LEMMA SameSet ==
    /\ L!Procs = LP!Procs
    /\ L!Freeing <=> LP!Freeing
    /\ L!Freeing' <=> LP!Freeing'
    /\ L!Linked = LP!Linked
    /\ L!Linked' = LP!Linked'
    /\ \A p : L!PendingOf(p) = LP!PendingOf(p)
    /\ \A p : L!PendingOf(p)' = LP!PendingOf(p)'
<1>1. L!Linked' = LP!Linked'
  BY DEF L!Linked, LP!Linked, L!Node, LP!Node, L!Cardinality, LP!Cardinality
<1> QED BY <1>1, SameLinked DEF L!Procs, LP!Procs, L!Freeing, LP!Freeing, L!PendingOf,
                                LP!PendingOf

LEMMA SameSetStep ==
    [LP!Abstract!SetNext]_(LP!Abstract!setVars) =>
        [L!Abstract!SetNext]_(L!Abstract!setVars)
<1>1. (UNCHANGED LP!Abstract!setVars) => UNCHANGED L!Abstract!setVars
  BY SameSet DEF LP!Abstract!setVars, L!Abstract!setVars
<1>2. LP!Abstract!Discard => L!Abstract!Discard
  BY SameSet DEF LP!Abstract!Discard, L!Abstract!Discard, LP!Abstract!Idle,
     L!Abstract!Idle
<1>3. ASSUME NEW p PROVE LP!Abstract!Return(p) => L!Abstract!Return(p)
  BY SameSet DEF LP!Abstract!Return, L!Abstract!Return, LP!Abstract!Idle,
     L!Abstract!Idle, LP!Abstract!Answer, L!Abstract!Answer
<1>4. ASSUME NEW p, NEW op, NEW k
      PROVE  LP!Abstract!Invoke(p, op, k) => L!Abstract!Invoke(p, op, k)
  BY SameSet DEF LP!Abstract!Invoke, L!Abstract!Invoke, LP!Abstract!Idle,
     L!Abstract!Idle, LP!Abstract!Call, L!Abstract!Call
<1>5. ASSUME NEW p, NEW k
      PROVE  /\ LP!Abstract!DoMember(p, k) => L!Abstract!DoMember(p, k)
             /\ LP!Abstract!DoInsert(p, k) => L!Abstract!DoInsert(p, k)
             /\ LP!Abstract!DoDelete(p, k) => L!Abstract!DoDelete(p, k)
  BY SameSet DEF LP!Abstract!DoMember, L!Abstract!DoMember, LP!Abstract!DoInsert,
     L!Abstract!DoInsert, LP!Abstract!DoDelete, L!Abstract!DoDelete, LP!Abstract!Call,
     L!Abstract!Call, LP!Abstract!Answer, L!Abstract!Answer
<1> QED BY <1>1, <1>2, <1>3, <1>4, <1>5, SameSet
        DEF LP!Abstract!SetNext, L!Abstract!SetNext

(* The list of program_6_.c implements a set with atomic operations: the         *)
(* refinement of pth_ll_rwl.c's list survives the change of lock.                *)
THEOREM Program6ImplementsSet == Spec => L!ImplementsSharedSet
<1>1. LP!Spec => LP!ImplementsSharedSet
  BY ListProcs, ListInput, ListMemory, LP!ListImplementsSet
<1>2. LP!Abstract!SetInit => L!Abstract!SetInit
  BY SameSet DEF LP!Abstract!SetInit, L!Abstract!SetInit, LP!Abstract!Idle,
     L!Abstract!Idle
<1> QED BY <1>1, <1>2, SameSetStep, ListBehaviour, PTL
        DEF L!ImplementsSharedSet, LP!ImplementsSharedSet, L!Abstract!SetSpec,
            LP!Abstract!SetSpec
================================================================================
