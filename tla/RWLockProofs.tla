----------------------------- MODULE RWLockProofs ------------------------------
(* Proofs about the lock of program_6_.c, for every set of threads, every number *)
(* of operations and every number of spurious wake-ups.                          *)
(*                                                                               *)
(* None of the safety properties is inductive alone.  That a writer may enter is *)
(* decided by the counters, so exclusion needs CountersMatch; that the counters  *)
(* are right when rwlock_unlock guesses the kind of holder needs exclusion; that *)
(* an unlock wakes the right side needs both, and needs to know that whoever is  *)
(* in a wait set is a waiter.  LockInv is the conjunction that carries itself.   *)
EXTENDS RWLock, FiniteSetTheorems, TLAPS

(* Only a waiter is asleep. *)
SleepersWait ==
    /\ readers_ok \subseteq At({"rd_wait"})
    /\ writers_ok \subseteq At({"wr_wait"})

LockInv == TypeOK /\ SleepersWait /\ CountersMatch /\ Exclusion /\ NoLostWakeup

--------------------------------------------------------------------------------
(* Sets of threads at given locations. *)

LEMMA AtFinite ==
    ASSUME NEW L PROVE IsFiniteSet(At(L))
<1>1. At(L) \subseteq Threads BY DEF At
<1> QED BY <1>1, ThreadsAssumption, FS_Subset

LEMMA AtJoin ==
    ASSUME NEW L, NEW t \in Threads, NEW to,
           pc \in [Threads -> Locations], pc' = [pc EXCEPT ![t] = to],
           pc[t] \notin L, to \in L
    PROVE  /\ At(L)' = At(L) \cup {t}
           /\ t \notin At(L)
           /\ Cardinality(At(L)') = Cardinality(At(L)) + 1
<1>1. At(L)' = At(L) \cup {t} BY DEF At
<1>2. t \notin At(L) BY DEF At
<1> QED BY <1>1, <1>2, AtFinite, FS_AddElement

LEMMA AtLeave ==
    ASSUME NEW L, NEW t \in Threads, NEW to,
           pc \in [Threads -> Locations], pc' = [pc EXCEPT ![t] = to],
           pc[t] \in L, to \notin L
    PROVE  /\ At(L)' = At(L) \ {t}
           /\ t \in At(L)
           /\ Cardinality(At(L)') = Cardinality(At(L)) - 1
<1>1. At(L)' = At(L) \ {t} BY DEF At
<1>2. t \in At(L) BY DEF At
<1> QED BY <1>1, <1>2, AtFinite, FS_RemoveElement

LEMMA AtStay ==
    ASSUME NEW L, NEW t \in Threads, NEW to,
           pc \in [Threads -> Locations], pc' = [pc EXCEPT ![t] = to],
           pc[t] \in L <=> to \in L
    PROVE  At(L)' = At(L)
BY DEF At

LEMMA HoldersCounted ==
    /\ Cardinality(ReadHolders) \in Nat /\ Cardinality(WriteHolders) \in Nat
    /\ Cardinality(PendingWriters) \in Nat
    /\ Cardinality(ReadHolders) = 0 <=> ReadHolders = {}
    /\ Cardinality(WriteHolders) = 0 <=> WriteHolders = {}
    /\ Cardinality(PendingWriters) = 0 <=> PendingWriters = {}
BY AtFinite, FS_CardinalityType, FS_EmptySet
   DEF ReadHolders, WriteHolders, PendingWriters

--------------------------------------------------------------------------------
(* The inductive invariant. *)

LEMMA LockInvInit == Init => LockInv
<1> SUFFICES ASSUME Init PROVE LockInv OBVIOUS
<1>1. TypeOK BY BoundsAssumption DEF Init, TypeOK, Locations
<1>2. /\ ReadHolders = {} /\ WriteHolders = {} /\ PendingWriters = {}
  BY DEF Init, ReadHolders, WriteHolders, PendingWriters, At
<1>3. CountersMatch BY <1>2, FS_EmptySet DEF Init, CountersMatch
<1>4. Exclusion BY <1>2, FS_EmptySet DEF Exclusion
<1>5. SleepersWait /\ NoLostWakeup BY DEF Init, SleepersWait, NoLostWakeup
<1> QED BY <1>1, <1>3, <1>4, <1>5 DEF LockInv

(* A step that moves a thread between two locations of the same role. *)
LEMMA SameRoles ==
    ASSUME LockInv, NEW t \in Threads, NEW from, NEW to, Goto(t, from, to),
           \/ from = "idle" /\ to = "rd_test"
           \/ from = "rd_test" /\ to = "rd_wait"
           \/ from = "rd_wait" /\ to = "rd_test"
           \/ from = "wr_test" /\ to = "wr_wait"
           \/ from = "wr_wait" /\ to = "wr_test"
           \/ from = "reading" /\ to = "rd_unlock"
           \/ from = "writing" /\ to = "wr_unlock"
    PROVE  /\ pc' \in [Threads -> Locations]
           /\ ReadHolders' = ReadHolders
           /\ WriteHolders' = WriteHolders
           /\ PendingWriters' = PendingWriters
<1>1. pc \in [Threads -> Locations] BY DEF LockInv, TypeOK
<1>2. pc' \in [Threads -> Locations] BY <1>1 DEF Goto, Locations
<1>3. ReadHolders' = ReadHolders BY <1>1 DEF Goto, ReadHolders, At
<1>4. WriteHolders' = WriteHolders BY <1>1 DEF Goto, WriteHolders, At
<1>5. PendingWriters' = PendingWriters BY <1>1 DEF Goto, PendingWriters, At
<1> QED BY <1>2, <1>3, <1>4, <1>5

LEMMA RdLockStep == ASSUME LockInv, NEW t \in Threads, RdLock(t) PROVE LockInv'
<1>1. /\ pc' \in [Threads -> Locations] /\ ReadHolders' = ReadHolders
      /\ WriteHolders' = WriteHolders /\ PendingWriters' = PendingWriters
  BY SameRoles DEF RdLock
<1>2. ops' \in [Threads -> 0 .. OpsPerThread]
  BY BoundsAssumption DEF LockInv, TypeOK, RdLock
<1>3. TypeOK'
  BY <1>1, <1>2 DEF LockInv, TypeOK, RdLock, TakeMutex, counters, waitSets
<1>4. SleepersWait'
  BY DEF LockInv, TypeOK, SleepersWait, RdLock, Goto, waitSets, At
<1>5. CountersMatch' /\ Exclusion' /\ NoLostWakeup'
  BY <1>1 DEF LockInv, CountersMatch, Exclusion, NoLostWakeup, RdLock, counters,
              waitSets
<1> QED BY <1>4, <1>5, <1>3 DEF LockInv

LEMMA RdWaitStep == ASSUME LockInv, NEW t \in Threads, RdWait(t) PROVE LockInv'
<1>1. /\ pc' \in [Threads -> Locations] /\ ReadHolders' = ReadHolders
      /\ WriteHolders' = WriteHolders /\ PendingWriters' = PendingWriters
  BY SameRoles DEF RdWait
<1>2. TypeOK' BY <1>1 DEF LockInv, TypeOK, RdWait, DropMutex, counters
<1>3. SleepersWait' BY DEF LockInv, TypeOK, SleepersWait, RdWait, Goto, At
<1>4. CountersMatch' /\ Exclusion'
  BY <1>1 DEF LockInv, CountersMatch, Exclusion, RdWait, counters
<1>5. WriteHolders \cup PendingWriters # {}
  BY HoldersCounted DEF LockInv, CountersMatch, RdWait, ReadBlocked
<1>6. NoLostWakeup' BY <1>1, <1>5 DEF LockInv, NoLostWakeup, RdWait
<1> QED BY <1>2, <1>3, <1>4, <1>6 DEF LockInv

LEMMA RdWakeStep == ASSUME LockInv, NEW t \in Threads, RdWake(t) PROVE LockInv'
<1>1. /\ pc' \in [Threads -> Locations] /\ ReadHolders' = ReadHolders
      /\ WriteHolders' = WriteHolders /\ PendingWriters' = PendingWriters
  BY SameRoles DEF RdWake
<1>2. TypeOK' BY <1>1 DEF LockInv, TypeOK, RdWake, TakeMutex, counters, waitSets
<1>3. SleepersWait'
  BY DEF LockInv, TypeOK, SleepersWait, RdWake, Goto, waitSets, At
<1>4. CountersMatch' /\ Exclusion' /\ NoLostWakeup'
  BY <1>1 DEF LockInv, CountersMatch, Exclusion, NoLostWakeup, RdWake, counters,
              waitSets
<1> QED BY <1>2, <1>3, <1>4 DEF LockInv

(* A reader is let in: no writer holds the lock, for writers = 0. *)
LEMMA RdTakeStep == ASSUME LockInv, NEW t \in Threads, RdTake(t) PROVE LockInv'
<1>1. pc \in [Threads -> Locations] BY DEF LockInv, TypeOK
<1>2. pc' \in [Threads -> Locations] BY <1>1 DEF RdTake, Goto, Locations
<1>3. /\ ReadHolders' = ReadHolders \cup {t}
      /\ Cardinality(ReadHolders') = Cardinality(ReadHolders) + 1
  BY <1>1, AtJoin DEF RdTake, Goto, ReadHolders
<1>4. WriteHolders' = WriteHolders
  BY <1>1, AtStay DEF RdTake, Goto, WriteHolders
<1>5. PendingWriters' = PendingWriters
  BY <1>1, AtStay DEF RdTake, Goto, PendingWriters
<1>6. writers = 0
  BY DEF LockInv, TypeOK, RdTake, ReadBlocked
<1>7. WriteHolders = {} BY <1>6, HoldersCounted DEF LockInv, CountersMatch
<1>8. TypeOK' BY <1>2 DEF LockInv, TypeOK, RdTake, DropMutex, waitSets
<1>9. SleepersWait'
  BY DEF LockInv, TypeOK, SleepersWait, RdTake, Goto, waitSets, At
<1>10. CountersMatch'
  BY <1>3, <1>4, <1>5 DEF LockInv, CountersMatch, RdTake
<1>11. Exclusion' BY <1>4, <1>7 DEF LockInv, Exclusion
<1>12. NoLostWakeup'
  BY <1>3, <1>4, <1>5 DEF LockInv, NoLostWakeup, RdTake, waitSets
<1> QED BY <1>8, <1>9, <1>10, <1>11, <1>12 DEF LockInv

LEMMA WrLockStep == ASSUME LockInv, NEW t \in Threads, WrLock(t) PROVE LockInv'
<1>1. pc \in [Threads -> Locations] BY DEF LockInv, TypeOK
<1>2. pc' \in [Threads -> Locations] BY <1>1 DEF WrLock, Goto, Locations
<1>3. ReadHolders' = ReadHolders BY <1>1, AtStay DEF WrLock, Goto, ReadHolders
<1>4. WriteHolders' = WriteHolders BY <1>1, AtStay DEF WrLock, Goto, WriteHolders
<1>5. /\ PendingWriters' = PendingWriters \cup {t}
      /\ Cardinality(PendingWriters') = Cardinality(PendingWriters) + 1
  BY <1>1, AtJoin DEF WrLock, Goto, PendingWriters
<1>6. ops' \in [Threads -> 0 .. OpsPerThread]
  BY BoundsAssumption DEF LockInv, TypeOK, WrLock
<1>7. TypeOK' BY <1>2, <1>6 DEF LockInv, TypeOK, WrLock, TakeMutex, waitSets
<1>8. SleepersWait'
  BY DEF LockInv, TypeOK, SleepersWait, WrLock, Goto, waitSets, At
<1>9. CountersMatch' BY <1>3, <1>4, <1>5 DEF LockInv, CountersMatch, WrLock
<1>10. Exclusion' BY <1>3, <1>4 DEF LockInv, Exclusion
<1>11. NoLostWakeup'
  BY <1>3, <1>4, <1>5 DEF LockInv, NoLostWakeup, WrLock, waitSets
<1> QED BY <1>7, <1>8, <1>9, <1>10, <1>11 DEF LockInv

LEMMA WrWaitStep == ASSUME LockInv, NEW t \in Threads, WrWait(t) PROVE LockInv'
<1>1. /\ pc' \in [Threads -> Locations] /\ ReadHolders' = ReadHolders
      /\ WriteHolders' = WriteHolders /\ PendingWriters' = PendingWriters
  BY SameRoles DEF WrWait
<1>2. TypeOK' BY <1>1 DEF LockInv, TypeOK, WrWait, DropMutex, counters
<1>3. SleepersWait' BY DEF LockInv, TypeOK, SleepersWait, WrWait, Goto, At
<1>4. CountersMatch' /\ Exclusion'
  BY <1>1 DEF LockInv, CountersMatch, Exclusion, WrWait, counters
<1>5. ReadHolders \cup WriteHolders # {}
  BY HoldersCounted DEF LockInv, CountersMatch, WrWait, WriteBlocked
<1>6. t \in PendingWriters BY DEF WrWait, Goto, PendingWriters, At
<1>7. NoLostWakeup' BY <1>1, <1>5, <1>6 DEF NoLostWakeup
<1> QED BY <1>2, <1>3, <1>4, <1>7 DEF LockInv

LEMMA WrWakeStep == ASSUME LockInv, NEW t \in Threads, WrWake(t) PROVE LockInv'
<1>1. /\ pc' \in [Threads -> Locations] /\ ReadHolders' = ReadHolders
      /\ WriteHolders' = WriteHolders /\ PendingWriters' = PendingWriters
  BY SameRoles DEF WrWake
<1>2. TypeOK' BY <1>1 DEF LockInv, TypeOK, WrWake, TakeMutex, counters, waitSets
<1>3. SleepersWait'
  BY DEF LockInv, TypeOK, SleepersWait, WrWake, Goto, waitSets, At
<1>4. CountersMatch' /\ Exclusion' /\ NoLostWakeup'
  BY <1>1 DEF LockInv, CountersMatch, Exclusion, NoLostWakeup, WrWake, counters,
              waitSets
<1> QED BY <1>2, <1>3, <1>4 DEF LockInv

(* A writer is let in: nobody holds the lock, for both counters are 0. *)
LEMMA WrTakeStep == ASSUME LockInv, NEW t \in Threads, WrTake(t) PROVE LockInv'
<1>1. pc \in [Threads -> Locations] BY DEF LockInv, TypeOK
<1>2. pc' \in [Threads -> Locations] BY <1>1 DEF WrTake, Goto, Locations
<1>3. ReadHolders' = ReadHolders BY <1>1, AtStay DEF WrTake, Goto, ReadHolders
<1>4. /\ WriteHolders' = WriteHolders \cup {t}
      /\ Cardinality(WriteHolders') = Cardinality(WriteHolders) + 1
  BY <1>1, AtJoin DEF WrTake, Goto, WriteHolders
<1>5. /\ PendingWriters' = PendingWriters \ {t}
      /\ Cardinality(PendingWriters') = Cardinality(PendingWriters) - 1
      /\ t \in PendingWriters
  <2>1. /\ pc' = [pc EXCEPT ![t] = "writing"]
        /\ pc[t] \in {"wr_test", "wr_wait"} /\ "writing" \notin {"wr_test", "wr_wait"}
    BY DEF WrTake, Goto
  <2> QED BY <1>1, <2>1, AtLeave DEF PendingWriters
<1>6. readers = 0 /\ writers = 0 BY DEF LockInv, TypeOK, WrTake, WriteBlocked
<1>7. ReadHolders = {} /\ Cardinality(WriteHolders) = 0
  BY <1>6, HoldersCounted DEF LockInv, CountersMatch
<1>8. waiting_writers - 1 \in Nat
  BY <1>5, HoldersCounted DEF LockInv, CountersMatch
<1>9. TypeOK' BY <1>2, <1>8 DEF LockInv, TypeOK, WrTake, DropMutex, waitSets
<1>10. SleepersWait'
  BY DEF LockInv, TypeOK, SleepersWait, WrTake, Goto, waitSets, At
<1>11. CountersMatch' BY <1>3, <1>4, <1>5 DEF LockInv, CountersMatch, WrTake
<1>12. Exclusion' BY <1>3, <1>4, <1>7 DEF Exclusion
<1>13. NoLostWakeup' BY <1>4 DEF NoLostWakeup
<1> QED BY <1>9, <1>10, <1>11, <1>12, <1>13 DEF LockInv

LEMMA UnlockEnterStep ==
    ASSUME LockInv, NEW t \in Threads, UnlockEnter(t) PROVE LockInv'
<1>1. /\ pc' \in [Threads -> Locations] /\ ReadHolders' = ReadHolders
      /\ WriteHolders' = WriteHolders /\ PendingWriters' = PendingWriters
  BY SameRoles DEF UnlockEnter
<1>2. TypeOK'
  BY <1>1 DEF LockInv, TypeOK, UnlockEnter, TakeMutex, counters, waitSets
<1>3. SleepersWait'
  BY DEF LockInv, TypeOK, SleepersWait, UnlockEnter, Goto, waitSets, At
<1>4. CountersMatch' /\ Exclusion' /\ NoLostWakeup'
  BY <1>1 DEF LockInv, CountersMatch, Exclusion, NoLostWakeup, UnlockEnter,
              counters, waitSets
<1> QED BY <1>2, <1>3, <1>4 DEF LockInv

--------------------------------------------------------------------------------
(* rwlock_unlock: the guess about the kind of holder is right. *)

LEMMA UnlockByReader ==
    ASSUME LockInv, NEW t \in Threads, Unlock(t), pc[t] = "rd_unlock"
    PROVE  /\ pc' \in [Threads -> Locations]
           /\ readers' = readers - 1 /\ readers' \in Nat
           /\ writers' = writers /\ waiting_writers' = waiting_writers
           /\ ReadHolders' = ReadHolders \ {t} /\ WriteHolders' = WriteHolders
           /\ PendingWriters' = PendingWriters
           /\ Cardinality(ReadHolders') = readers'
           /\ t \in ReadHolders /\ WriteHolders = {}
<1>1. pc \in [Threads -> Locations] BY DEF LockInv, TypeOK
<1>2. pc' = [pc EXCEPT ![t] = "idle"] BY DEF Unlock, Goto
<1>3. pc' \in [Threads -> Locations] BY <1>1, <1>2 DEF Locations
<1>4. /\ ReadHolders' = ReadHolders \ {t} /\ t \in ReadHolders
      /\ Cardinality(ReadHolders') = Cardinality(ReadHolders) - 1
  <2>1. pc[t] \in {"reading", "rd_unlock"} /\ "idle" \notin {"reading", "rd_unlock"}
    OBVIOUS
  <2> QED BY <1>1, <1>2, <2>1, AtLeave DEF ReadHolders
<1>5. WriteHolders' = WriteHolders BY <1>1, <1>2, AtStay DEF WriteHolders
<1>6. PendingWriters' = PendingWriters BY <1>1, <1>2, AtStay DEF PendingWriters
<1>7. WriteHolders = {} BY <1>4 DEF LockInv, Exclusion
<1>8. writers = 0 BY <1>7, HoldersCounted DEF LockInv, CountersMatch
<1>9. /\ readers' = readers - 1 /\ writers' = writers
      /\ waiting_writers' = waiting_writers
  BY <1>8 DEF Unlock, LeaveCounters
<1>10. Cardinality(ReadHolders') = readers' /\ readers' \in Nat
  BY <1>4, <1>9, HoldersCounted DEF LockInv, TypeOK, CountersMatch
<1> QED BY <1>3, <1>4, <1>5, <1>6, <1>7, <1>9, <1>10

LEMMA UnlockByWriter ==
    ASSUME LockInv, NEW t \in Threads, Unlock(t), pc[t] = "wr_unlock"
    PROVE  /\ pc' \in [Threads -> Locations]
           /\ readers' = readers /\ readers = 0 /\ ReadHolders = {}
           /\ writers' = 0 /\ waiting_writers' = waiting_writers
           /\ ReadHolders' = ReadHolders
           /\ WriteHolders' = {} /\ WriteHolders' = WriteHolders \ {t}
           /\ PendingWriters' = PendingWriters
           /\ Cardinality(WriteHolders') = 0
<1>1. pc \in [Threads -> Locations] BY DEF LockInv, TypeOK
<1>2. pc' = [pc EXCEPT ![t] = "idle"] BY DEF Unlock, Goto
<1>3. pc' \in [Threads -> Locations] BY <1>1, <1>2 DEF Locations
<1>4. /\ WriteHolders' = WriteHolders \ {t} /\ t \in WriteHolders
      /\ Cardinality(WriteHolders') = Cardinality(WriteHolders) - 1
  <2>1. pc[t] \in {"writing", "wr_unlock"} /\ "idle" \notin {"writing", "wr_unlock"}
    OBVIOUS
  <2> QED BY <1>1, <1>2, <2>1, AtLeave DEF WriteHolders
<1>5. ReadHolders' = ReadHolders BY <1>1, <1>2, AtStay DEF ReadHolders
<1>6. PendingWriters' = PendingWriters BY <1>1, <1>2, AtStay DEF PendingWriters
<1>7. Cardinality(WriteHolders) = 1
  BY <1>4, HoldersCounted DEF LockInv, Exclusion
<1>8. IsFiniteSet(WriteHolders') BY <1>4, AtFinite, FS_Subset DEF WriteHolders
<1>9. Cardinality(WriteHolders') = 0 /\ WriteHolders' = {}
  BY <1>4, <1>7, <1>8, FS_EmptySet
<1>10. ReadHolders = {} /\ readers = 0
  BY <1>4, HoldersCounted DEF LockInv, Exclusion, CountersMatch
<1>11. /\ readers' = readers /\ writers' = 0
       /\ waiting_writers' = waiting_writers
  BY <1>7 DEF LockInv, CountersMatch, Unlock, LeaveCounters
<1> QED BY <1>3, <1>4, <1>5, <1>6, <1>9, <1>10, <1>11

(* The wake-up of an unlock takes threads out of the wait sets, and out of one   *)
(* of them only.                                                                 *)
LEMMA WakeShrinks ==
    ASSUME WakeNext
    PROVE  readers_ok' \subseteq readers_ok /\ writers_ok' \subseteq writers_ok
BY DEF WakeNext, SignalWriter, BroadcastReaders

LEMMA UnlockStep == ASSUME LockInv, NEW t \in Threads, Unlock(t) PROVE LockInv'
<1>1. pc[t] \in {"rd_unlock", "wr_unlock"} BY DEF Unlock, Goto
<1>2. /\ pc' \in [Threads -> Locations]
      /\ readers' \in Nat /\ writers' \in Nat /\ waiting_writers' = waiting_writers
      /\ PendingWriters' = PendingWriters
      /\ ReadHolders' \subseteq ReadHolders /\ WriteHolders' = {}
      /\ Cardinality(ReadHolders') = readers' /\ Cardinality(WriteHolders') = writers'
      /\ Cardinality(WriteHolders') = 0
      /\ readers' = 0 <=> ReadHolders' = {}
  <2>1. CASE pc[t] = "rd_unlock"
    <3>1. IsFiniteSet(ReadHolders')
      BY <2>1, UnlockByReader, AtFinite, FS_Subset DEF ReadHolders
    <3> QED BY <2>1, <3>1, UnlockByReader, HoldersCounted, FS_EmptySet
            DEF LockInv, TypeOK, CountersMatch
  <2>2. CASE pc[t] = "wr_unlock"
    BY <2>2, UnlockByWriter, HoldersCounted DEF LockInv, TypeOK, CountersMatch
  <2> QED BY <1>1, <2>1, <2>2
<1>3. readers_ok' \subseteq readers_ok /\ writers_ok' \subseteq writers_ok
  BY WakeShrinks DEF Unlock
<1>4. TypeOK' BY <1>2, <1>3 DEF LockInv, TypeOK, Unlock, DropMutex
<1>5. SleepersWait'
  <2>1. \A s \in Threads : pc[s] \in {"rd_wait", "wr_wait"} => pc'[s] = pc[s]
    BY <1>1 DEF LockInv, TypeOK, Unlock, Goto
  <2> QED BY <1>3, <2>1 DEF LockInv, SleepersWait, At
<1>6. CountersMatch' BY <1>2 DEF LockInv, CountersMatch
<1>7. Exclusion' BY <1>2 DEF Exclusion
<1>8. NoLostWakeup'
  <2>1. WakeNext BY DEF Unlock
  <2>2. CASE waiting_writers > 0 /\ readers' = 0
    <3>1. SignalWriter BY <2>1, <2>2 DEF WakeNext
    <3>2. PendingWriters # {} BY <2>2, HoldersCounted DEF LockInv, CountersMatch
    <3>3. writers_ok' # {} => PendingWriters \ writers_ok' # {}
      <4>1. writers_ok \subseteq PendingWriters
        BY DEF LockInv, SleepersWait, PendingWriters, At
      <4> QED BY <3>1, <4>1 DEF SignalWriter
    <3> QED BY <1>2, <3>2, <3>3 DEF NoLostWakeup
  <2>3. CASE ~(waiting_writers > 0 /\ readers' = 0)
    <3>1. readers_ok' = {} /\ writers_ok' = writers_ok
      BY <2>1, <2>3 DEF WakeNext, BroadcastReaders
    <3>2. readers' # 0 \/ waiting_writers = 0 BY <2>3 DEF LockInv, TypeOK
    <3>3. writers_ok # {} => waiting_writers # 0
      BY HoldersCounted DEF LockInv, CountersMatch, SleepersWait, PendingWriters, At
    <3> QED BY <1>2, <3>1, <3>2, <3>3 DEF NoLostWakeup
  <2> QED BY <2>2, <2>3
<1> QED BY <1>4, <1>5, <1>6, <1>7, <1>8 DEF LockInv

LEMMA SpuriousStep ==
    ASSUME LockInv, NEW t \in Threads, SpuriousWakeup(t) PROVE LockInv'
<1>1. /\ ReadHolders' = ReadHolders /\ WriteHolders' = WriteHolders
      /\ PendingWriters' = PendingWriters
  BY DEF SpuriousWakeup, ReadHolders, WriteHolders, PendingWriters, At
<1>2. TypeOK'
  BY BoundsAssumption DEF LockInv, TypeOK, SpuriousWakeup, counters
<1>3. SleepersWait' BY DEF LockInv, SleepersWait, SpuriousWakeup, At
<1>4. CountersMatch' /\ Exclusion'
  BY <1>1 DEF LockInv, CountersMatch, Exclusion, SpuriousWakeup, counters
<1>5. NoLostWakeup' BY <1>1 DEF LockInv, NoLostWakeup, SpuriousWakeup
<1> QED BY <1>2, <1>3, <1>4, <1>5 DEF LockInv

LEMMA LockInvStep == LockInv /\ [Next]_vars => LockInv'
<1> SUFFICES ASSUME LockInv, [Next]_vars PROVE LockInv' OBVIOUS
<1>1. ASSUME NEW t \in Threads, ThreadStep(t) PROVE LockInv'
  BY <1>1, RdLockStep, RdWaitStep, RdWakeStep, RdTakeStep, WrLockStep, WrWaitStep,
     WrWakeStep, WrTakeStep, UnlockEnterStep, UnlockStep DEF ThreadStep
<1>2. ASSUME NEW t \in Threads, SpuriousWakeup(t) PROVE LockInv'
  BY <1>2, SpuriousStep
<1>3. ASSUME UNCHANGED vars PROVE LockInv'
  <2>1. /\ ReadHolders' = ReadHolders /\ WriteHolders' = WriteHolders
        /\ PendingWriters' = PendingWriters
    BY <1>3 DEF vars, ReadHolders, WriteHolders, PendingWriters, At
  <2>2. TypeOK' BY <1>3 DEF LockInv, TypeOK, vars
  <2>3. SleepersWait' BY <1>3 DEF LockInv, SleepersWait, vars, At
  <2>4. CountersMatch' /\ Exclusion' /\ NoLostWakeup'
    BY <1>3, <2>1 DEF LockInv, CountersMatch, Exclusion, NoLostWakeup, vars
  <2> QED BY <2>2, <2>3, <2>4 DEF LockInv
<1> QED BY <1>1, <1>2, <1>3 DEF Next, Joined

--------------------------------------------------------------------------------
(* The theorems. *)

(* Everything LockInv says holds in every state of the lock. *)
THEOREM LockInvariant == Spec => []LockInv
BY LockInvInit, LockInvStep, PTL DEF Spec

(* Every variable keeps its type; the three counters never go below zero,        *)
(* although rwlock_unlock and rwlock_wrlock decrement them unguarded             *)
(* (program_6_.c:63,73).                                                         *)
THEOREM TypeCorrect == Spec => []TypeOK
<1>1. LockInv => TypeOK BY DEF LockInv
<1> QED BY <1>1, LockInvariant, PTL

(* A writer is alone with the list (program_6_.c:45-81). *)
THEOREM MutualExclusion == Spec => []Exclusion
<1>1. LockInv => Exclusion BY DEF LockInv
<1> QED BY <1>1, LockInvariant, PTL

(* The counters count the holders and the waiting writers, so the guess of       *)
(* rwlock_unlock about whose lock it releases (program_6_.c:70-74) is right.     *)
THEOREM CountersCorrect == Spec => []CountersMatch
<1>1. LockInv => CountersMatch BY DEF LockInv
<1> QED BY <1>1, LockInvariant, PTL

(* Waking one side only (program_6_.c:75-79) loses no wake-up. *)
THEOREM WakeupsKept == Spec => []NoLostWakeup
<1>1. LockInv => NoLostWakeup BY DEF LockInv
<1> QED BY <1>1, LockInvariant, PTL

(* With writer_preference = 1 no reader overtakes a waiting writer               *)
(* (program_6_.c:47-49).                                                         *)
THEOREM WritersGoFirst == Spec => WriterPreference
<1> DEFINE Fair == \A r \in Threads :
          writer_preference = 1 /\ pc[r] = "rd_test" /\ pc'[r] = "reading"
             => PendingWriters = {}
<1>1. ASSUME LockInv, [Next]_vars PROVE [Fair]_vars
  <2> SUFFICES ASSUME Next, NEW r \in Threads, writer_preference = 1,
                      pc[r] = "rd_test", pc'[r] = "reading"
               PROVE  PendingWriters = {}
    BY <1>1
  <2>1. PICK t \in Threads : ThreadStep(t) \/ SpuriousWakeup(t)
    BY DEF Next, Joined, vars
  <2>2. RdTake(t)
    BY <1>1, <2>1 DEF LockInv, TypeOK, ThreadStep, SpuriousWakeup, Goto, RdLock, RdWait,
       RdWake, WrLock, WrWait, WrWake, WrTake, UnlockEnter, Unlock
  <2>3. waiting_writers = 0
    BY <1>1, <2>2 DEF LockInv, TypeOK, RdTake, ReadBlocked
  <2> QED BY <1>1, <2>3, HoldersCounted DEF LockInv, CountersMatch
<1> QED BY <1>1, LockInvariant, PTL DEF Spec, WriterPreference

--------------------------------------------------------------------------------
(* The lock of program_6_.c implements the read-write lock. *)

LEMMA NoHolderChange ==
    ASSUME ReadHolders' = ReadHolders, WriteHolders' = WriteHolders
    PROVE  UNCHANGED Abstract!lockVars
BY DEF Abstract!lockVars

LEMMA AbstractInit == Init => Abstract!LockInit
BY DEF Init, Abstract!LockInit, ReadHolders, WriteHolders, At

LEMMA RdTakeAcquires ==
    ASSUME LockInv, NEW t \in Threads, RdTake(t) PROVE Abstract!AcquireRead(t)
<1>1. pc \in [Threads -> Locations] BY DEF LockInv, TypeOK
<1>2. ReadHolders' = ReadHolders \cup {t} /\ t \notin ReadHolders
  BY <1>1, AtJoin DEF RdTake, Goto, ReadHolders
<1>3. WriteHolders' = WriteHolders BY <1>1, AtStay DEF RdTake, Goto, WriteHolders
<1>4. writers = 0 BY DEF LockInv, TypeOK, RdTake, ReadBlocked
<1>5. WriteHolders = {} BY <1>4, HoldersCounted DEF LockInv, CountersMatch
<1> QED BY <1>2, <1>3, <1>5 DEF Abstract!AcquireRead

LEMMA WrTakeAcquires ==
    ASSUME LockInv, NEW t \in Threads, WrTake(t) PROVE Abstract!AcquireWrite(t)
<1>1. pc \in [Threads -> Locations] BY DEF LockInv, TypeOK
<1>2. WriteHolders' = WriteHolders \cup {t}
  BY <1>1, AtJoin DEF WrTake, Goto, WriteHolders
<1>3. ReadHolders' = ReadHolders BY <1>1, AtStay DEF WrTake, Goto, ReadHolders
<1>4. readers = 0 /\ writers = 0
  BY DEF LockInv, TypeOK, WrTake, WriteBlocked
<1>5. ReadHolders = {} /\ WriteHolders = {}
  BY <1>4, HoldersCounted DEF LockInv, CountersMatch
<1> QED BY <1>2, <1>3, <1>5 DEF Abstract!AcquireWrite

LEMMA UnlockReleases ==
    ASSUME LockInv, NEW t \in Threads, Unlock(t) PROVE Abstract!Release(t)
<1>1. CASE pc[t] = "rd_unlock"
  <2>1. /\ ReadHolders' = ReadHolders \ {t} /\ t \in ReadHolders
        /\ WriteHolders' = WriteHolders /\ WriteHolders = {}
    BY <1>1, UnlockByReader
  <2> QED BY <2>1 DEF Abstract!Release
<1>2. CASE pc[t] = "wr_unlock"
  <2>1. /\ ReadHolders' = ReadHolders /\ ReadHolders = {}
        /\ WriteHolders' = WriteHolders \ {t}
    BY <1>2, UnlockByWriter
  <2>2. t \in WriteHolders BY <1>2 DEF WriteHolders, At
  <2> QED BY <2>1, <2>2 DEF Abstract!Release
<1> QED BY <1>1, <1>2 DEF Unlock, Goto

(* On the way into the lock and on the way out nobody takes or gives it back. *)
LEMMA HoldersKept ==
    ASSUME LockInv, NEW t \in Threads,
           RdLock(t) \/ RdWait(t) \/ RdWake(t) \/ WrLock(t) \/ WrWait(t) \/ WrWake(t)
             \/ UnlockEnter(t)
    PROVE  ReadHolders' = ReadHolders /\ WriteHolders' = WriteHolders
<1>1. CASE WrLock(t)
  <2>1. pc \in [Threads -> Locations] BY DEF LockInv, TypeOK
  <2> QED BY <1>1, <2>1, AtStay DEF WrLock, Goto, ReadHolders, WriteHolders
<1>2. CASE RdLock(t) \/ RdWait(t) \/ RdWake(t) \/ WrWait(t) \/ WrWake(t)
             \/ UnlockEnter(t)
  BY <1>2, SameRoles DEF RdLock, RdWait, RdWake, WrWait, WrWake, UnlockEnter
<1> QED BY <1>1, <1>2

LEMMA AbstractStep ==
    LockInv /\ [Next]_vars => [Abstract!LockNext]_(Abstract!lockVars)
<1> SUFFICES ASSUME LockInv, [Next]_vars
             PROVE  [Abstract!LockNext]_(Abstract!lockVars)
  OBVIOUS
<1>1. ASSUME NEW t \in Threads, SpuriousWakeup(t)
      PROVE  ReadHolders' = ReadHolders /\ WriteHolders' = WriteHolders
  BY <1>1 DEF SpuriousWakeup, ReadHolders, WriteHolders, At
<1>2. ASSUME UNCHANGED vars
      PROVE  ReadHolders' = ReadHolders /\ WriteHolders' = WriteHolders
  BY <1>2 DEF vars, ReadHolders, WriteHolders, At
<1>3. ASSUME NEW t \in Threads, ThreadStep(t)
      PROVE  [Abstract!LockNext]_(Abstract!lockVars)
  BY <1>3, RdTakeAcquires, WrTakeAcquires, UnlockReleases, HoldersKept, NoHolderChange
     DEF ThreadStep, Abstract!LockNext
<1> QED BY <1>1, <1>2, <1>3, NoHolderChange DEF Next, Joined

(* Every behaviour of the monitor of program_6_.c, seen through who holds the    *)
(* lock, is a behaviour of the abstract read-write lock: initial states map to   *)
(* initial states, every step to a step or a stutter.                            *)
THEOREM Refinement == Spec => ImplementsReadWriteLock
BY AbstractInit, AbstractStep, LockInvariant, PTL
   DEF Spec, ImplementsReadWriteLock, Abstract!LockSpec
================================================================================
