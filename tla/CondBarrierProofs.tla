---------------------------- MODULE CondBarrierProofs ---------------------------
(* Proofs about the two barriers of CondBarrier, for every number of threads and *)
(* of rounds.                                                                    *)
(*                                                                               *)
(* The counter, the wait set and the loop variables only make sense together:    *)
(* there is a number r, the times the barrier has opened, such that every thread *)
(* either has not arrived at barrier r + 1 yet (its loop variable is r), is      *)
(* asleep there, or was released from barrier r and has still to leave it.  No   *)
(* variable of the program holds r, so the invariant says that one exists.       *)
EXTENDS CondBarrier, FiniteSetTheorems, TLAPS

InRound(t, r) ==
    \/ pc[t] \in {"top", "locked"} /\ i[t] = r /\ t \notin ok_to_proceed
    \/ pc[t] = "wait" /\ t \in ok_to_proceed /\ i[t] = r
    \/ pc[t] \in {"wait", "out"} /\ t \notin ok_to_proceed /\ i[t] + 1 = r

Round(r) ==
    /\ r \in 0 .. Rounds
    /\ \A t \in Threads : InRound(t, r)
    /\ \A t \in Threads : pc[t] = "locked" \/ t \in ok_to_proceed => r < Rounds
    /\ barrier_thread_count = IF reusable \/ r = 0 THEN Cardinality(ok_to_proceed)
                                                   ELSE thread_count
    /\ Cardinality(ok_to_proceed) < thread_count

BarrierInv == TypeOK /\ \E r \in Nat : Round(r)

--------------------------------------------------------------------------------

LEMMA Counted ==
    ASSUME TypeOK
    PROVE  /\ IsFiniteSet(ok_to_proceed)
           /\ Cardinality(ok_to_proceed) \in Nat
           /\ thread_count \in Nat \ {0}
<1>1. IsFiniteSet(ok_to_proceed)
  BY BarrierThreadsAssumption, FS_Subset DEF TypeOK
<1>2. thread_count \in Nat /\ thread_count # 0
  BY BarrierThreadsAssumption, FS_CardinalityType, FS_EmptySet DEF thread_count
<1> QED BY <1>1, <1>2, FS_CardinalityType

LEMMA RoundsPositive == ASSUME TypeOK PROVE Rounds \in 1 .. BarrierCount
BY BarrierBoundsAssumption DEF TypeOK, Rounds

LEMMA BarrierInvInit == Init => BarrierInv
<1> SUFFICES ASSUME Init PROVE BarrierInv OBVIOUS
<1>1. thread_count \in Nat \ {0}
  BY BarrierThreadsAssumption, FS_CardinalityType, FS_EmptySet DEF thread_count
<1>2. TypeOK
  BY <1>1, BarrierBoundsAssumption DEF Init, TypeOK, Locations, thread_count
<1>3. Round(0)
  BY <1>1, <1>2, RoundsPositive, BarrierBoundsAssumption, FS_EmptySet
     DEF Init, Round, InRound
<1> QED BY <1>2, <1>3 DEF BarrierInv

LEMMA LockStep ==
    ASSUME TypeOK, NEW r \in Nat, Round(r), NEW t \in Threads, Lock(t)
    PROVE  TypeOK' /\ Round(r)'
<1>1. TypeOK' BY DEF TypeOK, Lock, Goto, Locations
<1>2. i[t] = r BY DEF Round, InRound, Lock, Goto
<1>3. \A u \in Threads : InRound(u, r)'
  BY DEF TypeOK, Round, InRound, Lock, Goto
<1>4. \A u \in Threads : pc'[u] = "locked" \/ u \in ok_to_proceed' => r < Rounds
  BY <1>2 DEF TypeOK, Round, Lock, Goto
<1>5. UNCHANGED <<Rounds, reusable, barrier_thread_count, ok_to_proceed>>
  BY DEF Lock, Rounds
<1> QED BY <1>1, <1>3, <1>4, <1>5 DEF Round, thread_count

LEMMA ArriveNotLastStep ==
    ASSUME TypeOK, NEW r \in Nat, Round(r), NEW t \in Threads, ArriveNotLast(t)
    PROVE  TypeOK' /\ Round(r)'
<1>1. pc[t] = "locked" /\ i[t] = r /\ t \notin ok_to_proceed /\ r < Rounds
  BY DEF Round, InRound, ArriveNotLast, Goto
<1>2. reusable \/ r = 0 BY <1>1 DEF Rounds
<1>3. Cardinality(ok_to_proceed') = Cardinality(ok_to_proceed) + 1
  BY <1>1, Counted, FS_AddElement DEF ArriveNotLast
<1>4. barrier_thread_count = Cardinality(ok_to_proceed)
  BY <1>2 DEF Round
<1>5. Cardinality(ok_to_proceed') < thread_count
  BY <1>3, <1>4, Counted DEF Round, ArriveNotLast, IsLast
<1>6. barrier_thread_count' = Cardinality(ok_to_proceed')
  BY <1>3, <1>4 DEF ArriveNotLast
<1>7. TypeOK'
  BY <1>3, <1>5, <1>6, Counted DEF TypeOK, ArriveNotLast, Goto, Locations, thread_count
<1>8. \A u \in Threads : InRound(u, r)'
  BY <1>1 DEF TypeOK, Round, InRound, ArriveNotLast, Goto
<1>9. UNCHANGED <<Rounds, reusable>> BY DEF ArriveNotLast, Rounds
<1>10. \A u \in Threads : pc'[u] = "locked" \/ u \in ok_to_proceed' => r < Rounds'
  BY <1>1, <1>9 DEF TypeOK, Round, ArriveNotLast, Goto
<1> QED BY <1>2, <1>5, <1>6, <1>7, <1>8, <1>9, <1>10 DEF Round, thread_count

(* The last arrival: everybody else is asleep, so everybody is released at once. *)
LEMMA OpenBarrierStep ==
    ASSUME TypeOK, NEW r \in Nat, Round(r), NEW t \in Threads, OpenBarrier(t),
           barrier_thread_count' =
               IF reusable THEN 0 ELSE barrier_thread_count + 1
    PROVE  TypeOK' /\ Round(r + 1)'
<1>1. pc[t] = "locked" /\ i[t] = r /\ t \notin ok_to_proceed /\ r < Rounds
  BY DEF Round, InRound, OpenBarrier, Goto
<1>2. barrier_thread_count = Cardinality(ok_to_proceed)
  BY <1>1 DEF Round, Rounds
<1>3. Cardinality(Threads \ {t}) = thread_count - 1
  BY BarrierThreadsAssumption, FS_RemoveElement DEF thread_count
<1>4. ok_to_proceed = Threads \ {t}
  <2>1. ok_to_proceed \in SUBSET (Threads \ {t}) BY <1>1 DEF TypeOK
  <2>2. IsFiniteSet(Threads \ {t})
    BY BarrierThreadsAssumption, FS_RemoveElement
  <2>3. Cardinality(ok_to_proceed) = Cardinality(Threads \ {t})
    BY <1>2, <1>3, Counted DEF OpenBarrier, IsLast
  <2> QED BY <2>1, <2>2, <2>3, FS_Subset
<1>5. \A u \in Threads : i[u] = r
  BY <1>1, <1>4 DEF Round, InRound
<1>6. \A u \in Threads : u # t => pc[u] = "wait"
  BY <1>4 DEF Round, InRound
<1>7. UNCHANGED <<Rounds, reusable, i>> BY DEF OpenBarrier, Rounds
<1>8. barrier_thread_count' = IF reusable THEN 0 ELSE thread_count
  BY <1>2, Counted DEF OpenBarrier, IsLast
<1>9. TypeOK'
  BY <1>8, Counted DEF TypeOK, OpenBarrier, Goto, Locations, thread_count
<1>10. \A u \in Threads : InRound(u, r + 1)'
  BY <1>1, <1>5, <1>6, <1>7 DEF TypeOK, InRound, OpenBarrier, Goto
<1>11. \A u \in Threads : ~(pc'[u] = "locked" \/ u \in ok_to_proceed')
  BY <1>6 DEF TypeOK, OpenBarrier, Goto
<1>12. Cardinality(ok_to_proceed') = 0 BY FS_EmptySet DEF OpenBarrier
<1>13. r + 1 \in 0 .. Rounds' BY <1>1, <1>7, RoundsPositive
<1> QED BY <1>7, <1>8, <1>9, <1>10, <1>11, <1>12, <1>13, Counted
        DEF Round, thread_count

LEMMA WaitReturnsStep ==
    ASSUME TypeOK, NEW r \in Nat, Round(r), NEW t \in Threads, WaitReturns(t)
    PROVE  TypeOK' /\ Round(r)'
<1>1. TypeOK' BY DEF TypeOK, WaitReturns, Goto, Locations
<1>2. \A u \in Threads : InRound(u, r)'
  BY DEF TypeOK, Round, InRound, WaitReturns, Goto
<1>3. UNCHANGED <<Rounds, reusable, barrier_thread_count, ok_to_proceed>>
  BY DEF WaitReturns, Rounds
<1>4. \A u \in Threads : pc'[u] = "locked" \/ u \in ok_to_proceed' => r < Rounds'
  BY <1>3 DEF TypeOK, Round, WaitReturns, Goto
<1> QED BY <1>1, <1>2, <1>3, <1>4 DEF Round, thread_count

LEMMA UnlockStep ==
    ASSUME TypeOK, NEW r \in Nat, Round(r), NEW t \in Threads, Unlock(t)
    PROVE  TypeOK' /\ Round(r)'
<1>1. i[t] + 1 = r /\ t \notin ok_to_proceed /\ r \in 0 .. BarrierCount
  BY RoundsPositive, BarrierBoundsAssumption DEF Round, InRound, Unlock, Goto
<1>2. TypeOK' BY <1>1, BarrierBoundsAssumption DEF TypeOK, Unlock, Goto, Locations
<1>3. \A u \in Threads : InRound(u, r)'
  BY <1>1 DEF TypeOK, Round, InRound, Unlock, Goto
<1>4. UNCHANGED <<Rounds, reusable, barrier_thread_count, ok_to_proceed>>
  BY DEF Unlock, Rounds
<1>5. \A u \in Threads : pc'[u] = "locked" \/ u \in ok_to_proceed' => r < Rounds'
  BY <1>4 DEF TypeOK, Round, Unlock, Goto
<1> QED BY <1>2, <1>3, <1>4, <1>5 DEF Round, thread_count

LEMMA BarrierInvStep == BarrierInv /\ [Next]_vars => BarrierInv'
<1> SUFFICES ASSUME BarrierInv, [Next]_vars PROVE BarrierInv' OBVIOUS
<1> PICK r \in Nat : Round(r) BY DEF BarrierInv
<1>1. TypeOK BY DEF BarrierInv
<1>2. ASSUME NEW t \in Threads, ThreadStep(t) PROVE BarrierInv'
  <2>1. CASE Lock(t) BY <1>1, <2>1, LockStep DEF BarrierInv
  <2>2. CASE ArriveNotLast(t) BY <1>1, <2>2, ArriveNotLastStep DEF BarrierInv
  <2>3. CASE ArriveLast(t) \/ ArriveLastOnce(t)
    <3>1. OpenBarrier(t) BY <2>3 DEF ArriveLast, ArriveLastOnce
    <3>2. barrier_thread_count' = IF reusable THEN 0 ELSE barrier_thread_count + 1
      BY <2>3 DEF ArriveLast, ArriveLastOnce, ResetCount, CountGoesOn
    <3>3. TypeOK' /\ Round(r + 1)' BY <1>1, <3>1, <3>2, OpenBarrierStep
    <3>4. r + 1 \in Nat OBVIOUS
    <3> QED BY <3>3, <3>4 DEF BarrierInv
  <2>4. CASE WaitReturns(t) BY <1>1, <2>4, WaitReturnsStep DEF BarrierInv
  <2>5. CASE Unlock(t) BY <1>1, <2>5, UnlockStep DEF BarrierInv
  <2> QED BY <1>2, <2>1, <2>2, <2>3, <2>4, <2>5 DEF ThreadStep
<1>3. ASSUME UNCHANGED vars PROVE BarrierInv'
  <2>1. TypeOK' BY <1>1, <1>3 DEF TypeOK, vars
  <2>2. Round(r)' BY <1>3 DEF Round, InRound, vars, Rounds, thread_count
  <2> QED BY <2>1, <2>2 DEF BarrierInv
<1> QED BY <1>2, <1>3 DEF Next, Joined

--------------------------------------------------------------------------------
(* The theorems. *)

(* The rounds stay in step, in every state. *)
THEOREM BarrierInvariant == Spec => []BarrierInv
BY BarrierInvInit, BarrierInvStep, PTL DEF Spec

(* Every variable keeps its type: the counter never passes thread_count, though  *)
(* it is tested for equality only (pth_cond_bar.c:101).                          *)
THEOREM BarrierTypeCorrect == Spec => []TypeOK
<1>1. BarrierInv => TypeOK BY DEF BarrierInv
<1> QED BY <1>1, BarrierInvariant, PTL

LEMMA InvSeparates == BarrierInv => Separation
<1> SUFFICES ASSUME BarrierInv, NEW t \in Threads, NEW u \in Threads
             PROVE  i[t] <= Arrived(u)
  BY DEF Separation
<1>1. PICK r \in Nat : Round(r) BY DEF BarrierInv
<1>2. i[t] \in Nat /\ i[u] \in Nat BY DEF BarrierInv, TypeOK
<1>3. i[t] <= r BY <1>1, <1>2 DEF Round, InRound
<1>4. r <= Arrived(u) BY <1>1, <1>2 DEF Round, InRound, Arrived
<1>5. Arrived(u) \in Nat BY <1>2 DEF Arrived
<1> QED BY <1>2, <1>3, <1>4, <1>5

(* Nobody leaves a barrier before everybody has arrived there                    *)
(* (pth_cond_bar.c:98-121).                                                      *)
THEOREM BarrierSeparates == Spec => []Separation
BY InvSeparates, BarrierInvariant, PTL

LEMMA InvAwaits == BarrierInv => SleepersAwaitSomebody
<1> SUFFICES ASSUME BarrierInv, NEW t \in ok_to_proceed
             PROVE  \E u \in Threads : Arrived(u) < Arrived(t)
  BY DEF SleepersAwaitSomebody
<1>1. PICK r \in Nat : Round(r) BY DEF BarrierInv
<1>2. TypeOK BY DEF BarrierInv
<1>3. PICK u \in Threads : u \notin ok_to_proceed
  BY <1>1, <1>2, Counted DEF Round, TypeOK, thread_count
<1>4. Arrived(t) = r + 1 BY <1>1, <1>2 DEF Round, InRound, Arrived, TypeOK
<1>5. Arrived(u) = r BY <1>1, <1>2, <1>3 DEF Round, InRound, Arrived, TypeOK
<1> QED BY <1>4, <1>5

(* A thread asleep waits for one that has still to arrive                        *)
(* (pth_cond_bar.c:101-108).                                                     *)
THEOREM NobodyStranded == Spec => []SleepersAwaitSomebody
BY InvAwaits, BarrierInvariant, PTL

--------------------------------------------------------------------------------
(* The refinement of the abstract barrier. *)

LEMMA BarrierAbstractInit == Init => Abstract!BarrierInit
BY DEF Init, Abstract!BarrierInit, Arrived

LEMMA BarrierAbstractStep ==
    BarrierInv /\ [Next]_vars => [Abstract!BarrierNext]_(Abstract!barrierVars)
<1> SUFFICES ASSUME BarrierInv, [Next]_vars
             PROVE  [Abstract!BarrierNext]_(Abstract!barrierVars)
  OBVIOUS
<1> PICK r \in Nat : Round(r) BY DEF BarrierInv
<1> DEFINE arrived == [t \in Threads |-> Arrived(t)]
<1>1. TypeOK BY DEF BarrierInv
<1>2. ASSUME NEW t \in Threads, ArriveNotLast(t) \/ OpenBarrier(t)
      PROVE  Abstract!Arrive(t)
  <2>1. pc[t] = "locked" /\ i[t] = r /\ r < Rounds
    BY <1>2 DEF Round, InRound, ArriveNotLast, OpenBarrier, Goto
  <2>2. r < BarrierCount BY <1>1, <2>1, RoundsPositive, BarrierBoundsAssumption
  <2>3. i' = i BY <1>2 DEF ArriveNotLast, OpenBarrier
  <2>4. \A u \in Threads : Arrived(u)' = IF u = t THEN Arrived(u) + 1 ELSE Arrived(u)
    BY <1>1, <1>2, <2>1, <2>3 DEF TypeOK, Arrived, ArriveNotLast, OpenBarrier, Goto
  <2>5. arrived' = [arrived EXCEPT ![t] = @ + 1] BY <2>4
  <2>6. arrived[t] = i[t] /\ arrived[t] < BarrierCount
    BY <1>1, <2>1, <2>2 DEF Arrived, TypeOK
  <2> QED BY <2>3, <2>5, <2>6 DEF Abstract!Arrive
<1>3. ASSUME NEW t \in Threads, Unlock(t) PROVE Abstract!Leave(t)
  <2>1. pc[t] = "out" /\ i[t] + 1 = r BY <1>3 DEF Round, InRound, Unlock, Goto
  <2>2. \A u \in Threads : Arrived(u)' = Arrived(u)
    BY <1>1, <1>3, <2>1 DEF TypeOK, Arrived, Unlock, Goto
  <2>3. arrived' = arrived BY <2>2
  <2>4. \A u \in Threads : arrived[u] >= arrived[t]
    BY <1>1, <2>1 DEF TypeOK, Round, InRound, Arrived
  <2>5. i[t] < arrived[t] BY <1>1, <2>1 DEF Arrived, TypeOK
  <2>6. i' = [i EXCEPT ![t] = @ + 1] BY <1>3 DEF Unlock
  <2> QED BY <2>3, <2>4, <2>5, <2>6 DEF Abstract!Leave
<1>4. ASSUME NEW t \in Threads, Lock(t) \/ WaitReturns(t)
      PROVE  UNCHANGED Abstract!barrierVars
  <2>1. \A u \in Threads : Arrived(u)' = Arrived(u)
    BY <1>1, <1>4 DEF TypeOK, Arrived, Lock, WaitReturns, Goto
  <2>2. i' = i BY <1>4 DEF Lock, WaitReturns
  <2> QED BY <2>1, <2>2 DEF Abstract!barrierVars
<1>5. ASSUME UNCHANGED vars PROVE UNCHANGED Abstract!barrierVars
  BY <1>5 DEF vars, Abstract!barrierVars, Arrived
<1>6. ASSUME NEW t \in Threads, ThreadStep(t)
      PROVE  [Abstract!BarrierNext]_(Abstract!barrierVars)
  BY <1>2, <1>3, <1>4, <1>6
     DEF ThreadStep, ArriveLast, ArriveLastOnce, Abstract!BarrierNext
<1> QED BY <1>5, <1>6 DEF Next, Joined

(* Both programs implement the barrier of Barrier.tla. *)
THEOREM BarrierRefinement == Spec => ImplementsBarrier
BY BarrierAbstractInit, BarrierAbstractStep, BarrierInvariant, PTL
   DEF Spec, ImplementsBarrier, Abstract!BarrierSpec
================================================================================
