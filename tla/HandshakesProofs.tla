----------------------------- MODULE HandshakesProofs ---------------------------
(* Proofs about the programs of Handshakes and about HandOverHand, whose threads  *)
(* are numbered like theirs, for any number of threads: an inductive invariant   *)
(* per program, and from these what each of them promises.                       *)
EXTENDS Handshakes, HandOverHand, FiniteSetTheorems, TLAPS

(* Each instance has its own copy of the set of ranks. *)
LEMMA SameRanks ==
    /\ SB!Ranks = Ranks /\ SP!Ranks = Ranks /\ MR!Ranks = Ranks /\ TK!Ranks = Ranks
    /\ SP!NoRank = NoRank
    /\ IsFiniteSet(Ranks) /\ Cardinality(Ranks) = thread_count
    /\ thread_count \in Nat \ {0} /\ 0 \in Ranks /\ NoRank \notin Ranks
    /\ Ranks \subseteq Nat
<1>1. thread_count \in Nat \ {0}
  BY RanksAssumption
<1>2. IsFiniteSet(Ranks) /\ Cardinality(Ranks) = thread_count
  BY <1>1, FS_Interval DEF Ranks
<1> QED
  BY <1>1, <1>2 DEF SB!Ranks, SP!Ranks, MR!Ranks, TK!Ranks, Ranks, NoRank, SP!NoRank

--------------------------------------------------------------------------------
(* The barrier of barrier_semaphores.c *)

(* The thread that arrives last posts for the others; afterwards it is known by  *)
(* its loop variable.                                                            *)
Poster(p) == sem_pc[p] = "posting" \/ j[p] > 0

Waiting == {r \in Ranks : sem_pc[r] = "wait"}

PassedBut(p) == {r \in Ranks \ {p} : sem_pc[r] = "reached"}

SomeoneOn == \E r \in Ranks : sem_pc[r] \in {"posting", "reached"}

SemAllArrived == \A r \in Ranks : sem_pc[r] \notin {"start", "test"}

(* count_sem is a mutex. *)
CountAlone ==
    /\ \A r \in Ranks : sem_pc[r] = "test" => count_sem = 0
    /\ \A r, u \in Ranks : sem_pc[r] = "test" /\ sem_pc[u] = "test" => r = u

(* One thread posts, and only after everybody has arrived. *)
OnePoster ==
    /\ \A p \in Ranks : Poster(p) => sem_pc[p] \in {"posting", "reached"}
    /\ \A p, q \in Ranks : Poster(p) /\ Poster(q) => p = q
    /\ SomeoneOn => SemAllArrived

(* Until then counter is the number of threads that wait; from then on a thread  *)
(* has passed for every post that is used up.  A single thread posts nothing.    *)
PostsCounted ==
    /\ ~SomeoneOn => sem_counter = Cardinality(Waiting)
    /\ \A p \in Ranks : Poster(p) => barrier_sem + Cardinality(PassedBut(p)) = j[p]
    /\ (\A p \in Ranks : ~Poster(p)) =>
          barrier_sem = 0 /\ (SomeoneOn => thread_count = 1)

SemInv == SB!TypeOK /\ CountAlone /\ OnePoster /\ PostsCounted

(* A set of ranks has a cardinality, at most thread_count of them. *)
LEMMA SetsOfRanks ==
    ASSUME NEW S, S \subseteq Ranks
    PROVE  /\ IsFiniteSet(S) /\ Cardinality(S) \in 0 .. thread_count
           /\ Cardinality(S) = thread_count => S = Ranks
           /\ \A x \in Ranks \ S : Cardinality(S \cup {x}) = Cardinality(S) + 1
<1>1. IsFiniteSet(S) /\ Cardinality(S) <= thread_count
  BY SameRanks, FS_Subset
<1>2. Cardinality(S) \in Nat
  BY <1>1, FS_CardinalityType
<1>3. Cardinality(S) = thread_count => S = Ranks
  BY SameRanks, FS_Subset
<1>4. \A x \in Ranks \ S : Cardinality(S \cup {x}) = Cardinality(S) + 1
  BY <1>1, FS_AddElement
<1> QED
  BY <1>1, <1>2, <1>3, <1>4, SameRanks

LEMMA SemInvInit == SB!Init => SemInv
<1> SUFFICES ASSUME SB!Init PROVE SemInv
  OBVIOUS
<1> USE SameRanks DEF SB!Init
<1>1. SB!TypeOK
  BY DEF SB!TypeOK, SB!Locations
<1>2. Waiting = {} /\ Cardinality(Waiting) = 0
  BY FS_EmptySet DEF Waiting
<1>3. CountAlone /\ OnePoster /\ PostsCounted
  BY <1>2 DEF CountAlone, OnePoster, PostsCounted, Poster, SomeoneOn
<1> QED
  BY <1>1, <1>3 DEF SemInv

(* Every step of a thread keeps the invariant. *)
LEMMA SemInvStep == ASSUME SemInv, NEW r \in Ranks, SB!ThreadStep(r) PROVE SemInv'
<1> USE SameRanks DEF SemInv, SB!TypeOK, SB!Locations
<1>1. CASE SB!WaitCount(r)
  <2> USE <1>1 DEF SB!WaitCount, SB!Goto
  <2>1. Waiting' = Waiting /\ SomeoneOn' = SomeoneOn /\ ~SomeoneOn
    BY DEF Waiting, SomeoneOn, OnePoster, SemAllArrived
  <2>2. SB!TypeOK' /\ CountAlone'
    BY DEF CountAlone
  <2>3. OnePoster'
    BY <2>1 DEF OnePoster, Poster, SomeoneOn
  <2>4. PostsCounted'
    BY <2>1, <2>3 DEF PostsCounted, OnePoster, Poster, SomeoneOn
  <2> QED
    BY <2>2, <2>3, <2>4
<1>2. CASE SB!ArriveLast(r)
  <2> USE <1>2 DEF SB!ArriveLast, SB!Goto, SB!IsLast
  <2>1. ~SomeoneOn
    BY DEF SomeoneOn, OnePoster, SemAllArrived
  <2>2. Waiting = Ranks \ {r}
    <3>1. Waiting \subseteq Ranks \ {r} /\ Cardinality(Waiting) = thread_count - 1
      BY <2>1 DEF Waiting, PostsCounted
    <3>2. Cardinality(Ranks \ {r}) = thread_count - 1 /\ IsFiniteSet(Ranks \ {r})
      BY FS_RemoveElement
    <3> QED
      BY <3>1, <3>2, FS_Subset
  <2>3. \A u \in Ranks : u # r => sem_pc[u] = "wait" /\ sem_pc'[u] = "wait"
    BY <2>2 DEF Waiting
  <2>4. SB!TypeOK' /\ CountAlone'
    BY <2>3 DEF CountAlone
  <2>5. \A u \in Ranks : j[u] = 0
    BY <2>3 DEF OnePoster, Poster
  <2>6. OnePoster'
    BY <2>3, <2>5 DEF OnePoster, Poster, SemAllArrived
  <2>7. PassedBut(r)' = {} /\ Cardinality(PassedBut(r)') = 0
    BY <2>3, FS_EmptySet DEF PassedBut
  <2>8. barrier_sem = 0 /\ SomeoneOn' /\ Poster(r)'
    BY <2>1, <2>3, <2>5 DEF PostsCounted, Poster, SomeoneOn
  <2>9. \A p \in Ranks \ {r} : ~Poster(p)'
    BY <2>3, <2>5 DEF Poster
  <2>10. PostsCounted'
    BY <2>5, <2>7, <2>8, <2>9 DEF PostsCounted
  <2> QED
    BY <2>4, <2>6, <2>10
<1>3. CASE SB!ArriveNotLast(r)
  <2> USE <1>3 DEF SB!ArriveNotLast, SB!Goto, SB!IsLast
  <2>1. ~SomeoneOn /\ ~SomeoneOn'
    BY DEF SomeoneOn, OnePoster, SemAllArrived
  <2>2. Waiting' = Waiting \cup {r} /\ r \notin Waiting /\ Waiting \subseteq Ranks
    BY DEF Waiting
  <2>3. Cardinality(Waiting') = Cardinality(Waiting) + 1
    BY <2>2, SetsOfRanks
  <2>4. SB!TypeOK' /\ CountAlone'
    BY DEF CountAlone
  <2>5. OnePoster'
    BY <2>1 DEF OnePoster, Poster
  <2>6. PostsCounted'
    BY <2>1, <2>3, <2>5 DEF PostsCounted, OnePoster, Poster, SomeoneOn
  <2> QED
    BY <2>4, <2>5, <2>6
<1>4. CASE SB!Post(r)
  <2> USE <1>4 DEF SB!Post, SB!OneForEachOther
  <2>1. Poster(r) /\ Poster(r)' /\ \A p \in Ranks \ {r} : ~Poster(p) /\ ~Poster(p)'
    BY DEF Poster, OnePoster
  <2>2. PassedBut(r)' = PassedBut(r) /\ Cardinality(PassedBut(r)) \in Nat
    BY SetsOfRanks DEF PassedBut
  <2>3. barrier_sem' + Cardinality(PassedBut(r))' = j'[r]
    BY <2>1, <2>2 DEF PostsCounted
  <2>4. SB!TypeOK' /\ CountAlone'
    BY <2>2, <2>3 DEF CountAlone
  <2>5. OnePoster'
    BY <2>1 DEF OnePoster, SomeoneOn, SemAllArrived
  <2>6. SomeoneOn'
    BY DEF SomeoneOn
  <2>7. PostsCounted'
    BY <2>1, <2>3, <2>6 DEF PostsCounted
  <2> QED
    BY <2>4, <2>5, <2>7
<1>5. CASE SB!PostedAll(r)
  <2> USE <1>5 DEF SB!PostedAll, SB!Goto, SB!OneForEachOther
  <2>1. Poster(r) /\ \A p \in Ranks \ {r} : ~Poster(p) /\ ~Poster(p)'
    BY DEF Poster, OnePoster
  <2>2. j[r] = thread_count - 1
    OBVIOUS
  <2>3. PassedBut(r)' = PassedBut(r) /\ Cardinality(PassedBut(r)) \in Nat
    BY SetsOfRanks DEF PassedBut
  <2>4. barrier_sem + Cardinality(PassedBut(r)) = j[r]
    BY <2>1 DEF PostsCounted
  <2>5. SB!TypeOK' /\ CountAlone'
    BY DEF CountAlone
  <2>6. OnePoster'
    BY <2>1 DEF OnePoster, Poster, SomeoneOn, SemAllArrived
  <2>7. SomeoneOn'
    BY DEF SomeoneOn
  <2>8. (\A p \in Ranks : ~Poster(p)') => barrier_sem' = 0 /\ thread_count = 1
    BY <2>2, <2>3, <2>4 DEF Poster
  <2>9. PostsCounted'
    BY <2>1, <2>3, <2>4, <2>7, <2>8 DEF PostsCounted
  <2> QED
    BY <2>5, <2>6, <2>9
<1>6. CASE SB!WaitBarrier(r)
  <2> USE <1>6 DEF SB!WaitBarrier, SB!Goto
  <2>1. PICK p \in Ranks : Poster(p)
    BY DEF PostsCounted
  <2>2. p # r /\ SomeoneOn /\ SomeoneOn'
    BY <2>1 DEF OnePoster, SomeoneOn
  <2>3. \A q \in Ranks : Poster(q)' <=> q = p
    BY <2>1, <2>2 DEF OnePoster, Poster
  <2>4. Cardinality(PassedBut(p)') = Cardinality(PassedBut(p)) + 1
    <3>1. PassedBut(p)' = PassedBut(p) \cup {r} /\ r \notin PassedBut(p)
      BY <2>2 DEF PassedBut
    <3> QED
      BY <3>1, SetsOfRanks DEF PassedBut
  <2>5. Cardinality(PassedBut(p)) \in Nat
    BY SetsOfRanks DEF PassedBut
  <2>6. barrier_sem' + Cardinality(PassedBut(p)') = j'[p]
    BY <2>1, <2>4, <2>5 DEF PostsCounted
  <2>7. SB!TypeOK' /\ CountAlone'
    BY DEF CountAlone
  <2>8. OnePoster'
    BY <2>2, <2>3 DEF OnePoster, Poster, SomeoneOn, SemAllArrived
  <2>9. PostsCounted'
    BY <2>2, <2>3, <2>6 DEF PostsCounted
  <2> QED
    BY <2>7, <2>8, <2>9
<1> QED
  BY <1>1, <1>2, <1>3, <1>4, <1>5, <1>6 DEF SB!ThreadStep

(* Every step of the program is a step of the abstract barrier or leaves its     *)
(* variables alone: giving count_sem back is arriving, the step to the printf is *)
(* leaving.                                                                      *)
LEMMA SemStepRefines ==
    ASSUME SemInv, SemInv', NEW r \in Ranks, SB!ThreadStep(r)
    PROVE  [SB!Abstract!BarrierNext]_(SB!Abstract!barrierVars)
<1> USE SameRanks DEF SemInv, SB!TypeOK, SB!Locations, SB!Goto
<1> DEFINE arrived == [u \in SB!Ranks |-> IF sem_pc[u] \in {"start", "test"} THEN 0 ELSE 1]
           passed == [u \in SB!Ranks |-> IF sem_pc[u] = "reached" THEN 1 ELSE 0]
<1>1. CASE SB!WaitCount(r) \/ SB!Post(r)
  <2>1. arrived' = arrived /\ passed' = passed
    BY <1>1 DEF SB!WaitCount, SB!Post
  <2> QED
    BY <2>1 DEF SB!Abstract!barrierVars
<1>2. CASE SB!ArriveLast(r) \/ SB!ArriveNotLast(r)
  <2>1. PICK to \in {"posting", "wait"} :
          sem_pc[r] = "test" /\ sem_pc' = [sem_pc EXCEPT ![r] = to]
    BY <1>2 DEF SB!ArriveLast, SB!ArriveNotLast
  <2>2. \A u \in SB!Ranks : sem_pc'[u] = IF u = r THEN to ELSE sem_pc[u]
    BY <2>1
  <2>3. arrived' = [arrived EXCEPT ![r] = 1] /\ passed' = passed
        /\ arrived[r] = 0 /\ passed[r] = 0 /\ r \in SB!Ranks
    <3> HIDE DEF SemInv, SB!TypeOK
    <3>1. r \in SB!Ranks
      BY SameRanks
    <3> QED
      BY <2>1, <2>2, <3>1
  <2>4. SB!Abstract!Arrive(r)
    <3>1. arrived' = [arrived EXCEPT ![r] = arrived[r] + 1] /\ passed' = passed
          /\ arrived[r] = passed[r] /\ arrived[r] < 1
      <4> HIDE DEF arrived, passed
      <4> QED
        BY <2>3
    <3> QED
      BY <3>1 DEF SB!Abstract!Arrive
  <2> QED
    BY <2>3, <2>4 DEF SB!Abstract!BarrierNext
<1>3. CASE SB!PostedAll(r) \/ SB!WaitBarrier(r)
  <2>1. \A u \in SB!Ranks : arrived[u] = 1
    <3>1. SomeoneOn'
      BY <1>3 DEF SB!PostedAll, SB!WaitBarrier, SomeoneOn
    <3>2. \A u \in Ranks : sem_pc[u] \notin {"start", "test"}
      BY <1>3, <3>1 DEF SB!PostedAll, SB!WaitBarrier, OnePoster, SemAllArrived
    <3> QED
      BY <3>2
  <2>2. PICK from \in {"posting", "wait"} :
          sem_pc[r] = from /\ sem_pc' = [sem_pc EXCEPT ![r] = "reached"]
    BY <1>3 DEF SB!PostedAll, SB!WaitBarrier
  <2>3. \A u \in SB!Ranks : sem_pc'[u] = IF u = r THEN "reached" ELSE sem_pc[u]
    BY <2>2
  <2>4. arrived' = arrived /\ passed' = [passed EXCEPT ![r] = 1]
        /\ passed[r] = 0 /\ arrived[r] = 1 /\ r \in SB!Ranks
    <3> HIDE DEF SemInv, SB!TypeOK
    <3>1. r \in SB!Ranks /\ arrived[r] = 1
      BY <2>1, SameRanks
    <3>2. passed' = [passed EXCEPT ![r] = 1] /\ passed[r] = 0
      BY <2>2, <2>3, <3>1
    <3>3. \A u \in SB!Ranks : sem_pc[u] \notin {"start", "test"}
                               /\ sem_pc'[u] \notin {"start", "test"}
      BY <2>1, <2>2, <2>3
    <3>4. arrived' = arrived
      BY <3>3
    <3> QED
      BY <3>1, <3>2, <3>4
  <2>5. SB!Abstract!Leave(r)
    <3>1. passed' = [passed EXCEPT ![r] = passed[r] + 1] /\ arrived' = arrived
          /\ passed[r] < arrived[r] /\ \A u \in SB!Ranks : arrived[u] >= arrived[r]
      <4> HIDE DEF arrived, passed
      <4> QED
        BY <2>1, <2>4
    <3> QED
      BY <3>1 DEF SB!Abstract!Leave
  <2> QED
    BY <2>4, <2>5 DEF SB!Abstract!BarrierNext
<1> QED
  BY <1>1, <1>2, <1>3 DEF SB!ThreadStep

--------------------------------------------------------------------------------
(* The barrier and the turns of barrier_busy_waiting_mutex.c *)

Counted == {r \in Ranks : spin_pc[r] \notin {"start", "counting"}}

SpinAllArrived == \A r \in Ranks : spin_pc[r] \notin {"start", "counting"}

(* counter++ runs under barrier_mutex: what it has read is still there.          *)
CounterHeld ==
    \A r \in Ranks :
        /\ spin_pc[r] = "counting" <=> barrier_mutex = r
        /\ spin_pc[r] = "counting" => loaded[r] = spin_counter

(* So the counter is exact, and who is past the spin has seen everybody counted. *)
CounterExact ==
    /\ spin_counter = Cardinality(Counted)
    /\ (\E r \in Ranks : spin_pc[r] \in {"turn", "active", "done"}) => SpinAllArrived

(* flag counts the threads that are done, until it comes back to 0.              *)
FlagInOrder ==
    /\ \/ \A r \in Ranks : spin_pc[r] = "done" <=> r < flag
       \/ flag = 0 /\ \A r \in Ranks : spin_pc[r] = "done"
    /\ \A r \in Ranks : spin_pc[r] = "active" => flag = r

SpinInv == SP!TypeOK /\ CounterHeld /\ CounterExact /\ FlagInOrder

LEMMA SpinInvInit == SP!Init => SpinInv
<1> SUFFICES ASSUME SP!Init PROVE SpinInv
  OBVIOUS
<1> USE SameRanks DEF SP!Init
<1>1. SP!TypeOK
  BY DEF SP!TypeOK, SP!Locations
<1>2. Counted = {} /\ Cardinality(Counted) = 0
  BY FS_EmptySet DEF Counted
<1>3. CounterHeld /\ CounterExact /\ FlagInOrder
  BY <1>2 DEF CounterHeld, CounterExact, FlagInOrder
<1> QED
  BY <1>1, <1>3 DEF SpinInv

(* (r + 1) % thread_count is the next rank, and the first after the last.        *)
LEMMA NextOfRank ==
    ASSUME NEW r \in Ranks
    PROVE  /\ (r + 1) % thread_count = IF r = thread_count - 1 THEN 0 ELSE r + 1
           /\ (r + 1) % thread_count \in Ranks
  BY RanksAssumption, SMT DEF Ranks

(* Every step of a spinning thread keeps the invariant.                          *)
LEMMA SpinInvStep == ASSUME SpinInv, NEW r \in Ranks, SP!ThreadStep(r) PROVE SpinInv'
<1> USE SameRanks DEF SpinInv, SP!TypeOK, SP!Locations, SP!Goto
<1>1. CASE SP!LoadCounter(r)
  <2> USE <1>1 DEF SP!LoadCounter, SP!CountLocked
  <2>1. Counted' = Counted
    BY DEF Counted
  <2>2. SP!TypeOK' /\ CounterHeld'
    BY DEF CounterHeld
  <2>3. CounterExact' /\ FlagInOrder'
    BY <2>1 DEF CounterExact, SpinAllArrived, FlagInOrder
  <2> QED
    BY <2>2, <2>3
<1>2. CASE SP!StoreCounter(r)
  <2> USE <1>2 DEF SP!StoreCounter
  <2>1. Cardinality(Counted') = Cardinality(Counted) + 1
    <3>1. Counted' = Counted \cup {r} /\ r \in Ranks \ Counted
      BY DEF Counted
    <3> QED
      BY <3>1, SetsOfRanks DEF Counted
  <2>2. spin_counter' = Cardinality(Counted') /\ spin_counter' \in 0 .. thread_count
    BY <2>1, SetsOfRanks DEF CounterHeld, CounterExact, Counted
  <2>3. SP!TypeOK'
    BY <2>2
  <2>4. CounterHeld'
    BY DEF CounterHeld
  <2>5. CounterExact' /\ FlagInOrder'
    BY <2>2 DEF CounterExact, SpinAllArrived, FlagInOrder
  <2> QED
    BY <2>3, <2>4, <2>5
<1>3. CASE SP!AllCounted(r)
  <2> USE <1>3 DEF SP!AllCounted
  <2>1. Counted = Ranks
    BY SetsOfRanks DEF CounterExact, Counted
  <2>2. Counted' = Counted
    BY DEF Counted
  <2>3. SP!TypeOK' /\ CounterHeld'
    BY DEF CounterHeld
  <2>4. CounterExact' /\ FlagInOrder'
    BY <2>1, <2>2 DEF CounterExact, SpinAllArrived, FlagInOrder, Counted
  <2> QED
    BY <2>3, <2>4
<1>4. CASE SP!ItsTurn(r)
  <2> USE <1>4 DEF SP!ItsTurn
  <2>1. Counted' = Counted
    BY DEF Counted
  <2>2. SP!TypeOK' /\ CounterHeld'
    BY DEF CounterHeld
  <2>3. CounterExact' /\ FlagInOrder'
    BY <2>1 DEF CounterExact, SpinAllArrived, FlagInOrder
  <2> QED
    BY <2>2, <2>3
<1>5. CASE SP!HandOn(r)
  <2> USE <1>5 DEF SP!HandOn, SP!NextRank
  <2>1. Counted' = Counted
    BY DEF Counted
  <2>2. flag = r /\ flag' = (r + 1) % thread_count
    BY DEF FlagInOrder
  <2>3. SP!TypeOK' /\ CounterHeld'
    BY <2>2, NextOfRank DEF CounterHeld
  <2>4. CounterExact'
    BY <2>1 DEF CounterExact, SpinAllArrived
  <2>5. \A u \in Ranks : /\ spin_pc[u] = "done" <=> u < r
                         /\ spin_pc'[u] = "done" <=> u < r + 1
                         /\ spin_pc'[u] # "active"
    BY <2>2 DEF FlagInOrder
  <2>6. FlagInOrder'
    BY <2>2, <2>5, NextOfRank DEF FlagInOrder, Ranks
  <2> QED
    BY <2>3, <2>4, <2>6
<1> QED
  BY <1>1, <1>2, <1>3, <1>4, <1>5 DEF SP!ThreadStep

(* Storing the increment is arriving, the end of the spin is leaving.            *)
LEMMA SpinStepRefines ==
    ASSUME SpinInv, SpinInv', NEW r \in Ranks, SP!ThreadStep(r)
    PROVE  [SP!Abstract!BarrierNext]_(SP!Abstract!barrierVars)
<1> USE SameRanks DEF SpinInv, SP!TypeOK, SP!Locations, SP!Goto
<1> DEFINE arrived == [u \in SP!Ranks |-> IF spin_pc[u] \in {"start", "counting"} THEN 0 ELSE 1]
           passed == [u \in SP!Ranks |-> IF spin_pc[u] \in {"turn", "active", "done"} THEN 1 ELSE 0]
<1>1. CASE SP!LoadCounter(r) \/ SP!ItsTurn(r) \/ SP!HandOn(r)
  <2>1. arrived' = arrived /\ passed' = passed
    BY <1>1 DEF SP!LoadCounter, SP!ItsTurn, SP!HandOn
  <2> QED
    BY <2>1 DEF SP!Abstract!barrierVars
<1>2. CASE SP!StoreCounter(r)
  <2>1. spin_pc[r] = "counting" /\ spin_pc' = [spin_pc EXCEPT ![r] = "spin"]
    BY <1>2 DEF SP!StoreCounter
  <2>2. \A u \in SP!Ranks : spin_pc'[u] = IF u = r THEN "spin" ELSE spin_pc[u]
    BY <2>1
  <2>3. arrived' = [arrived EXCEPT ![r] = 1] /\ passed' = passed
        /\ arrived[r] = 0 /\ passed[r] = 0 /\ r \in SP!Ranks
    <3> HIDE DEF SpinInv, SP!TypeOK
    <3>1. r \in SP!Ranks
      BY SameRanks
    <3>2. /\ spin_pc[r] \in {"start", "counting"} /\ spin_pc'[r] \notin {"start", "counting"}
          /\ \A u \in SP!Ranks \ {r} : spin_pc'[u] = spin_pc[u]
      BY <2>1, <2>2, <3>1
    <3>3. arrived' = [arrived EXCEPT ![r] = 1] /\ arrived[r] = 0
      BY <3>1, <3>2
    <3>4. passed' = passed /\ passed[r] = 0
      BY <2>1, <2>2, <3>1
    <3> QED
      BY <3>1, <3>3, <3>4
  <2>4. SP!Abstract!Arrive(r)
    <3>1. arrived' = [arrived EXCEPT ![r] = arrived[r] + 1] /\ passed' = passed
          /\ arrived[r] = passed[r] /\ arrived[r] < 1
      <4> HIDE DEF arrived, passed
      <4> QED
        BY <2>3
    <3> QED
      BY <3>1 DEF SP!Abstract!Arrive
  <2> QED
    BY <2>3, <2>4 DEF SP!Abstract!BarrierNext
<1>3. CASE SP!AllCounted(r)
  <2>1. spin_pc[r] = "spin" /\ spin_pc' = [spin_pc EXCEPT ![r] = "turn"]
    BY <1>3 DEF SP!AllCounted
  <2>2. \A u \in SP!Ranks : spin_pc'[u] = IF u = r THEN "turn" ELSE spin_pc[u]
    BY <2>1
  <2>3. \A u \in SP!Ranks : /\ spin_pc[u] \notin {"start", "counting"}
                            /\ spin_pc'[u] \notin {"start", "counting"}
    <3>1. SpinAllArrived'
      BY <2>2 DEF CounterExact
    <3> QED
      BY <3>1, <2>1, <2>2 DEF SpinAllArrived
  <2>4. /\ \A u \in SP!Ranks : arrived[u] = 1
        /\ arrived' = arrived
        /\ passed' = [passed EXCEPT ![r] = 1] /\ passed[r] = 0
        /\ r \in SP!Ranks
    <3> HIDE DEF SpinInv, SP!TypeOK
    <3>1. r \in SP!Ranks
      BY SameRanks
    <3>2. arrived' = arrived /\ \A u \in SP!Ranks : arrived[u] = 1
      BY <2>3
    <3>3. passed' = [passed EXCEPT ![r] = 1] /\ passed[r] = 0
      BY <2>1, <2>2, <3>1
    <3> QED
      BY <3>1, <3>2, <3>3
  <2>5. SP!Abstract!Leave(r)
    <3>1. passed' = [passed EXCEPT ![r] = passed[r] + 1] /\ arrived' = arrived
          /\ passed[r] < arrived[r] /\ \A u \in SP!Ranks : arrived[u] >= arrived[r]
      <4> HIDE DEF arrived, passed
      <4> QED
        BY <2>4
    <3> QED
      BY <3>1 DEF SP!Abstract!Leave
  <2> QED
    BY <2>4, <2>5 DEF SP!Abstract!BarrierNext
<1> QED
  BY <1>1, <1>2, <1>3 DEF SP!ThreadStep

--------------------------------------------------------------------------------
(* The messages of message_send.c and message_send_semaphores.c *)

(* Every rank is the destination of exactly one other.                           *)
LEMMA DestBijective ==
    /\ \A r \in Ranks : MR!dest(r) \in Ranks
    /\ \A r, u \in Ranks : MR!dest(r) = MR!dest(u) => r = u
    /\ \A r \in Ranks : \E u \in Ranks : MR!dest(u) = r
<1>1. \A r \in Ranks : MR!dest(r) = IF r = thread_count - 1 THEN 0 ELSE r + 1
  BY NextOfRank DEF MR!dest
<1>2. \A r \in Ranks : MR!dest(IF r = 0 THEN thread_count - 1 ELSE r - 1) = r
  BY <1>1, RanksAssumption DEF Ranks
<1> QED
  BY <1>1, <1>2, RanksAssumption DEF Ranks

(* What r has left for its destination, and when.                                *)
MessageLeft ==
    \A r \in Ranks :
        messages[MR!dest(r)] = IF ring_pc[r] # "write" THEN r
                               ELSE IF uses_semaphores THEN Garbage ELSE NULL

(* A semaphore is 1 from its post to the wait it is meant for, and nobody gets   *)
(* past a wait before its message has been written.                              *)
PostedOnce ==
    \A r \in Ranks :
        /\ uses_semaphores =>
             semaphores[MR!dest(r)] =
               IF ring_pc[r] \in {"write", "post"} \/ ring_pc[MR!dest(r)] \in {"print", "done"}
               THEN 0 ELSE 1
        /\ ~uses_semaphores => semaphores[r] = 0 /\ ring_pc[r] # "post"
        /\ ring_pc[MR!dest(r)] \in {"print", "done"} => ring_pc[r] \notin {"write", "post"}

PrintedLast == \A r \in Ranks : ring_pc[r] = "done" => printed[r] = messages[r]

RingInv == MR!TypeOK /\ MessageLeft /\ PostedOnce /\ PrintedLast

LEMMA RingInvInit == MR!Init => RingInv
<1> SUFFICES ASSUME MR!Init PROVE RingInv
  OBVIOUS
<1> USE SameRanks, DestBijective DEF MR!Init
<1>1. MR!TypeOK
  BY DEF MR!TypeOK, MR!Locations, MR!Pointers
<1>2. MessageLeft /\ PostedOnce /\ PrintedLast
  BY DEF MessageLeft, PostedOnce, PrintedLast
<1> QED
  BY <1>1, <1>2 DEF RingInv

(* Every step of a thread of the ring keeps the invariant.                       *)
LEMMA RingInvStep == ASSUME RingInv, NEW r \in Ranks, MR!ThreadStep(r) PROVE RingInv'
<1> USE SameRanks, DestBijective
    DEF RingInv, MR!TypeOK, MR!Locations, MR!Pointers, MR!Goto
<1>1. CASE MR!Write(r)
  <2> USE <1>1 DEF MR!Write
  <2>1. MR!TypeOK' /\ MessageLeft'
    BY DEF MessageLeft
  <2>2. PostedOnce'
    BY DEF PostedOnce
  <2>3. ring_pc[MR!dest(r)] \notin {"print", "done"}
    BY DEF PostedOnce
  <2>4. PrintedLast'
    BY <2>3 DEF PrintedLast
  <2> QED
    BY <2>1, <2>2, <2>4
<1>2. CASE MR!Post(r)
  <2> USE <1>2 DEF MR!Post, MR!PostDest
  <2>1. semaphores[MR!dest(r)] = 0 /\ uses_semaphores
    BY DEF PostedOnce
  <2>2. MR!TypeOK' /\ MessageLeft' /\ PrintedLast'
    BY <2>1 DEF MessageLeft, PrintedLast
  <2>3. PostedOnce'
    BY <2>1 DEF PostedOnce
  <2> QED
    BY <2>2, <2>3
<1>3. CASE MR!SemWait(r)
  <2> USE <1>3 DEF MR!SemWait
  <2>1. MR!TypeOK' /\ MessageLeft' /\ PrintedLast'
    BY DEF MessageLeft, PrintedLast
  <2>2. PostedOnce'
    BY DEF PostedOnce
  <2> QED
    BY <2>1, <2>2
<1>4. CASE MR!SpinEnds(r)
  <2> USE <1>4 DEF MR!SpinEnds
  <2>1. \A u \in Ranks : MR!dest(u) = r => ring_pc[u] \notin {"write", "post"}
    BY DEF MessageLeft, PostedOnce
  <2>2. MR!TypeOK' /\ MessageLeft' /\ PrintedLast'
    BY DEF MessageLeft, PrintedLast
  <2>3. PostedOnce'
    BY <2>1 DEF PostedOnce
  <2> QED
    BY <2>2, <2>3
<1>5. CASE MR!PrintMessage(r)
  <2> USE <1>5 DEF MR!PrintMessage
  <2>1. MR!TypeOK' /\ MessageLeft' /\ PrintedLast'
    BY DEF MessageLeft, PrintedLast
  <2>2. PostedOnce'
    BY DEF PostedOnce
  <2> QED
    BY <2>1, <2>2
<1> QED
  BY <1>1, <1>2, <1>3, <1>4, <1>5 DEF MR!ThreadStep

(* Who is past its wait has its message: its writer is past the post.            *)
LEMMA RingDelivers == RingInv => MR!MessagesDelivered
<1> SUFFICES ASSUME RingInv PROVE MR!MessagesDelivered
  OBVIOUS
<1> USE SameRanks, DestBijective DEF RingInv
<1>1. ASSUME NEW r \in Ranks, ring_pc[r] \in {"print", "done"}
      PROVE  messages[r] \in Ranks /\ MR!dest(messages[r]) = r
  BY <1>1 DEF PostedOnce, MessageLeft
<1>2. ASSUME MR!AllDone, NEW r \in Ranks PROVE semaphores[r] = 0
  BY <1>2 DEF MR!AllDone, PostedOnce
<1> QED
  BY <1>1, <1>2 DEF MR!MessagesDelivered, PrintedLast

--------------------------------------------------------------------------------
(* The turns and the words of the tokenizers *)

(* The remainder is what is left after any number of rounds.                     *)
LEMMA Remainder ==
    ASSUME NEW n \in Nat \ {0}, NEW x \in Nat, NEW q \in Nat, NEW m \in 0 .. n - 1,
           x = (n * q) + m
    PROVE  x % n = m
  BY SMT

(* Counting on and then reducing is counting round the ring.                     *)
LEMMA RoundTheRing ==
    ASSUME NEW x \in Nat
    PROVE  /\ x % thread_count \in Ranks
           /\ ((x % thread_count) + 1) % thread_count = (x + 1) % thread_count
<1>1. PICK n \in Nat \ {0} : n = thread_count
  BY RanksAssumption
<1>2. PICK q \in Nat, m \in 0 .. n - 1 : x = (n * q) + m /\ x % n = m
  <2>1. x = (n * (x \div n)) + (x % n) /\ x \div n \in Nat /\ x % n \in 0 .. n - 1
    BY SMT
  <2> QED
    BY <2>1
<1>3. CASE m = n - 1
  <2>1. x + 1 = (n * (q + 1)) + 0 /\ m + 1 = (n * 1) + 0
    BY <1>2, <1>3, SMT
  <2>2. x + 1 \in Nat /\ m + 1 \in Nat /\ q + 1 \in Nat /\ 1 \in Nat /\ 0 \in 0 .. n - 1
    BY SMT
  <2>3. (x + 1) % n = 0
    BY <2>1, <2>2, Remainder, Zenon
  <2>4. (m + 1) % n = 0
    BY <2>1, <2>2, Remainder, Zenon
  <2> QED
    BY <1>1, <1>2, <2>3, <2>4 DEF Ranks
<1>4. CASE m # n - 1
  <2>1. x + 1 = (n * q) + (m + 1) /\ m + 1 \in 0 .. n - 1 /\ m + 1 = (n * 0) + (m + 1)
    BY <1>2, <1>4, SMT
  <2>2. x + 1 \in Nat /\ m + 1 \in Nat /\ 0 \in Nat
    BY SMT
  <2>3. (x + 1) % n = m + 1
    BY <2>1, <2>2, Remainder, Zenon
  <2>4. (m + 1) % n = m + 1
    BY <2>1, <2>2, Remainder, Zenon
  <2> QED
    BY <1>1, <1>2, <2>1, <2>3, <2>4 DEF Ranks
<1> QED
  BY <1>3, <1>4

HasTurn(r) == sem[r] = 1 \/ tok_pc[r] \in {"read", "post"}

(* One thread has the turn, by its semaphore or between its wait and its post.   *)
OneTurn ==
    /\ \A r, u \in Ranks : HasTurn(r) /\ HasTurn(u) => r = u
    /\ \A r \in Ranks : sem[r] = 1 => tok_pc[r] \notin {"read", "post"}

(* As long as there are lines the turn goes round with the lines, and a line     *)
(* belongs to the thread whose turn it was.                                      *)
TurnFollowsLines ==
    /\ lines_read \in TK!Lines \cup {0}
    /\ lines_read + 1 \in TK!Lines => \A r \in Ranks :
          /\ sem[r] = 1 \/ tok_pc[r] = "read" => lines_read % thread_count = r
          /\ tok_pc[r] = "post" =>
               lines_read # 0 /\ (lines_read - 1) % thread_count = r
    /\ \A r \in Ranks : /\ my_line[r] \in TK!Lines \cup {0}
                        /\ my_line[r] # 0 => (my_line[r] - 1) % thread_count = r

(* Where a thread is in its line: the position saved agrees with its count, for  *)
(* strtok as long as nobody else has saved another.                              *)
WordsCounted ==
    \A r \in Ranks :
        /\ tok_pc[r] \in {"first", "next"} => my_line[r] # 0
        /\ tok_pc[r] = "first" => count[r] = 0
        /\ tok_pc[r] = "next" =>
             /\ count[r] <= input[my_line[r]]
             /\ TK!OwnLine(r) => saved[TK!Saveptr(r)].word = count[r]
             /\ reentrant => TK!OwnLine(r)
        /\ tok_pc[r] = "turn" /\ my_line[r] # 0 => count[r] = input[my_line[r]]

TokInv == TK!TypeOK /\ OneTurn /\ TurnFollowsLines /\ WordsCounted

(* stdin is some number of lines, each of some number of words.                  *)
LEMMA InputLines ==
    ASSUME TK!TypeOK
    PROVE  /\ TK!Lines \subseteq 1 .. MaxLines
           /\ \A k \in TK!Lines : input[k] \in 0 .. MaxWords
           /\ \A k \in TK!Lines : k - 1 \in TK!Lines \cup {0}
           /\ MaxLines \in Nat /\ MaxWords \in Nat
<1>1. PICK n \in 0 .. MaxLines : input \in [1 .. n -> 0 .. MaxWords]
  BY DEF TK!TypeOK, TK!Inputs
<1>2. TK!Lines = 1 .. n
  BY <1>1 DEF TK!Lines
<1> QED
  BY <1>1, <1>2, ValuesAssumption

LEMMA TokInvInit == TK!Init => TokInv
<1> SUFFICES ASSUME TK!Init PROVE TokInv
  OBVIOUS
<1> USE SameRanks, ValuesAssumption DEF TK!Init
<1>1. TK!TypeOK
  BY DEF TK!TypeOK, TK!Locations, TK!Positions
<1>2. OneTurn
  BY DEF OneTurn, HasTurn
<1>3. 0 % thread_count = 0
  BY RanksAssumption, SMT
<1>4. TurnFollowsLines
  BY <1>3 DEF TurnFollowsLines
<1>5. WordsCounted
  BY DEF WordsCounted
<1> QED
  BY <1>1, <1>2, <1>4, <1>5 DEF TokInv

(* Two threads never have the same line.                                         *)
LEMMA LinesApart ==
    ASSUME TokInv, NEW r \in Ranks, NEW u \in Ranks, r # u, my_line[r] # 0
    PROVE  my_line[r] # my_line[u]
  BY DEF TokInv, TurnFollowsLines

(* What a call of strtok does to the invariant, called with the position after   *)
(* the words counted so far.                                                     *)
LEMMA TokenizeStep ==
    ASSUME TokInv, NEW r \in Ranks, NEW from \in TK!Positions, my_line[r] # 0,
           from.line = my_line[r], from.word = count[r],
           from.word <= input[from.line], tok_pc[r] \in {"first", "next"},
           TK!Tokenize(r, from),
           UNCHANGED <<reentrant, input, lines_read, sem, my_line>>
    PROVE  TokInv'
<1> USE SameRanks, ValuesAssumption, InputLines
    DEF TokInv, TK!TypeOK, TK!Locations, TK!Positions
<1> DEFINE s == TK!Saveptr(r)
<1>1. s \in Ranks \cup {Static} /\ from.word \in 0 .. MaxWords
      /\ my_line[r] \in TK!Lines /\ input[my_line[r]] \in 0 .. MaxWords
  BY DEF TK!Saveptr, TurnFollowsLines
<1>2. PICK to \in {"next", "turn"}, pos \in TK!Positions :
        /\ tok_pc' = [tok_pc EXCEPT ![r] = to]
        /\ saved' = [saved EXCEPT ![s] = pos] /\ count' = [count EXCEPT ![r] = pos.word]
        /\ pos.line = my_line[r] /\ pos.word <= input[my_line[r]]
        /\ to = "turn" => pos.word = input[my_line[r]]
  <2>1. CASE from.word < input[from.line]
    <3> DEFINE pos == [from EXCEPT !.word = @ + 1]
    <3>1. pos \in TK!Positions /\ pos.line = my_line[r] /\ pos.word = count[r] + 1
          /\ pos.word <= input[my_line[r]]
      BY <1>1, <2>1
    <3>2. tok_pc' = [tok_pc EXCEPT ![r] = "next"] /\ saved' = [saved EXCEPT ![s] = pos]
          /\ count' = [count EXCEPT ![r] = count[r] + 1]
      BY <2>1 DEF TK!Tokenize
    <3> HIDE DEF pos
    <3> QED
      BY <3>1, <3>2
  <2>2. CASE ~(from.word < input[from.line])
    <3>1. tok_pc' = [tok_pc EXCEPT ![r] = "turn"] /\ saved' = [saved EXCEPT ![s] = from]
          /\ count' = [count EXCEPT ![r] = from.word]
      BY <2>2 DEF TK!Tokenize
    <3>2. PICK k \in Int, w \in Int : k = from.word /\ w = input[my_line[r]]
                                    /\ k <= w /\ ~(k < w)
      BY <1>1, <2>2
    <3>3. from.word = input[my_line[r]]
      BY <3>2
    <3> QED
      BY <3>1, <3>3
  <2> QED
    BY <2>1, <2>2
<1>3. OneTurn' /\ TurnFollowsLines'
  BY <1>2 DEF OneTurn, HasTurn, TurnFollowsLines, TK!Lines
<1>4. TK!TypeOK'
  <2>1. pos.word \in 0 .. MaxWords
    BY <1>2
  <2>2. count' \in [TK!Ranks -> 0 .. MaxWords] /\ tok_pc' \in [TK!Ranks -> TK!Locations]
    BY <1>2, <2>1
  <2>3. saved' \in [TK!Ranks \cup {Static} -> TK!Positions]
    BY <1>1, <1>2
  <2> QED
    BY <2>2, <2>3
<1>5. /\ tok_pc'[r] = to /\ count'[r] = pos.word /\ saved'[s] = pos
      /\ TK!Saveptr(r)' = s /\ my_line'[r] = my_line[r]
  BY <1>1, <1>2 DEF TK!Saveptr
<1>6. ASSUME NEW u \in Ranks, u # r
      PROVE  /\ tok_pc'[u] = tok_pc[u] /\ count'[u] = count[u]
             /\ \/ saved'[TK!Saveptr(u)'] = saved[TK!Saveptr(u)]
                \/ ~reentrant /\ saved'[TK!Saveptr(u)'].line # my_line[u]
  BY <1>1, <1>2, <1>6, LinesApart DEF TK!Saveptr
<1>7. WordsCounted'
  BY <1>2, <1>5, <1>6 DEF WordsCounted, TK!OwnLine
<1> QED
  BY <1>3, <1>4, <1>7

(* Every step of a tokenizing thread keeps the invariant.                        *)
LEMMA TokInvStep == ASSUME TokInv, NEW r \in Ranks, TK!ThreadStep(r) PROVE TokInv'
<1> USE SameRanks, InputLines DEF TokInv, TK!TypeOK, TK!Locations, TK!Goto
<1>1. CASE TK!WaitTurn(r)
  <2> USE <1>1 DEF TK!WaitTurn
  <2>1. TK!TypeOK' /\ OneTurn'
    BY DEF OneTurn, HasTurn
  <2>2. TurnFollowsLines'
    BY DEF TurnFollowsLines, TK!Lines
  <2>3. WordsCounted'
    BY DEF WordsCounted, TK!OwnLine, TK!Saveptr
  <2> QED
    BY <2>1, <2>2, <2>3
<1>2. CASE TK!ReadLine(r)
  <2> USE <1>2 DEF TK!ReadLine
  <2>1. PICK line \in TK!Lines \cup {0} :
          /\ my_line' = [my_line EXCEPT ![r] = line]
          /\ line # 0 => line = lines_read + 1 /\ lines_read' = lines_read + 1
          /\ line = 0 => lines_read + 1 \notin TK!Lines /\ lines_read' = lines_read
    BY ValuesAssumption
  <2>2. TK!TypeOK'
    BY <2>1, ValuesAssumption
  <2>3. OneTurn'
    BY DEF OneTurn, HasTurn
  <2>4. lines_read \in Nat /\ (line # 0 => lines_read % thread_count = r)
    BY <2>1 DEF TurnFollowsLines
  <2>5. /\ lines_read' \in TK!Lines \cup {0} /\ TK!Lines' = TK!Lines
        /\ lines_read' + 1 \in TK!Lines =>
             line # 0 /\ lines_read' # 0 /\ (lines_read' - 1) % thread_count = r
        /\ line # 0 => (line - 1) % thread_count = r
    BY <2>1, <2>4 DEF TurnFollowsLines, TK!Lines
  <2>6. \A u \in Ranks \ {r} : ~HasTurn(u)' /\ my_line'[u] = my_line[u]
    BY <2>1 DEF OneTurn, HasTurn
  <2>7. sem'[r] # 1 /\ tok_pc'[r] = "post" /\ my_line'[r] = line
    BY <2>1 DEF OneTurn
  <2>8. TurnFollowsLines'
    BY <2>5, <2>6, <2>7 DEF TurnFollowsLines, HasTurn
  <2>9. WordsCounted'
    BY <2>1 DEF WordsCounted, TK!OwnLine, TK!Saveptr
  <2> QED
    BY <2>2, <2>3, <2>8, <2>9
<1>3. CASE TK!PostNext(r)
  <2> USE <1>3 DEF TK!PostNext, TK!PassOn
  <2>1. PICK u \in Ranks : u = (r + 1) % thread_count
    BY NextOfRank
  <2>2. /\ sem' \in [TK!Ranks -> {0, 1}]
        /\ \A v \in Ranks : sem'[v] = IF v = u THEN 1 ELSE 0
    <3>1. \A v \in Ranks : sem[v] = 0
      BY DEF OneTurn, HasTurn
    <3>2. sem' = [sem EXCEPT ![u] = sem[u] + 1]
      BY <2>1, Zenon
    <3>3. sem[u] + 1 = 1
      BY <3>1
    <3>4. sem' = [sem EXCEPT ![u] = 1]
      BY <3>2, <3>3, Zenon
    <3> HIDE <1>3
    <3> QED
      BY <3>1, <3>4
  <2>3. TK!TypeOK'
    BY <2>2
  <2>4. \A v \in Ranks : tok_pc'[v] \notin {"read", "post"}
    BY DEF OneTurn, HasTurn
  <2>5. OneTurn'
    BY <2>2, <2>4 DEF OneTurn, HasTurn
  <2>6. ASSUME lines_read + 1 \in TK!Lines PROVE lines_read % thread_count = u
    <3>1. lines_read - 1 \in Nat /\ (lines_read - 1) % thread_count = r
      BY <2>6 DEF TurnFollowsLines
    <3>2. (((lines_read - 1) % thread_count) + 1) % thread_count
          = ((lines_read - 1) + 1) % thread_count
      BY <3>1, RoundTheRing
    <3>3. (lines_read - 1) + 1 = lines_read
      BY <3>1
    <3> QED
      BY <2>1, <3>1, <3>2, <3>3
  <2>7. TurnFollowsLines'
    BY <2>2, <2>4, <2>6 DEF TurnFollowsLines, TK!Lines
  <2>8. WordsCounted'
    BY DEF WordsCounted, TK!OwnLine, TK!Saveptr
  <2> QED
    BY <2>3, <2>5, <2>7, <2>8
<1>4. CASE TK!StartLine(r)
  <2> USE <1>4 DEF TK!StartLine
  <2>1. TK!TypeOK' /\ OneTurn'
    BY DEF OneTurn, HasTurn
  <2>2. TurnFollowsLines'
    BY DEF TurnFollowsLines, TK!Lines
  <2>3. WordsCounted'
    BY DEF WordsCounted, TK!OwnLine, TK!Saveptr
  <2> QED
    BY <2>1, <2>2, <2>3
<1>5. CASE TK!AtEnd(r)
  <2> USE <1>5 DEF TK!AtEnd
  <2>1. TK!TypeOK' /\ OneTurn'
    BY DEF OneTurn, HasTurn
  <2>2. TurnFollowsLines'
    BY DEF TurnFollowsLines, TK!Lines
  <2>3. WordsCounted'
    BY DEF WordsCounted, TK!OwnLine, TK!Saveptr
  <2> QED
    BY <2>1, <2>2, <2>3
<1>6. CASE TK!FirstWord(r)
  <2> DEFINE from == [line |-> my_line[r], word |-> 0]
  <2>1. my_line[r] \in TK!Lines /\ my_line[r] # 0 /\ count[r] = 0
    BY <1>6 DEF TK!FirstWord, WordsCounted, TurnFollowsLines
  <2>2. from \in TK!Positions /\ from.word <= input[from.line]
    BY <2>1 DEF TK!Positions
  <2> QED
    BY <1>6, <2>1, <2>2, TokenizeStep DEF TK!FirstWord
<1>7. CASE TK!NextWord(r)
  <2> DEFINE from == saved[TK!Saveptr(r)]
  <2>1. /\ my_line[r] # 0 /\ from.line = my_line[r] /\ from.word = count[r]
        /\ count[r] <= input[my_line[r]] /\ from \in TK!Positions
    BY <1>7 DEF TK!NextWord, WordsCounted, TK!OwnLine, TK!Saveptr
  <2> HIDE DEF from
  <2> QED
    BY <1>7, <2>1, TokenizeStep DEF TK!NextWord, from
<1> QED
  BY <1>1, <1>2, <1>3, <1>4, <1>5, <1>6, <1>7 DEF TK!ThreadStep

(* The turns and the words follow from it.                                       *)
LEMMA TokTurns == TokInv => TK!LinesInTurn /\ TK!WordsComplete
<1> SUFFICES ASSUME TokInv PROVE TK!LinesInTurn /\ TK!WordsComplete
  OBVIOUS
<1>1. TK!LinesInTurn
  BY SameRanks DEF TokInv, TK!LinesInTurn, OneTurn, HasTurn, TurnFollowsLines
<1>2. TK!WordsComplete
  BY SameRanks DEF TokInv, TK!WordsComplete, TK!Foreign, WordsCounted
<1> QED
  BY <1>1, <1>2

--------------------------------------------------------------------------------
(* All the programs *)

HandshakeInv == SemInv /\ SpinInv /\ RingInv /\ TokInv

(* The program that does not run keeps its variables, and its invariant.         *)
LEMMA SemInvStays == ASSUME SemInv, UNCHANGED semVars PROVE SemInv'
  BY DEF SemInv, semVars, SB!TypeOK, CountAlone, OnePoster, PostsCounted, Poster,
         Waiting, PassedBut, SomeoneOn, SemAllArrived

LEMMA SpinInvStays == ASSUME SpinInv, UNCHANGED spinVars PROVE SpinInv'
  BY DEF SpinInv, spinVars, SP!TypeOK, CounterHeld, CounterExact, FlagInOrder,
         Counted, SpinAllArrived

LEMMA RingInvStays == ASSUME RingInv, UNCHANGED ringVars PROVE RingInv'
  BY DEF RingInv, ringVars, MR!TypeOK, MessageLeft, PostedOnce, PrintedLast

LEMMA TokInvStays == ASSUME TokInv, UNCHANGED tokVars PROVE TokInv'
  BY DEF TokInv, tokVars, TK!TypeOK, OneTurn, HasTurn, TurnFollowsLines, WordsCounted,
         TK!OwnLine, TK!Saveptr, TK!Lines

(* A step of one of the programs is a step of one of its threads, or nothing     *)
(* once all have ended.                                                          *)
LEMMA ProgramSteps ==
    /\ SB!Next => UNCHANGED semVars \/ \E r \in Ranks : SB!ThreadStep(r)
    /\ SP!Next => UNCHANGED spinVars \/ \E r \in Ranks : SP!ThreadStep(r)
    /\ MR!Next => UNCHANGED ringVars \/ \E r \in Ranks : MR!ThreadStep(r)
    /\ TK!Next => UNCHANGED tokVars \/ \E r \in Ranks : TK!ThreadStep(r)
<1>1. SB!Next => UNCHANGED semVars \/ \E r \in Ranks : SB!ThreadStep(r)
  BY SameRanks DEF SB!Next, SB!Joined, SB!vars, semVars
<1>2. SP!Next => UNCHANGED spinVars \/ \E r \in Ranks : SP!ThreadStep(r)
  BY SameRanks DEF SP!Next, SP!Joined, SP!vars, spinVars
<1>3. MR!Next => UNCHANGED ringVars \/ \E r \in Ranks : MR!ThreadStep(r)
  BY SameRanks DEF MR!Next, MR!Joined, MR!vars, ringVars
<1>4. TK!Next => UNCHANGED tokVars \/ \E r \in Ranks : TK!ThreadStep(r)
  BY SameRanks DEF TK!Next, TK!Joined, TK!ForeignLine, TK!vars, tokVars
<1> QED
  BY <1>1, <1>2, <1>3, <1>4

(* Each program's invariant is kept by its steps and left alone by the others'.  *)
LEMMA HandshakeInvStep == ASSUME HandshakeInv, [Next]_vars PROVE HandshakeInv'
<1> USE DEF HandshakeInv
<1>1. CASE SemBarrierStep
  BY <1>1, ProgramSteps, SemInvStep, SemInvStays, SpinInvStays, RingInvStays, TokInvStays
  DEF SemBarrierStep
<1>2. CASE SpinBarrierStep
  BY <1>2, ProgramSteps, SpinInvStep, SemInvStays, SpinInvStays, RingInvStays, TokInvStays
  DEF SpinBarrierStep
<1>3. CASE RingStep
  BY <1>3, ProgramSteps, RingInvStep, SemInvStays, SpinInvStays, RingInvStays, TokInvStays
  DEF RingStep
<1>4. CASE TokenizerStep
  BY <1>4, ProgramSteps, TokInvStep, SemInvStays, SpinInvStays, RingInvStays, TokInvStays
  DEF TokenizerStep
<1>5. CASE UNCHANGED vars
  BY <1>5, SemInvStays, SpinInvStays, RingInvStays, TokInvStays DEF vars
<1> QED
  BY <1>1, <1>2, <1>3, <1>4, <1>5 DEF Next

(* The inductive invariant of the four programs together.                        *)
THEOREM HandshakeInvariant == FairSpec => []HandshakeInv
<1>1. Init => HandshakeInv
  BY SemInvInit, SpinInvInit, RingInvInit, TokInvInit DEF Init, HandshakeInv
<1> QED
  BY <1>1, HandshakeInvStep, PTL DEF FairSpec

(* Every message reaches the thread it was written for and every semaphore is    *)
(* used up, whatever the number of threads of message_send.c and                 *)
(* message_send_semaphores.c; with it every variable keeps its type, so the      *)
(* semaphores stay in their ranges.                                              *)
THEOREM MessagesAlwaysDelivered == FairSpec => []MessagesDelivered
<1>1. HandshakeInv => MessagesDelivered
  BY RingDelivers DEF HandshakeInv, SemInv, SpinInv, RingInv, TokInv, MessagesDelivered, TypeOK
<1> QED
  BY <1>1, HandshakeInvariant, PTL

(* The turns of barrier_busy_waiting_mutex.c and of the tokenizers go round in   *)
(* the order of the ranks, line k is read by the k-th of that order, and         *)
(* strtok_r splits each line completely: for any number of threads and any       *)
(* input.                                                                        *)
THEOREM TurnsAlwaysTaken == FairSpec => []TurnsTaken
<1>1. SpinInv => SP!ActivatedInTurn
  BY SameRanks DEF SpinInv, FlagInOrder, SP!ActivatedInTurn, SP!TypeOK
<1>2. HandshakeInv => TurnsTaken
  BY <1>1, TokTurns DEF HandshakeInv, TurnsTaken
<1> QED
  BY <1>2, HandshakeInvariant, PTL

(* At its end barrier_semaphores.c has used up every post of barrier_sem: the    *)
(* last thread has posted exactly once for every other (lines 40-50).            *)
NoPostLeft == SB!AllDone => barrier_sem = 0

(* No post of barrier_sem is left over at the end, and none is missing.          *)
THEOREM PostsUsedUp == FairSpec => []NoPostLeft
<1>1. SemInv => NoPostLeft
  <2> SUFFICES ASSUME SemInv, SB!AllDone PROVE barrier_sem = 0
    BY DEF NoPostLeft
  <2>1. CASE \A p \in Ranks : ~Poster(p)
    BY <2>1 DEF SemInv, PostsCounted
  <2>2. ASSUME NEW p \in Ranks, Poster(p) PROVE barrier_sem = 0
    <3>1. PassedBut(p) = Ranks \ {p}
      BY SameRanks DEF PassedBut, SB!AllDone
    <3>2. Cardinality(PassedBut(p)) = thread_count - 1
      BY <3>1, SameRanks, FS_RemoveElement
    <3> QED
      BY <2>2, <3>2, SameRanks DEF SemInv, PostsCounted, SB!TypeOK
  <2> QED
    BY <2>1, <2>2
<1> QED
  BY <1>1, HandshakeInvariant, PTL DEF HandshakeInv

(* The semaphores of barrier_semaphores.c and the spin of                        *)
(* barrier_busy_waiting_mutex.c implement a barrier for any number of threads.   *)
THEOREM BarriersAlwaysHold == FairSpec => BarriersHold
<1>1. Init => SB!Abstract!BarrierInit /\ SP!Abstract!BarrierInit
  BY DEF Init, SB!Init, SP!Init, SB!Abstract!BarrierInit, SP!Abstract!BarrierInit
<1>2. ASSUME HandshakeInv, HandshakeInv', [Next]_vars
      PROVE  /\ [SB!Abstract!BarrierNext]_(SB!Abstract!barrierVars)
             /\ [SP!Abstract!BarrierNext]_(SP!Abstract!barrierVars)
  <2>1. UNCHANGED semVars \/ \E r \in Ranks : SB!ThreadStep(r)
    BY <1>2, ProgramSteps
    DEF Next, vars, SemBarrierStep, SpinBarrierStep, RingStep, TokenizerStep
  <2>2. UNCHANGED spinVars \/ \E r \in Ranks : SP!ThreadStep(r)
    BY <1>2, ProgramSteps
    DEF Next, vars, SemBarrierStep, SpinBarrierStep, RingStep, TokenizerStep
  <2>3. UNCHANGED semVars => UNCHANGED SB!Abstract!barrierVars
    BY DEF semVars, SB!Abstract!barrierVars
  <2>4. UNCHANGED spinVars => UNCHANGED SP!Abstract!barrierVars
    BY DEF spinVars, SP!Abstract!barrierVars
  <2> QED
    BY <1>2, <2>1, <2>2, <2>3, <2>4, SemStepRefines, SpinStepRefines DEF HandshakeInv
<1> QED
  BY <1>1, <1>2, HandshakeInvariant, PTL
  DEF FairSpec, BarriersHold, SB!ImplementsBarrier, SP!ImplementsBarrier,
      SB!Abstract!BarrierSpec, SP!Abstract!BarrierSpec

--------------------------------------------------------------------------------
(* The search of linked_list_sol2.c, a program with variables of its own. *)

LEMMA SearchFacts == NoRank \notin Ranks /\ thread_count \in Nat \ {0} /\ Values \subseteq Nat
BY SameRanks, SearchAssumption

(* A mutex that is held is held by a thread that stands on its node or reaches   *)
(* for it from the one before; so no two threads are on one node, and a thread   *)
(* leaves no mutex locked behind it (lines 159-175).                             *)
HeldWhereItStands ==
    /\ \A t \in Ranks : Inside(t) => mutex[curr[t]] = t
    /\ \A n \in Nodes : LET t == mutex[n] IN
          t # NoRank =>
             /\ Inside(t)
             /\ curr[t] = n \/ (pc[t] = "coupled" /\ curr[t] = n - 1)

(* Between the two locks of a move the thread has both mutexes and has read that *)
(* it has to go on.                                                              *)
CoupledHoldsBoth ==
    \A t \in Ranks : pc[t] = "coupled" => Ahead(t) /\ mutex[curr[t] + 1] = t

(* Every node a thread has left behind holds less than the value. *)
NothingMissed ==
    \A t \in Ranks : \A n \in Nodes : n < curr[t] => n < value

MainWaits ==
    /\ main # "join" => \A t \in Ranks : pc[t] = "return"
    /\ freed > 0 => main # "join"

WalkInv ==
    /\ SearchTypeOK
    /\ HeldWhereItStands
    /\ CoupledHoldsBoth
    /\ NothingMissed
    /\ AnswersRight
    /\ MainWaits

LEMMA WalkInvInit == SearchInit => WalkInv
<1> SUFFICES ASSUME SearchInit PROVE WalkInv
  OBVIOUS
<1>1. SearchTypeOK
  BY SearchFacts DEF SearchInit, SearchTypeOK, Locations, Nodes
<1>2. HeldWhereItStands
  BY DEF SearchInit, HeldWhereItStands, Inside
<1>3. CoupledHoldsBoth /\ NothingMissed
  BY DEF SearchInit, CoupledHoldsBoth, NothingMissed, Nodes
<1>4. AnswersRight /\ MainWaits
  BY DEF SearchInit, AnswersRight, MainWaits
<1> QED BY <1>1, <1>2, <1>3, <1>4 DEF WalkInv

LEMMA LockHeadKeeps ==
    ASSUME WalkInv, NEW t \in Ranks, LockHead(t)
    PROVE  WalkInv'
<1> USE SearchFacts DEF WalkInv, LockHead, Goto
<1>1. main = "join" /\ curr[t] \in Nodes /\ Nodes \subseteq Nat
  BY DEF SearchTypeOK, MainWaits, Nodes
<1>2. SearchTypeOK'
  BY <1>1 DEF SearchTypeOK, Locations
<1>3. HeldWhereItStands'
  BY <1>1 DEF HeldWhereItStands, Inside, SearchTypeOK
<1>4. CoupledHoldsBoth'
  BY <1>1 DEF CoupledHoldsBoth, Ahead, SearchTypeOK, Nodes
<1>5. NothingMissed'
  BY DEF NothingMissed
<1>6. AnswersRight' /\ MainWaits'
  BY <1>1 DEF AnswersRight, MainWaits, SearchTypeOK
<1> QED BY <1>2, <1>3, <1>4, <1>5, <1>6

LEMMA LockNextKeeps ==
    ASSUME WalkInv, NEW t \in Ranks, LockNext(t)
    PROVE  WalkInv'
<1> USE SearchFacts DEF WalkInv, LockNext, Goto, Ahead
<1>1. /\ main = "join"
      /\ curr[t] \in Nat /\ curr[t] + 1 \in Nodes
      /\ Nodes \subseteq Nat
  BY DEF SearchTypeOK, MainWaits, Nodes
<1>2. SearchTypeOK'
  BY <1>1 DEF SearchTypeOK, Locations
<1>3. HeldWhereItStands'
  BY <1>1 DEF HeldWhereItStands, Inside, SearchTypeOK
<1>4. CoupledHoldsBoth'
  BY <1>1 DEF CoupledHoldsBoth, SearchTypeOK, Nodes
<1>5. NothingMissed'
  BY DEF NothingMissed
<1>6. AnswersRight' /\ MainWaits'
  BY <1>1 DEF AnswersRight, MainWaits, SearchTypeOK
<1> QED BY <1>2, <1>3, <1>4, <1>5, <1>6

LEMMA MoveOnKeeps ==
    ASSUME WalkInv, NEW t \in Ranks, MoveOn(t)
    PROVE  WalkInv'
<1> USE SearchFacts DEF WalkInv, MoveOn, Goto
<1>1. /\ main = "join"
      /\ curr[t] \in Nodes /\ curr[t] \in Nat
      /\ curr[t] + 1 \in Nodes
      /\ curr[t] < value /\ value \in Nat
      /\ mutex[curr[t] + 1] = t
      /\ Nodes \subseteq Nat
  BY DEF SearchTypeOK, MainWaits, Nodes, CoupledHoldsBoth, Ahead
<1>2. SearchTypeOK'
  BY <1>1 DEF SearchTypeOK, Locations
<1>3. HeldWhereItStands'
  BY <1>1 DEF HeldWhereItStands, Inside, SearchTypeOK
<1>4. CoupledHoldsBoth'
  BY <1>1 DEF CoupledHoldsBoth, HeldWhereItStands, Inside, Ahead, SearchTypeOK,
              Nodes
<1>5. NothingMissed'
  BY <1>1 DEF NothingMissed, SearchTypeOK
<1>6. AnswersRight' /\ MainWaits'
  BY <1>1 DEF AnswersRight, MainWaits, SearchTypeOK
<1> QED BY <1>2, <1>3, <1>4, <1>5, <1>6

LEMMA AnswerKeeps ==
    ASSUME WalkInv, NEW t \in Ranks, Answer(t)
    PROVE  WalkInv'
<1> USE SearchFacts DEF WalkInv, Answer, Goto
<1>1. /\ main = "join"
      /\ curr[t] \in Nodes /\ curr[t] \in Nat
      /\ value \in Nat
      /\ Nodes \subseteq Nat
  BY DEF SearchTypeOK, MainWaits, Nodes
<1>2. SearchTypeOK'
  BY <1>1 DEF SearchTypeOK, Locations
<1>3. HeldWhereItStands'
  BY <1>1 DEF HeldWhereItStands, Inside, SearchTypeOK
<1>4. CoupledHoldsBoth'
  BY <1>1 DEF CoupledHoldsBoth, HeldWhereItStands, Inside, Ahead, SearchTypeOK,
              Nodes
<1>5. NothingMissed'
  BY DEF NothingMissed
<1>6. curr[t] = value <=> value \in Nodes
  BY <1>1 DEF NothingMissed, Ahead, Nodes, SearchTypeOK
<1>7. AnswersRight' /\ MainWaits'
  BY <1>1, <1>6 DEF AnswersRight, MainWaits, SearchTypeOK
<1> QED BY <1>2, <1>3, <1>4, <1>5, <1>7

LEMMA MainKeeps ==
    ASSUME WalkInv, MainStep
    PROVE  WalkInv'
<1> USE SearchFacts DEF WalkInv
<1>1. UNCHANGED <<value, mutex, pc, curr, found>>
  BY DEF MainStep, Join, FreeNode, Exit
<1>2. SearchTypeOK'
  BY <1>1 DEF SearchTypeOK, MainStep, Join, FreeNode, Exit, MoreToFree
<1>3. (HeldWhereItStands /\ CoupledHoldsBoth /\ NothingMissed /\ AnswersRight)'
  BY <1>1 DEF HeldWhereItStands, CoupledHoldsBoth, Ahead, NothingMissed,
              AnswersRight, Inside
<1>4. MainWaits'
  BY <1>1 DEF MainWaits, MainStep, Join, FreeNode, Exit, AllReturned
<1> QED BY <1>2, <1>3, <1>4

LEMMA WalkInvStep == WalkInv /\ [SearchNext]_searchVars => WalkInv'
<1> SUFFICES ASSUME WalkInv, [SearchNext]_searchVars PROVE WalkInv'
  OBVIOUS
<1>1. ASSUME NEW t \in Ranks, Member(t) PROVE WalkInv'
  BY <1>1, LockHeadKeeps, LockNextKeeps, MoveOnKeeps, AnswerKeeps DEF Member
<1>2. CASE MainStep
  BY <1>2, MainKeeps
<1>3. CASE Exited \/ UNCHANGED searchVars
  BY <1>3 DEF Exited, searchVars, WalkInv, SearchTypeOK, HeldWhereItStands, Inside,
              CoupledHoldsBoth, Ahead, NothingMissed, AnswersRight, MainWaits
<1> QED BY <1>1, <1>2, <1>3 DEF SearchNext

(* The inductive invariant of the walk: who holds what, what has been passed, and *)
(* that main waits for everybody (linked_list_sol2.c:95-107,159-177).             *)
THEOREM WalkInvariant == SearchSpec => []WalkInv
BY WalkInvInit, WalkInvStep, PTL DEF SearchSpec

(* Every variable keeps its type: no curr runs off the list, and delete frees    *)
(* no more nodes than there are.                                                 *)
THEOREM WalkTypeCorrect == SearchSpec => []SearchTypeOK
<1>1. WalkInv => SearchTypeOK BY DEF WalkInv
<1> QED BY <1>1, WalkInvariant, PTL

(* A held mutex is held by the thread that stands there or is about to. *)
THEOREM MutexesFollowThreads == SearchSpec => []HeldWhereItStands
<1>1. WalkInv => HeldWhereItStands BY DEF WalkInv
<1> QED BY <1>1, WalkInvariant, PTL

(* member's answer is right, for any value and any list length. *)
THEOREM SearchCorrect == SearchSpec => []AnswersRight
<1>1. WalkInv => AnswersRight BY DEF WalkInv
<1> QED BY <1>1, WalkInvariant, PTL

(* delete destroys only mutexes that nobody holds or will take. *)
THEOREM DestroysSafely == SearchSpec => []DestroyedUnused
<1>1. WalkInv => DestroyedUnused
  BY DEF WalkInv, SearchTypeOK, HeldWhereItStands, MainWaits, DestroyedUnused, Inside
<1> QED BY <1>1, WalkInvariant, PTL

(* Threads stay in the order in which they entered the list. *)
THEOREM OrderKept == SearchSpec => NoOvertaking
<1> DEFINE Kept == \A t, u \in Ranks :
          Inside(t) /\ Inside(u) /\ curr[t] < curr[u] /\ Inside(u)'
             => curr'[t] < curr'[u]
<1>1. ASSUME WalkInv, [SearchNext]_searchVars PROVE Kept
  <2> SUFFICES ASSUME NEW t \in Ranks, NEW u \in Ranks,
                      Inside(t), Inside(u), curr[t] < curr[u]
               PROVE  curr'[t] < curr'[u]
    OBVIOUS
  <2>1. curr[t] \in Nat /\ curr[u] \in Nat
    BY <1>1 DEF WalkInv, SearchTypeOK, Nodes
  <2>2. CASE UNCHANGED curr
    BY <2>2
  <2>3. ASSUME NEW p \in Ranks, MoveOn(p) PROVE curr'[t] < curr'[u]
    <3>1. CASE p = t
      <4>1. mutex[curr[t] + 1] = t /\ mutex[curr[u]] = u /\ t # u
        BY <1>1, <2>1, <2>3, <3>1 DEF WalkInv, CoupledHoldsBoth,
           HeldWhereItStands, MoveOn, Goto
      <4> QED BY <1>1, <2>1, <2>3, <3>1, <4>1 DEF WalkInv, SearchTypeOK, MoveOn
    <3>2. CASE p # t
      BY <1>1, <2>1, <2>3, <3>2 DEF WalkInv, SearchTypeOK, MoveOn
    <3> QED BY <3>1, <3>2
  <2> QED
    BY <1>1, <2>2, <2>3
    DEF SearchNext, Member, LockHead, LockNext, Answer, MainStep,
        Join, FreeNode, Exit, Exited, searchVars
<1> QED BY <1>1, WalkInvariant, PTL DEF SearchSpec, NoOvertaking
================================================================================
