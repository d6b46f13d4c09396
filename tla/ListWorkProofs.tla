----------------------------- MODULE ListWorkProofs ----------------------------
(* Proofs about the sorted list of pth_ll_rwl.c, its threads and its lock, for   *)
(* every number of threads, operations, keys and addresses.                      *)
(*                                                                               *)
(* Four parts.  Access: that a thread that changes the list is alone there rests *)
(* on three facts that hold together: a thread inside the list holds the lock    *)
(* its operation calls for, a thread outside holds none, and main is inside only *)
(* before the threads exist.  Totals: what the threads owe and what is counted   *)
(* make one sum.  Sorted lists: what a sorted chain of nodes is, whatever the    *)
(* variables, and what linking and unlinking a node makes of it.  The list: it   *)
(* is such a chain in every state, and every walk is where the chain lets it be; *)
(* memory safety, the absence of leaks and the refinement of SharedSet follow.   *)
EXTENDS ListWork, FiniteSetTheorems, TLAPS

(* The thread holds the lock its operation calls for, while inside the list only. *)
HoldsRightLock(t) ==
    IF pc[t] \in InList
    THEN \/ t \in reading /\ call[t].op = "member"
         \/ t \in writing /\ call[t].op # "member"
    ELSE t \notin reading \cup writing

OneWriter ==
    /\ writing # {} => reading = {}
    /\ \A t, u \in writing : t = u

MainFirst ==
    \/ \A t \in Threads : pc[t] = "none"
    \/ pc[Main] \in {"join", "free", "exit"} /\ \A t \in Threads : pc[t] # "none"

AccessInv ==
    /\ TypeOK
    /\ \A t \in Threads : HoldsRightLock(t)
    /\ OneWriter
    /\ MainFirst

--------------------------------------------------------------------------------
(* Types *)

LEMMA OpsPerThreadType == ops_per_thread \in Nat
<1>1. thread_count \in Nat /\ thread_count # 0
  BY ProcsAssumption, FS_CardinalityType, FS_EmptySet DEF thread_count
<1> QED BY <1>1, InputAssumption DEF ops_per_thread

(* TypeOK in three parts, so that each step deals with the part it changes. *)
HeapOK ==
    /\ head \in Pointers
    /\ data \in [Addrs -> Keys \cup {0}]
    /\ next \in [Addrs -> Pointers]
    /\ alloc \subseteq Addrs

CallOK == call \in [Procs -> Calls]

ControlOK ==
    /\ Lock!LockTypeOK
    /\ count_mutex \in Threads \cup {NoThread}
    /\ counts \in [Kinds -> Nat]
    /\ pc \in [Procs -> Locations]
    /\ left \in [Threads -> Nat]
    /\ mine \in [Threads -> [Kinds -> Nat]]
    /\ loaded \in [Threads -> [Kinds -> Nat]]
    /\ inserted \in Nat /\ attempts \in Nat

LEMMA TypeParts == TypeOK <=> HeapOK /\ CallOK /\ ControlOK
BY DEF TypeOK, HeapOK, CallOK, ControlOK

LEMMA TypePartsNext == HeapOK' /\ CallOK' /\ ControlOK' => TypeOK'
BY DEF TypeOK, HeapOK, CallOK, ControlOK

LEMMA NoCallType == NoCall \in Calls
BY DEF NoCall, Calls, Pointers

LEMMA CallOfType ==
    ASSUME NEW op \in Kinds, NEW k \in Keys PROVE CallOf(op, k) \in Calls
BY DEF CallOf, NoCall, Calls, Pointers

LEMMA CallFields ==
    ASSUME CallOK, NEW p \in Procs
    PROVE  /\ call[p].curr \in Pointers /\ call[p].pred \in Pointers
           /\ call[p].temp \in Pointers /\ call[p].val \in Keys \cup {0}
BY DEF CallOK, Calls

LEMMA ListTypeInit == Init => TypeOK
<1> SUFFICES ASSUME Init PROVE TypeOK OBVIOUS
<1>1. HeapOK BY DEF Init, HeapOK, Pointers
<1>2. CallOK BY NoCallType DEF Init, CallOK
<1>3. ControlOK
  BY DEF Init, ControlOK, Locations, NoCounts, Lock!LockInit, Lock!LockTypeOK
<1> QED BY <1>1, <1>2, <1>3, TypeParts

LEMMA ListStepType ==
    ASSUME TypeOK, NEW p \in Procs, ListStep(p) PROVE TypeOK'
<1>1. HeapOK /\ CallOK /\ ControlOK BY TypeParts
<1>2. ControlOK'
  BY <1>1 DEF ControlOK, ListStep, Enter, Walk, ReturnUnchanged, InsertAlloc,
     InsertPublish, DeleteUnlink, DeleteFree, Goto, Locations, lock, totals,
     mainVars, Lock!LockTypeOK
<1>3. CASE Enter(p)
  <2>1. HeapOK' BY <1>1, <1>3 DEF HeapOK, Enter, heap
  <2>2. CallOK' BY <1>1, <1>3 DEF HeapOK, CallOK, Calls, Enter
  <2> QED BY <1>2, <2>1, <2>2, TypePartsNext
<1>4. CASE Walk(p)
  <2>1. HeapOK' BY <1>1, <1>4 DEF HeapOK, Walk, heap
  <2>2. call[p].curr \in Addrs
    BY <1>1, <1>4, CallFields DEF Walk, Ahead, Pointers
  <2>3. next[call[p].curr] \in Pointers BY <1>1, <2>2 DEF HeapOK
  <2>4. CallOK' BY <1>1, <1>4, <2>3 DEF CallOK, Calls, Walk
  <2> QED BY <1>2, <2>1, <2>4, TypePartsNext
<1>5. CASE ReturnUnchanged(p)
  <2>1. HeapOK' BY <1>1, <1>5 DEF HeapOK, ReturnUnchanged, heap
  <2>2. (call[p].op = "member" /\ Found(p)) \in BOOLEAN BY DEF Found
  <2>3. CallOK' BY <1>1, <1>5, <2>2 DEF CallOK, Calls, ReturnUnchanged
  <2> QED BY <1>2, <2>1, <2>3, TypePartsNext
<1>6. CASE InsertAlloc(p)
  <2>1. PICK a \in Addrs \ alloc :
          /\ alloc' = alloc \cup {a}
          /\ data' = [data EXCEPT ![a] = call[p].val]
          /\ next' = [next EXCEPT ![a] = call[p].curr]
          /\ call' = [call EXCEPT ![p].temp = a]
    BY <1>6 DEF InsertAlloc
  <2>2. head' = head BY <1>6 DEF InsertAlloc
  <2>3. HeapOK' BY <1>1, <2>1, <2>2, CallFields DEF HeapOK
  <2>4. a \in Pointers BY DEF Pointers
  <2>5. CallOK' BY <1>1, <2>1, <2>4 DEF CallOK, Calls
  <2> QED BY <1>2, <2>3, <2>5, TypePartsNext
<1>7. CASE InsertPublish(p)
  <2>1. HeapOK' BY <1>1, <1>7, CallFields DEF HeapOK, InsertPublish, Link
  <2>2. CallOK' BY <1>1, <1>7 DEF CallOK, Calls, InsertPublish
  <2> QED BY <1>2, <2>1, <2>2, TypePartsNext
<1>8. CASE DeleteUnlink(p)
  <2>1. call[p].curr \in Addrs
    BY <1>1, <1>8, CallFields DEF DeleteUnlink, Found, Pointers
  <2>2. next[call[p].curr] \in Pointers BY <1>1, <2>1 DEF HeapOK
  <2>3. HeapOK' BY <1>1, <1>8, <2>2 DEF HeapOK, DeleteUnlink, Link
  <2>4. CallOK' BY <1>1, <1>8 DEF CallOK, Calls, DeleteUnlink
  <2> QED BY <1>2, <2>3, <2>4, TypePartsNext
<1>9. CASE DeleteFree(p)
  <2>1. HeapOK' BY <1>1, <1>9 DEF HeapOK, DeleteFree, Free, Pointers
  <2>2. CallOK' BY <1>1, <1>9 DEF CallOK, DeleteFree
  <2> QED BY <1>2, <2>1, <2>2, TypePartsNext
<1> QED BY <1>3, <1>4, <1>5, <1>6, <1>7, <1>8, <1>9 DEF ListStep

LEMMA BumpCount ==
    ASSUME NEW c \in [Kinds -> Nat], NEW kind
    PROVE  [c EXCEPT ![kind] = @ + 1] \in [Kinds -> Nat]
<1> DEFINE d == [c EXCEPT ![kind] = @ + 1]
<1>1. \A k \in Kinds : d[k] \in Nat
  <2> TAKE k \in Kinds
  <2>1. c[k] \in Nat OBVIOUS
  <2>2. d[k] = IF k = kind THEN c[k] + 1 ELSE c[k] OBVIOUS
  <2> QED BY <2>1, <2>2
<1>2. d = [k \in Kinds |-> d[k]] OBVIOUS
<1> HIDE DEF d
<1>3. d \in [Kinds -> Nat] BY <1>1, <1>2
<1> QED BY <1>3 DEF d

LEMMA ThreadStepType ==
    ASSUME TypeOK, NEW t \in Threads, ThreadStep(t) PROVE TypeOK'
<1>1. HeapOK /\ CallOK /\ ControlOK BY TypeParts
<1>2. t \in Procs BY DEF Procs
<1> USE DEF Goto, Locations, heap, lock, totals, mainVars
<1>3. CASE PickOp(t)
  <2>1. HeapOK' BY <1>1, <1>3 DEF HeapOK, PickOp
  <2>2. CallOK' BY <1>1, <1>3, CallOfType DEF CallOK, PickOp
  <2>3. left' \in [Threads -> Nat] BY <1>1, <1>3 DEF ControlOK, PickOp
  <2>4. pc' \in [Procs -> Locations] BY <1>1, <1>3 DEF ControlOK, PickOp
  <2>5. UNCHANGED <<lock, totals, mainVars>> BY <1>3 DEF PickOp
  <2>6. ControlOK' BY <1>1, <2>3, <2>4, <2>5 DEF ControlOK, Lock!LockTypeOK
  <2> QED BY <2>1, <2>2, <2>6, TypePartsNext
<1>4. CASE Acquire(t)
  <2>1. HeapOK' BY <1>1, <1>4 DEF HeapOK, Acquire
  <2>2. CallOK' BY <1>1, <1>4 DEF CallOK, Acquire
  <2>3. ControlOK'
    BY <1>1, <1>4 DEF ControlOK, Acquire, LockFor, Lock!LockTypeOK,
       Lock!AcquireRead, Lock!AcquireWrite
  <2> QED BY <2>1, <2>2, <2>3, TypePartsNext
<1>5. CASE ListStep(t) BY <1>2, <1>5, ListStepType
<1>6. CASE ReleaseAndCount(t)
  <2>1. HeapOK' BY <1>1, <1>6 DEF HeapOK, ReleaseAndCount
  <2>2. CallOK' BY <1>1, <1>6, NoCallType DEF CallOK, ReleaseAndCount
  <2>3. mine' \in [Threads -> [Kinds -> Nat]]
    <3>1. mine[t] \in [Kinds -> Nat] BY <1>1 DEF ControlOK
    <3>2. [mine[t] EXCEPT ![call[t].op] = @ + 1] \in [Kinds -> Nat]
      BY <3>1, BumpCount
    <3>3. mine' = [mine EXCEPT ![t] = [mine[t] EXCEPT ![call[t].op] = @ + 1]]
      BY <1>6 DEF ReleaseAndCount
    <3> QED BY <1>1, <3>2, <3>3 DEF ControlOK
  <2>4. ControlOK'
    BY <1>1, <1>6, <2>3 DEF ControlOK, ReleaseAndCount, Lock!LockTypeOK, Lock!Release
  <2> QED BY <2>1, <2>2, <2>4, TypePartsNext
<1>7. CASE LockCounts(t) \/ LoadCounts(t) \/ StoreCounts(t)
  <2>1. HeapOK' BY <1>1, <1>7 DEF HeapOK, LockCounts, LoadCounts, StoreCounts
  <2>2. CallOK' BY <1>1, <1>7 DEF CallOK, LockCounts, LoadCounts, StoreCounts
  <2>3. CASE LockCounts(t) \/ LoadCounts(t)
    <3>1. ControlOK'
      BY <1>1, <2>3 DEF ControlOK, LockCounts, LoadCounts, Lock!LockTypeOK
    <3> QED BY <2>1, <2>2, <3>1, TypePartsNext
  <2>4. CASE StoreCounts(t)
    <3>1. loaded[t] \in [Kinds -> Nat] /\ mine[t] \in [Kinds -> Nat]
      BY <1>1 DEF ControlOK
    <3>2. counts' \in [Kinds -> Nat] BY <2>4, <3>1 DEF StoreCounts
    <3>3. pc' \in [Procs -> Locations] BY <1>1, <2>4 DEF ControlOK, StoreCounts
    <3>4. count_mutex' = NoThread /\ UNCHANGED <<lock, mine, loaded, left, mainVars>>
      BY <2>4 DEF StoreCounts
    <3>5. ControlOK' BY <1>1, <3>2, <3>3, <3>4 DEF ControlOK, Lock!LockTypeOK
    <3> QED BY <2>1, <2>2, <3>5, TypePartsNext
  <2> QED BY <1>7, <2>3, <2>4
<1> QED BY <1>3, <1>4, <1>5, <1>6, <1>7 DEF ThreadStep

LEMMA MainStepType == ASSUME TypeOK, MainStep PROVE TypeOK'
<1>1. HeapOK /\ CallOK /\ ControlOK BY TypeParts
<1>2. Main \in Procs BY DEF Procs
<1> USE DEF Goto, Locations, heap, lock, totals, mainVars
<1>3. CASE MainInsert
  <2>1. HeapOK' BY <1>1, <1>3 DEF HeapOK, MainInsert
  <2>2. CallOK' BY <1>1, <1>3, CallOfType DEF CallOK, MainInsert, Kinds
  <2>3. ControlOK' BY <1>1, <1>3 DEF ControlOK, MainInsert, Lock!LockTypeOK
  <2> QED BY <2>1, <2>2, <2>3, TypePartsNext
<1>4. CASE ListStep(Main) BY <1>2, <1>4, ListStepType
<1>5. CASE MainInserted
  <2>1. HeapOK' BY <1>1, <1>5 DEF HeapOK, MainInserted
  <2>2. CallOK' BY <1>1, <1>5, NoCallType DEF CallOK, MainInserted
  <2>3. inserted' \in Nat /\ attempts' \in Nat
    BY <1>1, <1>5 DEF ControlOK, MainInserted
  <2>4. pc' \in [Procs -> Locations] /\ UNCHANGED <<lock, totals, left>>
    BY <1>1, <1>5 DEF ControlOK, MainInserted
  <2>5. ControlOK' BY <1>1, <2>3, <2>4 DEF ControlOK, Lock!LockTypeOK
  <2> QED BY <2>1, <2>2, <2>5, TypePartsNext
<1>6. CASE CreateThreads
  <2>1. HeapOK' BY <1>1, <1>6 DEF HeapOK, CreateThreads
  <2>2. CallOK' BY <1>1, <1>6 DEF CallOK, CreateThreads
  <2>3. ControlOK'
    BY <1>1, <1>6, OpsPerThreadType DEF ControlOK, CreateThreads, Lock!LockTypeOK
  <2> QED BY <2>1, <2>2, <2>3, TypePartsNext
<1>7. CASE Join
  <2>1. HeapOK' BY <1>1, <1>7 DEF HeapOK, Join
  <2>2. CallOK' BY <1>1, <1>7 DEF HeapOK, CallOK, Calls, Join
  <2>3. ControlOK' BY <1>1, <1>7 DEF ControlOK, Join, Lock!LockTypeOK
  <2> QED BY <2>1, <2>2, <2>3, TypePartsNext
<1>8. CASE FreeNode
  <2>1. call[Main].curr \in Addrs
    BY <1>1, <1>2, <1>8, CallFields DEF FreeNode, Pointers
  <2>2. next[call[Main].curr] \in Pointers BY <1>1, <2>1 DEF HeapOK
  <2>3. HeapOK' BY <1>1, <1>8 DEF HeapOK, FreeNode, Free, Pointers
  <2>4. CallOK' BY <1>1, <1>8, <2>2 DEF CallOK, Calls, FreeNode
  <2>5. ControlOK' BY <1>1, <1>8 DEF ControlOK, FreeNode, Lock!LockTypeOK
  <2> QED BY <2>3, <2>4, <2>5, TypePartsNext
<1>9. CASE Exit
  <2>1. HeapOK' BY <1>1, <1>9 DEF HeapOK, Exit
  <2>2. CallOK' BY <1>1, <1>9 DEF CallOK, Exit
  <2>3. ControlOK' BY <1>1, <1>9 DEF ControlOK, Exit, Lock!LockTypeOK
  <2> QED BY <2>1, <2>2, <2>3, TypePartsNext
<1> QED BY <1>3, <1>4, <1>5, <1>6, <1>7, <1>8, <1>9 DEF MainStep

LEMMA StutterType == ASSUME TypeOK, UNCHANGED vars PROVE TypeOK'
BY DEF TypeOK, vars, heap, lock, totals, mainVars, Lock!LockTypeOK

--------------------------------------------------------------------------------
(* Who is in the list *)

(* A step of a list operation keeps the process in the list, in the same kind of *)
(* operation, and touches neither the lock nor another process.                  *)
LEMMA ListStepStays ==
    ASSUME TypeOK, NEW p \in Procs, ListStep(p)
    PROVE  /\ pc[p] \in InList /\ pc'[p] \in InList
           /\ call'[p].op = call[p].op
           /\ \A q \in Procs \ {p} : pc'[q] = pc[q] /\ call'[q] = call[q]
           /\ UNCHANGED lock
<1>1. pc \in [Procs -> Locations] /\ call \in [Procs -> Calls] BY DEF TypeOK
<1> USE <1>1 DEF InList, Goto, Calls
<1>2. CASE Enter(p) BY <1>2 DEF Enter
<1>3. CASE Walk(p) BY <1>3 DEF Walk
<1>4. CASE ReturnUnchanged(p) BY <1>4 DEF ReturnUnchanged
<1>5. CASE InsertAlloc(p) BY <1>5 DEF InsertAlloc
<1>6. CASE InsertPublish(p) BY <1>6 DEF InsertPublish
<1>7. CASE DeleteUnlink(p) BY <1>7 DEF DeleteUnlink
<1>8. CASE DeleteFree(p) BY <1>8 DEF DeleteFree
<1> QED BY <1>2, <1>3, <1>4, <1>5, <1>6, <1>7, <1>8 DEF ListStep

LEMMA AccessInvInit == Init => AccessInv
<1> SUFFICES ASSUME Init PROVE AccessInv OBVIOUS
<1>1. TypeOK BY ListTypeInit
<1>2. \A t \in Threads : t \in Procs /\ t # Main BY ProcsAssumption DEF Procs
<1> QED BY <1>1, <1>2 DEF Init, AccessInv, HoldsRightLock, OneWriter, MainFirst, InList,
           Lock!LockInit

LEMMA ThreadAccess ==
    ASSUME AccessInv, NEW t \in Threads, ThreadStep(t) PROVE AccessInv'
<1>1. TypeOK' BY ThreadStepType DEF AccessInv
<1>2. t \in Procs /\ t # Main /\ Threads \subseteq Procs /\ Main \in Procs
  BY ProcsAssumption DEF Procs
<1>3. pc \in [Procs -> Locations] /\ call \in [Procs -> Calls]
  BY DEF AccessInv, TypeOK
<1>4. /\ pc[t] # "none" /\ pc'[t] # "none"
      /\ \A q \in Procs \ {t} : pc'[q] = pc[q] /\ call'[q] = call[q]
  <2>1. CASE ListStep(t) BY <1>2, <2>1, ListStepStays DEF AccessInv, InList
  <2>2. CASE ~ListStep(t)
    BY <1>2, <1>3, <2>2 DEF ThreadStep, PickOp, Acquire, ReleaseAndCount, LockCounts,
       LoadCounts, StoreCounts, Goto
  <2> QED BY <2>1, <2>2
<1>5. MainFirst' BY <1>2, <1>4 DEF AccessInv, MainFirst
<1>6. CASE ListStep(t)
  <2>1. \A u \in Threads : HoldsRightLock(u)'
    BY <1>2, <1>6, ListStepStays DEF AccessInv, HoldsRightLock, lock
  <2>2. OneWriter' BY <1>2, <1>6, ListStepStays DEF AccessInv, OneWriter, lock
  <2> QED BY <1>1, <1>5, <2>1, <2>2 DEF AccessInv
<1>7. CASE PickOp(t) \/ LockCounts(t) \/ LoadCounts(t) \/ StoreCounts(t)
  <2>1. /\ pc[t] \notin InList /\ pc'[t] \notin InList /\ UNCHANGED lock
    BY <1>2, <1>3, <1>7 DEF PickOp, LockCounts, LoadCounts, StoreCounts, Goto, InList
  <2>2. \A u \in Threads : HoldsRightLock(u)'
    BY <1>2, <1>4, <2>1 DEF AccessInv, HoldsRightLock, lock
  <2>3. OneWriter' BY <2>1 DEF AccessInv, OneWriter, lock
  <2> QED BY <1>1, <1>5, <2>2, <2>3 DEF AccessInv
<1>8. CASE Acquire(t)
  <2>1. pc'[t] \in InList /\ call' = call
    BY <1>2, <1>3, <1>8 DEF Acquire, Goto, InList
  <2>2. CASE call[t].op = "member"
    <3>1. writing = {} /\ writing' = {} /\ reading' = reading \cup {t}
      BY <1>8, <2>2 DEF Acquire, LockFor, Lock!AcquireRead
    <3>2. \A u \in Threads : HoldsRightLock(u)'
      BY <1>2, <1>4, <2>1, <2>2, <3>1 DEF AccessInv, HoldsRightLock
    <3> QED BY <1>1, <1>5, <3>1, <3>2 DEF AccessInv, OneWriter
  <2>3. CASE call[t].op # "member"
    <3>1. /\ reading = {} /\ reading' = {} /\ writing = {} /\ writing' = {t}
      BY <1>8, <2>3 DEF Acquire, LockFor, Lock!AcquireWrite
    <3>2. \A u \in Threads : HoldsRightLock(u)'
      BY <1>2, <1>4, <2>1, <2>3, <3>1 DEF AccessInv, HoldsRightLock
    <3> QED BY <1>1, <1>5, <3>1, <3>2 DEF AccessInv, OneWriter
  <2> QED BY <2>2, <2>3
<1>9. CASE ReleaseAndCount(t)
  <2>1. pc'[t] \notin InList
    BY <1>2, <1>3, <1>9 DEF ReleaseAndCount, Goto, InList
  <2>2. reading' = reading \ {t} /\ writing' = writing \ {t}
    BY <1>9 DEF ReleaseAndCount, Lock!Release
  <2>3. \A u \in Threads : HoldsRightLock(u)'
    BY <1>2, <1>4, <2>1, <2>2 DEF AccessInv, HoldsRightLock
  <2> QED BY <1>1, <1>5, <2>2, <2>3 DEF AccessInv, OneWriter
<1> QED BY <1>6, <1>7, <1>8, <1>9 DEF ThreadStep

LEMMA MainAccess == ASSUME AccessInv, MainStep PROVE AccessInv'
<1>1. TypeOK' BY MainStepType DEF AccessInv
<1>2. Main \in Procs /\ Threads \subseteq Procs \ {Main}
  BY ProcsAssumption DEF Procs
<1>3. pc \in [Procs -> Locations] /\ call \in [Procs -> Calls]
  BY DEF AccessInv, TypeOK
<1>4. UNCHANGED lock
  <2>1. CASE ListStep(Main) BY <1>2, <2>1, ListStepStays DEF AccessInv
  <2>2. CASE ~ListStep(Main)
    BY <2>2 DEF MainStep, MainInsert, MainInserted, CreateThreads, Join, FreeNode, Exit
  <2> QED BY <2>1, <2>2
<1>5. CASE CreateThreads
  <2>1. \A t \in Threads : pc'[t] = "loop" BY <1>2, <1>5 DEF CreateThreads
  <2>2. pc'[Main] = "join" /\ pc[Main] = "populate" BY <1>2, <1>5 DEF CreateThreads
  <2>3. \A t \in Threads : pc[t] = "none" BY <2>2 DEF AccessInv, MainFirst
  <2>4. \A t \in Threads : HoldsRightLock(t)'
    BY <1>4, <2>1, <2>3 DEF AccessInv, HoldsRightLock, InList, lock
  <2>5. MainFirst' BY <2>1, <2>2 DEF MainFirst
  <2> QED BY <1>1, <1>4, <2>4, <2>5 DEF AccessInv, OneWriter, lock
<1>6. CASE ~CreateThreads
  <2>1. \A t \in Threads : pc'[t] = pc[t] /\ call'[t] = call[t]
    <3>1. CASE ListStep(Main) BY <1>2, <3>1, ListStepStays DEF AccessInv
    <3>2. CASE ~ListStep(Main)
      BY <1>2, <1>3, <1>6, <3>2 DEF MainStep, MainInsert, MainInserted, Join, FreeNode,
         Exit, Goto
    <3> QED BY <3>1, <3>2
  <2>2. \A t \in Threads : HoldsRightLock(t)'
    BY <1>4, <2>1 DEF AccessInv, HoldsRightLock, lock
  <2>3. pc[Main] \in {"join", "free", "exit"} => pc'[Main] \in {"join", "free", "exit"}
    <3>1. CASE ListStep(Main) BY <1>2, <3>1, ListStepStays DEF AccessInv, InList
    <3>2. CASE ~ListStep(Main)
      BY <1>2, <1>3, <1>6, <3>2 DEF MainStep, MainInsert, MainInserted, Join, FreeNode,
         Exit, Goto
    <3> QED BY <3>1, <3>2
  <2>4. MainFirst' BY <2>1, <2>3 DEF AccessInv, MainFirst
  <2> QED BY <1>1, <1>4, <2>2, <2>4 DEF AccessInv, OneWriter, lock
<1> QED BY <1>5, <1>6

LEMMA AccessInvStep == AccessInv /\ [Next]_vars => AccessInv'
<1> SUFFICES ASSUME AccessInv, [Next]_vars PROVE AccessInv' OBVIOUS
<1>1. ASSUME UNCHANGED vars PROVE AccessInv'
  <2>1. TypeOK' BY <1>1, StutterType DEF AccessInv
  <2>2. UNCHANGED <<reading, writing, pc, call>> BY <1>1 DEF vars, lock
  <2> QED BY <2>1, <2>2 DEF AccessInv, HoldsRightLock, OneWriter, MainFirst
<1> QED BY <1>1, ThreadAccess, MainAccess DEF Next, Exited

--------------------------------------------------------------------------------
(* Who is in the list: the theorems *)

(* Whoever is in the list holds the lock for what it does there. *)
THEOREM AccessInvariant == Spec => []AccessInv
BY AccessInvInit, AccessInvStep, PTL DEF Spec

(* Every variable keeps its type: a node's next, a thread's curr and pred are    *)
(* addresses or NULL, and no loop of Thread_work runs below zero.                *)
THEOREM ListTypeCorrect == Spec => []TypeOK
<1>1. AccessInv => TypeOK BY DEF AccessInv
<1> QED BY <1>1, AccessInvariant, PTL

LEMMA AccessAlone == AccessInv => ChangesAlone
<1> SUFFICES ASSUME AccessInv, NEW p \in Procs, NEW q \in Procs, p # q,
                    pc[p] \in InList, pc[q] \in InList
             PROVE  call[p].op = "member" /\ call[q].op = "member"
  BY DEF ChangesAlone
<1>1. p \in Threads /\ q \in Threads
  BY DEF AccessInv, MainFirst, Procs, InList
<1> QED BY <1>1 DEF AccessInv, HoldsRightLock, OneWriter

(* A thread that changes the list is alone in it, and main is there before every *)
(* thread or after (pth_ll_rwl.c:292-306).                                       *)
THEOREM WriterAlone == Spec => []ChangesAlone
BY AccessAlone, AccessInvariant, PTL

--------------------------------------------------------------------------------
(* Totals *)

(* The sum that MapThenSumSet computes is counted here: g[t] tokens for every t. *)
Tokens(g, S) == {x \in S \X Nat : x[2] < g[x[1]]}

LEMMA TokensOfOne ==
    ASSUME NEW x, NEW n \in Nat
    PROVE  IsFiniteSet({x} \X (0 .. n - 1)) /\ Cardinality({x} \X (0 .. n - 1)) = n
<1>1. IsFiniteSet({x}) /\ Cardinality({x}) = 1
  BY FS_Singleton
<1>2. IsFiniteSet(0 .. n - 1) /\ Cardinality(0 .. n - 1) = n
  BY FS_Interval
<1>3. /\ IsFiniteSet({x} \X (0 .. n - 1))
      /\ Cardinality({x} \X (0 .. n - 1)) = Cardinality({x}) * Cardinality(0 .. n - 1)
  BY <1>1, <1>2, FS_Product
<1> QED
  BY <1>1, <1>2, <1>3

LEMMA TokensSplit ==
    ASSUME NEW S, NEW g \in [S -> Nat], NEW x \in S
    PROVE  /\ Tokens(g, S) = Tokens(g, S \ {x}) \cup ({x} \X (0 .. g[x] - 1))
           /\ Tokens(g, S \ {x}) \cap ({x} \X (0 .. g[x] - 1)) = {}
<1>1. g[x] \in Nat
  OBVIOUS
<1>2. \A i \in Nat : i < g[x] <=> i \in 0 .. g[x] - 1
  BY <1>1
<1>3. Tokens(g, S) \subseteq Tokens(g, S \ {x}) \cup ({x} \X (0 .. g[x] - 1))
  BY <1>2 DEF Tokens
<1>4. ({x} \X (0 .. g[x] - 1)) \subseteq Tokens(g, S)
  BY <1>1 DEF Tokens
<1>5. Tokens(g, S \ {x}) \subseteq Tokens(g, S) /\ Tokens(g, S \ {x}) \cap ({x} \X (0 .. g[x] - 1)) = {}
  BY DEF Tokens
<1> QED
  BY <1>3, <1>4, <1>5

(* A set of subsets of a finite set has a minimal member. *)
LEMMA MinimalSubset ==
    ASSUME NEW T, IsFiniteSet(T), NEW D \in SUBSET SUBSET T, D # {}
    PROVE  \E S \in D : \A R \in D : R \subseteq S => R = S
<1>1. D \subseteq FiniteSubsetsOf(T)
  BY FS_Subset DEF FiniteSubsetsOf
<1>2. PICK S \in D : \A R \in D : ~(<<R, S>> \in StrictSubsetOrdering(T))
  BY <1>1, FS_StrictSubsetOrderingWellFounded, WFMin
<1> QED
  BY <1>2 DEF StrictSubsetOrdering

LEMMA TokensFinite ==
    ASSUME NEW T, IsFiniteSet(T), NEW g \in [T -> Nat]
    PROVE  \A S \in SUBSET T : IsFiniteSet(Tokens(g, S))
<1> DEFINE D == {S \in SUBSET T : ~IsFiniteSet(Tokens(g, S))}
<1>1. D = {}
  <2> SUFFICES ASSUME D # {} PROVE FALSE
    OBVIOUS
  <2>1. PICK S \in D : \A R \in D : R \subseteq S => R = S
    <3>1. D \in SUBSET SUBSET T
      OBVIOUS
    <3> HIDE DEF D
    <3> QED
      BY <3>1, MinimalSubset
  <2>2. S # {}
    <3>1. Tokens(g, {}) = {}
      BY DEF Tokens
    <3> QED
      BY <3>1, FS_EmptySet
  <2>3. PICK x \in S : TRUE
    BY <2>2
  <2>4. IsFiniteSet(Tokens(g, S \ {x}))
    BY <2>1, <2>3
  <2>5. Tokens(g, S) = Tokens(g, S \ {x}) \cup ({x} \X (0 .. g[x] - 1))
    <3> DEFINE h == [y \in S |-> g[y]]
    <3>1. h \in [S -> Nat]
      OBVIOUS
    <3>2. Tokens(h, S) = Tokens(h, S \ {x}) \cup ({x} \X (0 .. h[x] - 1))
      BY <3>1, TokensSplit
    <3> QED
      BY <3>2 DEF Tokens
  <2>6. IsFiniteSet({x} \X (0 .. g[x] - 1))
    <3>1. g[x] \in Nat
      BY <2>3
    <3> QED
      BY <3>1, TokensOfOne
  <2>7. IsFiniteSet(Tokens(g, S))
    <3>1. PICK A, B : A = Tokens(g, S \ {x}) /\ B = {x} \X (0 .. g[x] - 1)
      OBVIOUS
    <3>2. IsFiniteSet(A \cup B)
      BY <2>4, <2>6, <3>1, FS_Union
    <3> QED
      BY <2>5, <3>1, <3>2
  <2> QED
    BY <2>7
<1> QED
  BY <1>1

LEMMA TokensAdd ==
    ASSUME NEW T, IsFiniteSet(T), NEW g \in [T -> Nat], NEW S \in SUBSET T, NEW x \in S
    PROVE  Cardinality(Tokens(g, S)) = g[x] + Cardinality(Tokens(g, S \ {x}))
<1> DEFINE h == [y \in S |-> g[y]]
<1>1. h \in [S -> Nat] /\ h[x] = g[x] /\ Tokens(h, S) = Tokens(g, S) /\ Tokens(h, S \ {x}) = Tokens(g, S \ {x})
  BY DEF Tokens
<1> HIDE DEF h
<1>2. /\ Tokens(g, S) = Tokens(g, S \ {x}) \cup ({x} \X (0 .. g[x] - 1))
      /\ Tokens(g, S \ {x}) \cap ({x} \X (0 .. g[x] - 1)) = {}
  <2>1. /\ Tokens(h, S) = Tokens(h, S \ {x}) \cup ({x} \X (0 .. h[x] - 1))
        /\ Tokens(h, S \ {x}) \cap ({x} \X (0 .. h[x] - 1)) = {}
    BY <1>1, TokensSplit
  <2> QED
    BY <1>1, <2>1
<1>3. IsFiniteSet(Tokens(g, S \ {x})) /\ Cardinality(Tokens(g, S \ {x})) \in Nat
  BY TokensFinite, FS_CardinalityType
<1>4. g[x] \in Nat /\ IsFiniteSet({x} \X (0 .. g[x] - 1)) /\ Cardinality({x} \X (0 .. g[x] - 1)) = g[x]
  BY TokensOfOne
<1>5. Cardinality(Tokens(g, S)) = Cardinality(Tokens(g, S \ {x})) + g[x] - 0
  <2> DEFINE A == Tokens(g, S \ {x})
             B == {x} \X (0 .. g[x] - 1)
  <2>1. Cardinality(A \cup B) = Cardinality(A) + Cardinality(B) - Cardinality(A \cap B)
    <3> HIDE DEF A, B
    <3>1. IsFiniteSet(A) /\ IsFiniteSet(B)
      BY <1>3, <1>4 DEF A, B
    <3> QED
      BY <3>1, FS_Union
  <2>2. Cardinality(A \cap B) = 0
    BY <1>2, FS_EmptySet
  <2> QED
    BY <1>2, <1>4, <2>1, <2>2
<1> QED
  BY <1>3, <1>4, <1>5

(* What MapThenSumSet says of itself, and what that makes of it. *)
Adds(f, g, T) ==
    f = [s \in SUBSET T |->
            IF s = {} THEN 0
            ELSE g[CHOOSE x \in s : TRUE] + f[s \ {CHOOSE x \in s : TRUE}]]

LEMMA AddsExists ==
    ASSUME NEW T, IsFiniteSet(T), NEW g \in [T -> Nat]
    PROVE  Adds([s \in SUBSET T |-> Cardinality(Tokens(g, s))], g, T)
<1> DEFINE f == [s \in SUBSET T |-> Cardinality(Tokens(g, s))]
<1>1. Cardinality(Tokens(g, {})) = 0
  <2>1. Tokens(g, {}) = {}
    BY DEF Tokens
  <2> QED
    BY <2>1, FS_EmptySet
<1>2. ASSUME NEW s \in SUBSET T, s # {}
      PROVE  f[s] = g[CHOOSE x \in s : TRUE] + f[s \ {CHOOSE x \in s : TRUE}]
  <2>1. PICK y : y = CHOOSE x \in s : TRUE
    OBVIOUS
  <2>2. y \in s
    BY <1>2, <2>1
  <2>3. f[s] = g[y] + f[s \ {y}]
    BY <2>2, TokensAdd
  <2> QED
    BY <2>1, <2>3
<1> QED
  BY <1>1, <1>2 DEF Adds

LEMMA AddsUnique ==
    ASSUME NEW T, IsFiniteSet(T), NEW g, NEW f, NEW h, Adds(f, g, T), Adds(h, g, T)
    PROVE  f = h
<1> DEFINE D == {s \in SUBSET T : f[s] # h[s]}
<1>1. D = {}
  <2> SUFFICES ASSUME D # {} PROVE FALSE
    OBVIOUS
  <2>1. PICK S \in D : \A R \in D : R \subseteq S => R = S
    <3>1. D \in SUBSET SUBSET T
      OBVIOUS
    <3> HIDE DEF D
    <3> QED
      BY <3>1, MinimalSubset
  <2>2. PICK y : y = CHOOSE x \in S : TRUE
    OBVIOUS
  <2>3. S # {} => y \in S /\ S \ {y} \in SUBSET T /\ S \ {y} \notin D
    BY <2>1, <2>2
  <2>4. /\ f[S] = IF S = {} THEN 0 ELSE g[y] + f[S \ {y}]
        /\ h[S] = IF S = {} THEN 0 ELSE g[y] + h[S \ {y}]
    BY <2>2 DEF Adds
  <2> QED
    BY <2>3, <2>4
<1> QED
  BY <1>1 DEF Adds

LEMMA OwedAdds ==
    MapThenSumSet(Owed, Threads) =
        (CHOOSE f : f = [s \in SUBSET Threads |->
            IF s = {} THEN 0
            ELSE Owed(CHOOSE x \in s : TRUE) + f[s \ {CHOOSE x \in s : TRUE}]])[Threads]
  BY DEF MapThenSumSet, MapThenFoldSet

LEMMA OwedAddsNext ==
    MapThenSumSet(Owed, Threads)' =
        (CHOOSE f : f = [s \in SUBSET Threads |->
            IF s = {} THEN 0
            ELSE Owed(CHOOSE x \in s : TRUE)' + f[s \ {CHOOSE x \in s : TRUE}]])[Threads]
  BY DEF MapThenSumSet, MapThenFoldSet

(* What the threads owe, in tokens: now and after a step. *)
LEMMA OwedIs ==
    ASSUME NEW g \in [Threads -> Nat], \A t \in Threads : Owed(t) = g[t]
    PROVE  MapThenSumSet(Owed, Threads) = Cardinality(Tokens(g, Threads))
<1> DEFINE Q(f) == f = [s \in SUBSET Threads |->
                          IF s = {} THEN 0
                          ELSE Owed(CHOOSE x \in s : TRUE) + f[s \ {CHOOSE x \in s : TRUE}]]
           f0 == [s \in SUBSET Threads |-> Cardinality(Tokens(g, s))]
<1>1. Adds(f0, g, Threads)
  BY ProcsAssumption, AddsExists
<1> HIDE DEF f0
<1>2. \A f : Q(f) <=> Adds(f, g, Threads)
  <2>1. \A s \in SUBSET Threads : s # {} => (CHOOSE x \in s : TRUE) \in Threads
    OBVIOUS
  <2>2. \A s \in SUBSET Threads : s # {} =>
            Owed(CHOOSE x \in s : TRUE) = g[CHOOSE x \in s : TRUE]
    BY <2>1
  <2> TAKE f
  <2>3. [s \in SUBSET Threads |->
           IF s = {} THEN 0 ELSE Owed(CHOOSE x \in s : TRUE) + f[s \ {CHOOSE x \in s : TRUE}]]
        = [s \in SUBSET Threads |->
           IF s = {} THEN 0 ELSE g[CHOOSE x \in s : TRUE] + f[s \ {CHOOSE x \in s : TRUE}]]
    BY <2>2
  <2> QED
    BY <2>3 DEF Adds
<1>3. PICK c : c = CHOOSE f : Q(f)
  OBVIOUS
<1>4. MapThenSumSet(Owed, Threads) = c[Threads]
  BY <1>3, OwedAdds
<1> HIDE DEF Q
<1>5. Q(c)
  BY <1>1, <1>2, <1>3
<1>6. c = f0
  BY <1>1, <1>2, <1>5, ProcsAssumption, AddsUnique
<1> QED
  BY <1>4, <1>6 DEF f0

LEMMA OwedIsNext ==
    ASSUME NEW g \in [Threads -> Nat], \A t \in Threads : Owed(t)' = g[t]
    PROVE  MapThenSumSet(Owed, Threads)' = Cardinality(Tokens(g, Threads))
<1> DEFINE Q(f) == f = [s \in SUBSET Threads |->
                          IF s = {} THEN 0
                          ELSE Owed(CHOOSE x \in s : TRUE)' + f[s \ {CHOOSE x \in s : TRUE}]]
           f0 == [s \in SUBSET Threads |-> Cardinality(Tokens(g, s))]
<1>1. Adds(f0, g, Threads)
  BY ProcsAssumption, AddsExists
<1> HIDE DEF f0
<1>2. \A f : Q(f) <=> Adds(f, g, Threads)
  <2>1. \A s \in SUBSET Threads : s # {} => (CHOOSE x \in s : TRUE) \in Threads
    OBVIOUS
  <2>2. \A s \in SUBSET Threads : s # {} =>
            Owed(CHOOSE x \in s : TRUE)' = g[CHOOSE x \in s : TRUE]
    BY <2>1
  <2> TAKE f
  <2>3. [s \in SUBSET Threads |->
           IF s = {} THEN 0 ELSE Owed(CHOOSE x \in s : TRUE)' + f[s \ {CHOOSE x \in s : TRUE}]]
        = [s \in SUBSET Threads |->
           IF s = {} THEN 0 ELSE g[CHOOSE x \in s : TRUE] + f[s \ {CHOOSE x \in s : TRUE}]]
    BY <2>2
  <2> QED
    BY <2>3 DEF Adds
<1>3. PICK c : c = CHOOSE f : Q(f)
  OBVIOUS
<1>4. MapThenSumSet(Owed, Threads)' = c[Threads]
  BY <1>3, OwedAddsNext
<1> HIDE DEF Q
<1>5. Q(c)
  BY <1>1, <1>2, <1>3
<1>6. c = f0
  BY <1>1, <1>2, <1>5, ProcsAssumption, AddsUnique
<1> QED
  BY <1>4, <1>6 DEF f0

(* One thread's debt changes. *)
LEMMA TokensChange ==
    ASSUME NEW T, IsFiniteSet(T), NEW g \in [T -> Nat], NEW h \in [T -> Nat], NEW t \in T,
           \A u \in T \ {t} : h[u] = g[u]
    PROVE  Cardinality(Tokens(h, T)) - h[t] = Cardinality(Tokens(g, T)) - g[t]
<1>1. Tokens(h, T \ {t}) = Tokens(g, T \ {t})
  BY DEF Tokens
<1>2. /\ Cardinality(Tokens(g, T)) = g[t] + Cardinality(Tokens(g, T \ {t}))
      /\ Cardinality(Tokens(h, T)) = h[t] + Cardinality(Tokens(h, T \ {t}))
  BY TokensAdd
<1>3. Cardinality(Tokens(g, T \ {t})) \in Nat /\ g[t] \in Nat /\ h[t] \in Nat
  BY TokensFinite, FS_CardinalityType
<1> QED
  BY <1>1, <1>2, <1>3

LEMMA TokensSame ==
    ASSUME NEW T, IsFiniteSet(T), NEW n \in Nat, NEW g, g = [t \in T |-> n]
    PROVE  Cardinality(Tokens(g, T)) = Cardinality(T) * n
<1>1. Tokens(g, T) = T \X (0 .. n - 1)
  BY DEF Tokens
<1>2. IsFiniteSet(0 .. n - 1) /\ Cardinality(0 .. n - 1) = n
  BY FS_Interval
<1>3. Cardinality(T \X (0 .. n - 1)) = Cardinality(T) * Cardinality(0 .. n - 1)
  BY <1>2, FS_Product
<1> QED
  BY <1>1, <1>2, <1>3

--------------------------------------------------------------------------------
(* The inductive invariant of the totals *)

CountInv ==
    /\ AccessInv
    /\ \A t \in Threads :
          /\ pc[t] = "none" => mine[t] = NoCounts
          /\ pc[t] = "none" <=> pc[Main] \notin {"join", "free", "exit"}
          /\ pc[t] \in {"count", "store"} <=> count_mutex = t
          /\ pc[t] = "store" => loaded[t] = counts
          /\ pc[t] \in {"count", "store"} => left[t] = 0
          /\ pc[t] \in InList \cup {"lock"} => call[t].op \in Kinds
    /\ pc[Main] \notin {"join", "free", "exit"} => counts = NoCounts
    /\ CountsConserved

LEMMA OwedType ==
    ASSUME TypeOK, NEW t \in Threads PROVE Owed(t) \in Nat
<1>1. mine[t] \in [Kinds -> Nat] /\ left[t] \in Nat
  BY DEF TypeOK
<1>2. Sum(mine[t]) \in Nat
  BY <1>1 DEF Sum, Kinds
<1> QED
  BY <1>1, <1>2 DEF Owed

LEMMA OwedTypeNext ==
    ASSUME TypeOK', NEW t \in Threads PROVE Owed(t)' \in Nat
<1>1. mine'[t] \in [Kinds -> Nat] /\ left'[t] \in Nat
  BY DEF TypeOK
<1>2. Sum(mine'[t]) \in Nat
  BY <1>1 DEF Sum, Kinds
<1> QED
  BY <1>1, <1>2 DEF Owed

LEMMA SumType == TypeOK => Sum(counts) \in Nat
  BY DEF TypeOK, Sum, Kinds

(* A step that changes what one thread owes, and the totals by as much.          *)
LEMMA Conserved ==
    ASSUME TypeOK, TypeOK', NEW t \in Threads,
           \A u \in Threads \ {t} : Owed(u)' = Owed(u),
           Sum(counts)' + Owed(t)' = Sum(counts) + Owed(t)
    PROVE  Sum(counts)' + MapThenSumSet(Owed, Threads)'
             = Sum(counts) + MapThenSumSet(Owed, Threads)
<1> DEFINE g == [u \in Threads |-> Owed(u)]
           h == [u \in Threads |-> Owed(u)']
<1>1. g \in [Threads -> Nat] /\ h \in [Threads -> Nat]
  BY OwedType, OwedTypeNext
<1>2. /\ \A u \in Threads : Owed(u) = g[u] /\ Owed(u)' = h[u]
      /\ \A u \in Threads \ {t} : h[u] = g[u]
  OBVIOUS
<1> HIDE DEF g, h
<1>3. MapThenSumSet(Owed, Threads) = Cardinality(Tokens(g, Threads))
  BY <1>1, <1>2, OwedIs
<1>4. MapThenSumSet(Owed, Threads)' = Cardinality(Tokens(h, Threads))
  BY <1>1, <1>2, OwedIsNext
<1>5. Cardinality(Tokens(h, Threads)) - h[t] = Cardinality(Tokens(g, Threads)) - g[t]
  BY <1>1, <1>2, ProcsAssumption, TokensChange
<1>6. /\ Cardinality(Tokens(h, Threads)) \in Nat /\ Cardinality(Tokens(g, Threads)) \in Nat
      /\ h[t] \in Nat /\ g[t] \in Nat
  BY <1>1, ProcsAssumption, TokensFinite, FS_CardinalityType
<1>7. Sum(counts) \in Int /\ Sum(counts)' \in Int
  <2>1. counts \in [Kinds -> Nat] /\ counts' \in [Kinds -> Nat]
    BY DEF TypeOK
  <2> QED
    BY <2>1 DEF Sum, Kinds
<1>8. Sum(counts)' + h[t] = Sum(counts) + g[t]
  BY <1>2
<1> QED
  BY <1>3, <1>4, <1>5, <1>6, <1>7, <1>8

(* When every thread starts, each owes its share and nothing is counted. *)
LEMMA ConservedAtStart ==
    ASSUME counts = NoCounts, \A t \in Threads : Owed(t)' = ops_per_thread, counts' = counts
    PROVE  Sum(counts)' + MapThenSumSet(Owed, Threads)' = thread_count * ops_per_thread
<1>1. PICK n \in Nat : n = ops_per_thread
  BY OpsPerThreadType
<1> DEFINE g == [t \in Threads |-> n]
<1>2. g \in [Threads -> Nat] /\ \A t \in Threads : Owed(t)' = g[t]
  BY <1>1
<1>3. Cardinality(Tokens(g, Threads)) = Cardinality(Threads) * n
  BY ProcsAssumption, TokensSame
<1> HIDE DEF g
<1>4. MapThenSumSet(Owed, Threads)' = Cardinality(Threads) * n
  BY <1>2, <1>3, OwedIsNext
<1>5. Sum(counts)' = 0
  BY DEF Sum, NoCounts, Kinds
<1>6. Cardinality(Threads) \in Nat
  BY ProcsAssumption, FS_CardinalityType
<1>7. Cardinality(Threads) * n \in Nat
  BY <1>6
<1> QED
  BY <1>1, <1>4, <1>5, <1>7 DEF thread_count

LEMMA CountThreadStep ==
    ASSUME CountInv, NEW t \in Threads, ThreadStep(t) PROVE CountInv'
<1>1. t \in Procs /\ t # Main /\ Main \in Procs /\ Threads \subseteq Procs /\ NoThread # t
  BY ProcsAssumption DEF Procs
<1>2. /\ AccessInv' /\ TypeOK /\ TypeOK' /\ AccessInv
      /\ pc \in [Procs -> Locations] /\ call \in [Procs -> Calls] /\ left \in [Threads -> Nat]
      /\ mine \in [Threads -> [Kinds -> Nat]] /\ loaded \in [Threads -> [Kinds -> Nat]]
      /\ counts \in [Kinds -> Nat]
  BY ThreadAccess DEF CountInv, AccessInv, TypeOK
<1>3. /\ pc[t] # "none" /\ pc'[t] # "none"
      /\ \A q \in Procs \ {t} : pc'[q] = pc[q] /\ call'[q] = call[q]
      /\ \A u \in Threads \ {t} : left'[u] = left[u] /\ mine'[u] = mine[u] /\ loaded'[u] = loaded[u]
  <2>1. CASE ListStep(t)
    <3>1. UNCHANGED <<left, mine, loaded>>
      BY <2>1 DEF ListStep, Enter, Walk, ReturnUnchanged, InsertAlloc, InsertPublish, DeleteUnlink,
         DeleteFree, totals
    <3> QED
      BY <1>1, <1>2, <2>1, <3>1, ListStepStays DEF InList
  <2>2. CASE ~ListStep(t)
    BY <1>1, <1>2, <2>2 DEF ThreadStep, PickOp, Acquire, ReleaseAndCount, LockCounts,
       LoadCounts, StoreCounts, Goto, totals
  <2> QED
    BY <2>1, <2>2
<1>4. \A u \in Threads \ {t} : Owed(u)' = Owed(u)
  BY <1>1, <1>3 DEF Owed
<1>5. pc'[Main] = pc[Main] /\ pc[Main] \in {"join", "free", "exit"}
  BY <1>1, <1>3 DEF CountInv
<1>6. SUFFICES
        /\ \A u \in Threads :
             /\ pc'[u] \in {"count", "store"} <=> count_mutex' = u
             /\ pc'[u] = "store" => loaded'[u] = counts'
             /\ pc'[u] \in {"count", "store"} => left'[u] = 0
             /\ pc'[u] \in InList \cup {"lock"} => call'[u].op \in Kinds
        /\ Sum(counts)' + Owed(t)' = Sum(counts) + Owed(t)
  <2>1. Sum(counts)' + MapThenSumSet(Owed, Threads)' = Sum(counts) + MapThenSumSet(Owed, Threads)
    BY <1>2, <1>4, <1>6, Conserved
  <2>2. thread_count' = thread_count /\ ops_per_thread' = ops_per_thread
    BY DEF thread_count, ops_per_thread
  <2>3. CountsConserved'
    BY <1>5, <2>1, <2>2 DEF CountInv, CountsConserved
  <2> QED
    BY <1>1, <1>2, <1>3, <1>5, <1>6, <2>3 DEF CountInv
<1>7. CASE ListStep(t)
  <2>1. UNCHANGED <<left, mine, loaded, counts, count_mutex>>
    BY <1>7 DEF ListStep, Enter, Walk, ReturnUnchanged, InsertAlloc, InsertPublish, DeleteUnlink,
       DeleteFree, totals
  <2>2. pc[t] \in InList /\ pc'[t] \in InList /\ call'[t].op = call[t].op
    BY <1>1, <1>2, <1>7, ListStepStays
  <2>3. Owed(t)' = Owed(t) /\ Sum(counts)' = Sum(counts)
    BY <2>1, <2>2 DEF Owed, InList
  <2> QED
    BY <1>1, <1>3, <2>1, <2>2, <2>3 DEF CountInv, InList
<1>8. CASE PickOp(t)
  <2>1. /\ pc[t] = "loop" /\ pc'[t] = "lock" /\ left'[t] = left[t] - 1 /\ left[t] > 0
        /\ UNCHANGED <<mine, loaded, counts, count_mutex>>
    BY <1>1, <1>2, <1>8 DEF PickOp, Goto, totals
  <2>2. call'[t].op \in Kinds
    <3>1. PICK op \in Kinds, k \in Keys : call' = [call EXCEPT ![t] = CallOf(op, k)]
      BY <1>8 DEF PickOp
    <3> QED
      BY <1>1, <1>2, <3>1 DEF CallOf, NoCall
  <2>3. Owed(t)' = Owed(t) /\ Sum(counts)' = Sum(counts)
    <3>1. left[t] \in Nat /\ Sum(mine[t]) \in Nat
      BY <1>2 DEF Sum, Kinds
    <3>2. Owed(t) = Sum(mine[t]) + left[t] + 0 /\ Owed(t)' = Sum(mine[t]) + (left[t] - 1) + 1
      BY <2>1 DEF Owed, InList
    <3> QED
      BY <2>1, <3>1, <3>2
  <2> QED
    BY <1>1, <1>3, <2>1, <2>2, <2>3 DEF CountInv
<1>9. CASE Acquire(t)
  <2>1. /\ pc[t] = "lock" /\ pc'[t] = "enter" /\ UNCHANGED <<left, mine, loaded, counts, count_mutex, call>>
    BY <1>1, <1>2, <1>9 DEF Acquire, Goto, totals
  <2>2. Owed(t)' = Owed(t) /\ Sum(counts)' = Sum(counts)
    BY <2>1 DEF Owed, InList
  <2> QED
    BY <1>1, <1>3, <2>1, <2>2 DEF CountInv
<1>10. CASE ReleaseAndCount(t)
  <2> DEFINE op == call[t].op
  <2>1. /\ pc[t] = "return" /\ pc'[t] = "loop" /\ UNCHANGED <<left, loaded, counts, count_mutex>>
        /\ mine'[t] = [mine[t] EXCEPT ![op] = @ + 1] /\ op \in Kinds
    BY <1>1, <1>2, <1>10 DEF ReleaseAndCount, Goto, CountInv, InList
  <2>2. Sum(mine'[t]) = Sum(mine[t]) + 1 /\ Sum(mine[t]) \in Nat
    <3>1. PICK m \in [Kinds -> Nat] : m = mine[t]
      BY <1>2
    <3>2. mine'[t] = [m EXCEPT ![op] = m[op] + 1]
      BY <2>1, <3>1
    <3>3. m["member"] \in Nat /\ m["insert"] \in Nat /\ m["delete"] \in Nat
      BY DEF Kinds
    <3>4. CASE op = "member"
      <4>1. mine'[t]["member"] = m["member"] + 1 /\ mine'[t]["insert"] = m["insert"]
            /\ mine'[t]["delete"] = m["delete"]
        BY <3>2, <3>4 DEF Kinds
      <4> QED
        BY <3>1, <3>3, <4>1 DEF Sum
    <3>5. CASE op = "insert"
      <4>1. mine'[t]["member"] = m["member"] /\ mine'[t]["insert"] = m["insert"] + 1
            /\ mine'[t]["delete"] = m["delete"]
        BY <3>2, <3>5 DEF Kinds
      <4> QED
        BY <3>1, <3>3, <4>1 DEF Sum
    <3>6. CASE op = "delete"
      <4>1. mine'[t]["member"] = m["member"] /\ mine'[t]["insert"] = m["insert"]
            /\ mine'[t]["delete"] = m["delete"] + 1
        BY <3>2, <3>6 DEF Kinds
      <4> QED
        BY <3>1, <3>3, <4>1 DEF Sum
    <3> QED
      BY <2>1, <3>4, <3>5, <3>6 DEF Kinds
  <2>3. Owed(t)' = Owed(t) /\ Sum(counts)' = Sum(counts)
    <3>1. left[t] \in Nat
      BY <1>2
    <3>2. Owed(t) = Sum(mine[t]) + left[t] + 1 /\ Owed(t)' = Sum(mine'[t]) + left[t] + 0
      BY <2>1 DEF Owed, InList
    <3> QED
      BY <2>1, <2>2, <3>1, <3>2
  <2> QED
    BY <1>1, <1>3, <2>1, <2>3 DEF CountInv, InList
<1>11. CASE LockCounts(t)
  <2>1. /\ pc[t] = "loop" /\ pc'[t] = "count" /\ UNCHANGED <<left, mine, loaded, counts, call>>
        /\ left[t] = 0 /\ count_mutex = NoThread /\ count_mutex' = t
    BY <1>1, <1>2, <1>11 DEF LockCounts, Goto
  <2>2. Owed(t)' = Owed(t) /\ Sum(counts)' = Sum(counts)
    BY <2>1 DEF Owed, InList
  <2>3. \A u \in Threads : NoThread # u
    BY ProcsAssumption
  <2> QED
    BY <1>1, <1>3, <2>1, <2>2, <2>3 DEF CountInv, InList
<1>12. CASE LoadCounts(t)
  <2>1. /\ pc[t] = "count" /\ pc'[t] = "store" /\ UNCHANGED <<left, mine, counts, count_mutex, call>>
        /\ loaded'[t] = counts
    BY <1>1, <1>2, <1>12 DEF LoadCounts, Goto
  <2>2. Owed(t)' = Owed(t) /\ Sum(counts)' = Sum(counts)
    BY <2>1 DEF Owed, InList
  <2> QED
    BY <1>1, <1>3, <2>1, <2>2 DEF CountInv, InList
<1>13. CASE StoreCounts(t)
  <2>1. /\ pc[t] = "store" /\ pc'[t] = "done" /\ UNCHANGED <<left, mine, loaded, call>>
        /\ counts' = [kind \in Kinds |-> loaded[t][kind] + mine[t][kind]] /\ count_mutex' = NoThread
    BY <1>1, <1>2, <1>13 DEF StoreCounts, Goto
  <2>2. loaded[t] = counts /\ left[t] = 0 /\ count_mutex = t
    BY <2>1 DEF CountInv
  <2>3. Sum(counts)' + Owed(t)' = Sum(counts) + Owed(t)
    <3>1. PICK m \in [Kinds -> Nat] : m = mine[t]
      BY <1>2
    <3>2. /\ m["member"] \in Nat /\ m["insert"] \in Nat /\ m["delete"] \in Nat
          /\ counts["member"] \in Nat /\ counts["insert"] \in Nat /\ counts["delete"] \in Nat
      BY <1>2 DEF Kinds
    <3>3. /\ counts'["member"] = counts["member"] + m["member"]
          /\ counts'["insert"] = counts["insert"] + m["insert"]
          /\ counts'["delete"] = counts["delete"] + m["delete"]
      BY <2>1, <2>2, <3>1 DEF Kinds
    <3>4. Owed(t)' = 0 /\ Owed(t) = Sum(m) + 0 + 0
      BY <2>1, <2>2, <3>1 DEF Owed, InList
    <3> QED
      BY <3>2, <3>3, <3>4 DEF Sum
  <2>4. \A u \in Threads \ {t} : pc[u] \notin {"count", "store"} /\ NoThread # u
    BY <2>2, ProcsAssumption DEF CountInv
  <2> QED
    BY <1>1, <1>3, <2>1, <2>3, <2>4 DEF CountInv, InList
<1> QED
  BY <1>7, <1>8, <1>9, <1>10, <1>11, <1>12, <1>13 DEF ThreadStep

LEMMA CountMainStep == ASSUME CountInv, MainStep PROVE CountInv'
<1>1. Main \in Procs /\ Main \notin Threads /\ Threads \subseteq Procs \ {Main}
  BY ProcsAssumption DEF Procs
<1>2. /\ AccessInv' /\ TypeOK /\ AccessInv /\ pc \in [Procs -> Locations] /\ call \in [Procs -> Calls]
  BY MainAccess DEF CountInv, AccessInv, TypeOK
<1>3. UNCHANGED totals
  BY DEF MainStep, ListStep, Enter, Walk, ReturnUnchanged, InsertAlloc, InsertPublish, DeleteUnlink,
     DeleteFree, MainInsert, MainInserted, CreateThreads, Join, FreeNode, Exit
<1>4. CASE CreateThreads
  <2>1. /\ pc[Main] = "populate" /\ pc'[Main] = "join" /\ UNCHANGED <<call>>
        /\ \A t \in Threads : pc'[t] = "loop" /\ left'[t] = ops_per_thread
    BY <1>1, <1>4 DEF CreateThreads
  <2>2. counts = NoCounts /\ \A t \in Threads : pc[t] = "none" /\ mine[t] = NoCounts
    BY <2>1 DEF CountInv
  <2>3. \A t \in Threads : Owed(t)' = ops_per_thread
    <3> TAKE t \in Threads
    <3>1. Sum(mine'[t]) = 0
      BY <1>3, <2>2 DEF Sum, NoCounts, Kinds, totals
    <3>2. Owed(t)' = Sum(mine'[t]) + left'[t] + 0
      BY <2>1 DEF Owed, InList
    <3> QED
      BY <2>1, <3>1, <3>2, OpsPerThreadType
  <2>4. Sum(counts)' + MapThenSumSet(Owed, Threads)' = thread_count * ops_per_thread
    BY <1>3, <2>2, <2>3, ConservedAtStart DEF totals
  <2>5. CountsConserved'
    <3>1. thread_count' = thread_count /\ ops_per_thread' = ops_per_thread
      BY DEF thread_count, ops_per_thread
    <3> QED
      BY <2>4, <3>1 DEF CountsConserved
  <2> QED
    BY <1>2, <1>3, <2>1, <2>2, <2>5 DEF CountInv, totals, InList
<1>5. CASE ~CreateThreads
  <2>1. /\ \A t \in Threads : pc'[t] = pc[t] /\ call'[t] = call[t]
        /\ UNCHANGED left
        /\ pc[Main] \in {"join", "free", "exit"} <=> pc'[Main] \in {"join", "free", "exit"}
    <3>1. CASE ListStep(Main)
      <4>1. UNCHANGED left
        BY <3>1 DEF ListStep, Enter, Walk, ReturnUnchanged, InsertAlloc, InsertPublish, DeleteUnlink,
           DeleteFree
      <4> QED
        BY <1>1, <1>2, <3>1, <4>1, ListStepStays DEF InList
    <3>2. CASE ~ListStep(Main)
      BY <1>1, <1>2, <1>5, <3>2 DEF MainStep, MainInsert, MainInserted, Join, FreeNode, Exit, Goto
    <3> QED
      BY <3>1, <3>2
  <2>2. \A t \in Threads : Owed(t)' = Owed(t)
    BY <1>3, <2>1 DEF Owed, totals
  <2>3. CountsConserved'
    <3>1. PICK t \in Threads : TRUE
      BY ProcsAssumption
    <3>2. Sum(counts)' = Sum(counts)
      BY <1>3 DEF totals
    <3>3. Sum(counts)' + MapThenSumSet(Owed, Threads)' = Sum(counts) + MapThenSumSet(Owed, Threads)
      BY <1>2, <2>2, <3>1, <3>2, Conserved DEF AccessInv
    <3>4. thread_count' = thread_count /\ ops_per_thread' = ops_per_thread
      BY DEF thread_count, ops_per_thread
    <3> QED
      BY <2>1, <3>3, <3>4 DEF CountInv, CountsConserved
  <2> QED
    BY <1>2, <1>3, <2>1, <2>3 DEF CountInv, totals
<1> QED
  BY <1>4, <1>5

(* Every count a thread makes gets into the totals, whichever way the threads    *)
(* take count_mutex (lines 310-314): totals and debts add up to all operations.  *)
THEOREM CountsAlwaysConserved == Spec => []CountsConserved
<1>1. Init => CountInv
  <2> SUFFICES ASSUME Init PROVE CountInv
    OBVIOUS
  <2>1. Main \in Procs /\ Main \notin Threads /\ Threads \subseteq Procs /\ NoThread \notin Threads
    BY ProcsAssumption DEF Procs
  <2>2. pc[Main] = "populate" /\ \A t \in Threads : pc[t] = "none"
    BY <2>1 DEF Init
  <2> QED
    BY <2>1, <2>2, AccessInvInit DEF Init, CountInv, CountsConserved, InList
<1>2. CountInv /\ [Next]_vars => CountInv'
  <2> SUFFICES ASSUME CountInv, [Next]_vars PROVE CountInv'
    OBVIOUS
  <2>1. CASE UNCHANGED vars
    <3>1. AccessInv' /\ TypeOK /\ TypeOK'
      BY <2>1, AccessInvStep DEF CountInv, AccessInv
    <3>2. UNCHANGED <<pc, call, left, count_mutex, counts, mine, loaded>>
      BY <2>1 DEF vars, totals
    <3>3. \A t \in Threads : Owed(t)' = Owed(t)
      BY <3>2 DEF Owed
    <3>4. PICK t \in Threads : TRUE
      BY ProcsAssumption
    <3>5. Sum(counts)' = Sum(counts)
      BY <3>2
    <3>6. Sum(counts)' + MapThenSumSet(Owed, Threads)' = Sum(counts) + MapThenSumSet(Owed, Threads)
      BY <3>1, <3>3, <3>4, <3>5, Conserved
    <3>7. thread_count' = thread_count /\ ops_per_thread' = ops_per_thread
      BY DEF thread_count, ops_per_thread
    <3>8. CountsConserved'
      BY <3>2, <3>6, <3>7 DEF CountInv, CountsConserved
    <3> QED
      BY <3>1, <3>2, <3>8 DEF CountInv
  <2> QED
    BY <2>1, CountThreadStep, CountMainStep DEF Next, Exited
<1>3. CountInv => CountsConserved
  BY DEF CountInv
<1> QED
  BY <1>1, <1>2, <1>3, PTL DEF Spec

--------------------------------------------------------------------------------
(* Sorted lists *)

(* h is the first node of a sorted list of the nodes L, whose fields are nx and  *)
(* dt.                                                                           *)
Chain(h, nx, dt, L) ==
    /\ h \in L \cup {NULL}
    /\ \A a \in L : nx[a] \in L \cup {NULL}
    /\ \A a \in L : nx[a] # NULL => dt[a] < dt[nx[a]]
    /\ \A b \in L : b = h \/ \E a \in L : nx[a] = b

(* What is known of the nodes of a list: their addresses and their keys.         *)
Fields(dt, L) == L \subseteq Addrs /\ dt \in [Addrs -> Int]

(* A set of nodes has one with the least data: the sets of nodes below its       *)
(* members are finite, and one of them is minimal.                               *)
LEMMA LeastData ==
    ASSUME NEW dt, NEW B, Fields(dt, B), B # {}
    PROVE  \E b \in B : \A a \in B : dt[b] <= dt[a]
<1> DEFINE Below(b) == {a \in B : dt[a] <= dt[b]}
           Belows == {Below(b) : b \in B}
<1>1. IsFiniteSet(B)
  BY MemoryAssumption, FS_Subset DEF Fields
<1>2. \A b \in B : IsFiniteSet(Below(b)) /\ Below(b) \subseteq B
  <2> TAKE b \in B
  <2>1. Below(b) \in SUBSET B
    OBVIOUS
  <2> HIDE DEF Below
  <2> QED
    BY <1>1, <2>1, FS_Subset
<1>3. Belows \subseteq FiniteSubsetsOf(B) /\ Belows # {}
  BY <1>2 DEF FiniteSubsetsOf
<1>4. PICK m \in Belows : \A c \in Belows : ~(<<c, m>> \in StrictSubsetOrdering(B))
  <2> HIDE DEF Belows
  <2> QED
    BY <1>3, FS_StrictSubsetOrderingWellFounded, WFMin
<1>5. PICK b \in B : m = Below(b)
  OBVIOUS
<1>6. ASSUME NEW a \in B, dt[a] < dt[b] PROVE FALSE
  <2>0. \A x \in B : dt[x] \in Int
    BY DEF Fields
  <2>1. Below(a) \subseteq Below(b) /\ b \in Below(b) /\ b \notin Below(a)
    BY <1>6, <2>0
  <2>2. Below(a) \in Belows /\ Below(a) \subseteq B /\ Below(b) \subseteq B
    OBVIOUS
  <2> HIDE DEF Below, Belows
  <2>3. <<Below(a), Below(b)>> \in StrictSubsetOrdering(B)
    BY <2>1, <2>2 DEF StrictSubsetOrdering
  <2> QED
    BY <2>2, <2>3, <1>4, <1>5
<1> QED
  BY <1>6 DEF Fields

(* The least is the first. *)
LEMMA FirstIsLeast ==
    ASSUME NEW h, NEW nx, NEW dt, NEW L, Fields(dt, L), Chain(h, nx, dt, L), L # {}
    PROVE  h \in L /\ \A a \in L : dt[h] <= dt[a]
<1>1. PICK b \in L : \A a \in L : dt[b] <= dt[a]
  BY LeastData
<1>2. \A a \in L : dt[a] \in Int
  BY DEF Fields
<1>3. ASSUME NEW a \in L, nx[a] = b PROVE FALSE
  <2>1. b # NULL
    BY ProcsAssumption DEF Fields
  <2>2. dt[a] < dt[b]
    BY <1>3, <2>1 DEF Chain
  <2> QED
    BY <1>1, <1>2, <2>2
<1>4. b = h
  BY <1>3 DEF Chain
<1> QED
  BY <1>1, <1>4

(* Every non-empty set of natural numbers has a least element: induction, in a   *)
(* form that speaks of sets only.  The intervals below its elements are finite   *)
(* sets, of which one is minimal.                                                *)
LEMMA LeastElement ==
    ASSUME NEW D \in SUBSET Nat, D # {}
    PROVE  \E m \in D : \A k \in D : m <= k
<1> DEFINE Belows == {0 .. k : k \in D}
<1>1. Belows \subseteq FiniteSubsetsOf(Nat) /\ Belows # {}
  <2>1. \A k \in D : IsFiniteSet(0 .. k) /\ 0 .. k \subseteq Nat
    BY FS_Interval
  <2> QED
    BY <2>1 DEF FiniteSubsetsOf
<1>2. PICK b \in Belows : \A c \in Belows : ~(<<c, b>> \in StrictSubsetOrdering(Nat))
  <2> HIDE DEF Belows
  <2> QED
    BY <1>1, FS_StrictSubsetOrderingWellFounded, WFMin
<1>3. PICK m \in D : b = 0 .. m
  OBVIOUS
<1>4. ASSUME NEW k \in D, k < m PROVE FALSE
  <2>1. 0 .. k \in Belows /\ 0 .. k \subseteq b /\ m \in b /\ m \notin 0 .. k
    BY <1>3, <1>4
  <2>2. <<0 .. k, b>> \in StrictSubsetOrdering(Nat)
    BY <2>1, <1>3, <1>4 DEF StrictSubsetOrdering
  <2> QED
    BY <2>1, <2>2, <1>2
<1> QED
  BY <1>4

N == Cardinality(Addrs)

(* What Node says of itself. *)
Steps(f, h, nx, n) ==
    f = [i \in 0 .. n |->
            IF i = 0 THEN h ELSE IF f[i - 1] = NULL THEN NULL ELSE nx[f[i - 1]]]

(* There is such a function, for any first node and any pointers. *)
LEMMA StepsExist ==
    ASSUME NEW h, NEW nx PROVE \A n \in Nat : \E f : Steps(f, h, nx, n)
<1> DEFINE D == {n \in Nat : ~ \E f : Steps(f, h, nx, n)}
<1>1. D = {}
  <2> SUFFICES ASSUME D # {} PROVE FALSE
    OBVIOUS
  <2>1. PICK m \in D : \A k \in D : m <= k
    <3>1. D \in SUBSET Nat
      OBVIOUS
    <3> HIDE DEF D
    <3> QED
      BY <3>1, LeastElement
  <2>2. CASE m = 0
    <3>1. Steps([i \in 0 .. 0 |-> h], h, nx, 0)
      BY DEF Steps
    <3> QED
      BY <2>2, <3>1
  <2>3. CASE m # 0
    <3>1. m - 1 \in Nat /\ m - 1 \notin D
      BY <2>1, <2>3
    <3>2. PICK f : Steps(f, h, nx, m - 1)
      BY <3>1
    <3> DEFINE g == [i \in 0 .. m |->
                       IF i < m THEN f[i]
                       ELSE IF f[m - 1] = NULL THEN NULL ELSE nx[f[m - 1]]]
    <3>3. f[0] = h /\ \A i \in 1 .. m - 1 : f[i] = IF f[i - 1] = NULL THEN NULL ELSE nx[f[i - 1]]
      BY <2>3, <3>1, <3>2 DEF Steps
    <3>4. Steps(g, h, nx, m)
      <4>1. \A i \in 0 .. m : g[i] = IF i = 0 THEN h ELSE IF g[i - 1] = NULL THEN NULL ELSE nx[g[i - 1]]
        BY <2>3, <3>1, <3>3
      <4> HIDE DEF g
      <4>2. g = [i \in 0 .. m |-> g[i]]
        BY DEF g
      <4> QED
        BY <4>1, <4>2 DEF Steps
    <3> QED
      BY <3>4
  <2> QED
    BY <2>2, <2>3
<1> QED
  BY <1>1

LEMMA NIsNat == N \in Nat
  BY MemoryAssumption, FS_CardinalityType DEF N

LEMMA NodeSteps == Steps(Node, head, next, N)
<1>1. \E f : Steps(f, head, next, N)
  BY NIsNat, StepsExist
<1> QED
  BY <1>1 DEF Node, Steps, N

LEMMA NodeStepsNext == Steps(Node', head', next', N)
<1>1. \E f : Steps(f, head', next', N)
  BY NIsNat, StepsExist
<1> QED
  BY <1>1 DEF Node, Steps, N

(* The steps from the first node of a sorted list: they stay in the list, go up, *)
(* end before the addresses do, and meet every node.                             *)
LEMMA StepsStay ==
    ASSUME NEW h, NEW nx, NEW dt, NEW L, Fields(dt, L), Chain(h, nx, dt, L),
           NEW n \in Nat, NEW f, Steps(f, h, nx, n)
    PROVE  \A j \in 0 .. n : f[j] \in L \cup {NULL}
<1> DEFINE D == {j \in 0 .. n : f[j] \notin L \cup {NULL}}
<1>1. D = {}
  <2> SUFFICES ASSUME D # {} PROVE FALSE
    OBVIOUS
  <2>1. PICK m \in D : \A k \in D : m <= k
    <3>1. D \in SUBSET Nat
      OBVIOUS
    <3> HIDE DEF D
    <3> QED
      BY <3>1, LeastElement
  <2>2. m # 0
    BY DEF Steps, Chain
  <2>3. m - 1 \in 0 .. n /\ m - 1 \notin D
    BY <2>1, <2>2
  <2>4. f[m] = IF f[m - 1] = NULL THEN NULL ELSE nx[f[m - 1]]
    BY <2>2 DEF Steps
  <2> QED
    BY <2>3, <2>4 DEF Chain
<1> QED
  BY <1>1

LEMMA StepsUp ==
    ASSUME NEW h, NEW nx, NEW dt, NEW L, Fields(dt, L), Chain(h, nx, dt, L),
           NEW n \in Nat, NEW f, Steps(f, h, nx, n)
    PROVE  \A j \in 0 .. n : f[j] # NULL =>
               \A i \in 0 .. j - 1 : f[i] # NULL /\ dt[f[i]] < dt[f[j]]
<1> DEFINE Up(j) == f[j] # NULL => \A i \in 0 .. j - 1 : f[i] # NULL /\ dt[f[i]] < dt[f[j]]
           D == {j \in 0 .. n : ~Up(j)}
<1>0. \A j \in 0 .. n : f[j] # NULL => f[j] \in L /\ dt[f[j]] \in Int
  BY StepsStay DEF Fields
<1>1. D = {}
  <2> SUFFICES ASSUME D # {} PROVE FALSE
    OBVIOUS
  <2>1. PICK m \in D : \A k \in D : m <= k
    <3>1. D \in SUBSET Nat
      OBVIOUS
    <3> HIDE DEF D
    <3> QED
      BY <3>1, LeastElement
  <2>2. m # 0
    OBVIOUS
  <2>3. m - 1 \in 0 .. n /\ m - 1 \notin D
    BY <2>1, <2>2
  <2>4. f[m] = IF f[m - 1] = NULL THEN NULL ELSE nx[f[m - 1]]
    BY <2>2 DEF Steps
  <2>5. f[m] # NULL
    OBVIOUS
  <2>6. f[m - 1] # NULL /\ dt[f[m - 1]] < dt[f[m]]
    BY <1>0, <2>3, <2>4, <2>5 DEF Chain
  <2>7. \A i \in 0 .. m - 1 : f[i] # NULL /\ dt[f[i]] < dt[f[m]]
    <3> TAKE i \in 0 .. m - 1
    <3>1. CASE i = m - 1
      BY <3>1, <2>6
    <3>2. CASE i # m - 1
      <4>1. i \in 0 .. (m - 1) - 1 /\ i \in 0 .. n
        BY <3>2
      <4>2. f[i] # NULL /\ dt[f[i]] < dt[f[m - 1]]
        BY <2>3, <2>6, <4>1
      <4>3. dt[f[i]] \in Int /\ dt[f[m - 1]] \in Int /\ dt[f[m]] \in Int
        BY <1>0, <2>3, <2>5, <2>6, <4>1, <4>2
      <4> QED
        BY <2>6, <4>2, <4>3
    <3> QED
      BY <3>1, <3>2
  <2> QED
    BY <2>5, <2>7
<1> QED
  BY <1>1

LEMMA StepsEnd ==
    ASSUME NEW h, NEW nx, NEW dt, NEW L, Fields(dt, L), Chain(h, nx, dt, L),
           NEW f, Steps(f, h, nx, N)
    PROVE  f[N] = NULL
<1> SUFFICES ASSUME f[N] # NULL PROVE FALSE
  OBVIOUS
<1>1. N \in Nat
  BY NIsNat
<1>2. \A i \in 0 .. N : f[i] # NULL
  BY <1>1, StepsUp
<1>3. \A i \in 0 .. N : f[i] \in Addrs /\ dt[f[i]] \in Int
  BY <1>1, <1>2, StepsStay DEF Fields
<1>4. f \in [0 .. N -> Addrs]
  <2>1. f = [i \in 0 .. N |-> f[i]]
    BY DEF Steps
  <2> QED
    BY <2>1, <1>3
<1>5. \A i, j \in 0 .. N : f[i] = f[j] => i = j
  <2> SUFFICES ASSUME NEW i \in 0 .. N, NEW j \in 0 .. N, f[i] = f[j], i < j PROVE FALSE
    BY <1>1
  <2>1. i \in 0 .. j - 1
    BY <1>1
  <2>2. dt[f[i]] < dt[f[j]]
    BY <1>1, <1>2, <2>1, StepsUp
  <2> QED
    BY <1>3, <2>2
<1>6. f \in Injection(0 .. N, Addrs)
  BY <1>4, <1>5 DEF Injection, IsInjective
<1>7. Cardinality(0 .. N) <= N /\ Cardinality(0 .. N) = N + 1
  BY <1>1, <1>6, MemoryAssumption, FS_Injection, FS_Interval DEF N
<1> QED
  BY <1>1, <1>7

LEMMA StepsMeetAll ==
    ASSUME NEW h, NEW nx, NEW dt, NEW L, Fields(dt, L), Chain(h, nx, dt, L),
           NEW f, Steps(f, h, nx, N)
    PROVE  {f[i] : i \in 0 .. N} \ {NULL} = L
<1> DEFINE F == {f[i] : i \in 0 .. N} \ {NULL}
           B == L \ F
<1>1. N \in Nat /\ NULL \notin L
  BY NIsNat, ProcsAssumption DEF Fields
<1>2. F \subseteq L
  BY <1>1, StepsStay
<1>3. B = {}
  <2> SUFFICES ASSUME B # {} PROVE FALSE
    OBVIOUS
  <2>1. Fields(dt, B)
    BY DEF Fields
  <2>2. PICK b \in B : \A a \in B : dt[b] <= dt[a]
    <3> HIDE DEF B
    <3> QED
      BY <2>1, LeastData
  <2>3. f[0] = h
    BY <1>1 DEF Steps
  <2>4. b # h
    BY <1>1, <2>3
  <2>5. PICK a \in L : nx[a] = b
    BY <2>4 DEF Chain
  <2>6. dt[a] < dt[b] /\ dt[a] \in Int /\ dt[b] \in Int
    BY <1>1, <2>5 DEF Chain, Fields
  <2>7. a \in F
    BY <2>2, <2>6
  <2>8. PICK i \in 0 .. N : f[i] = a
    BY <2>7
  <2>9. i # N /\ a # NULL
    BY <1>1, <2>8, StepsEnd
  <2>10. i + 1 \in 0 .. N /\ f[i + 1] = b
    BY <1>1, <2>5, <2>8, <2>9 DEF Steps
  <2> QED
    BY <1>1, <2>10
<1> QED
  BY <1>2, <1>3

(* What comes after a node in the order comes after it in the list. *)
LEMMA NextInOrder ==
    ASSUME NEW h, NEW nx, NEW dt, NEW L, Fields(dt, L), Chain(h, nx, dt, L),
           NEW c \in L, NEW a \in L, a # c, dt[c] <= dt[a]
    PROVE  nx[c] \in L /\ dt[c] < dt[a] /\ dt[nx[c]] <= dt[a]
<1>1. N \in Nat /\ NULL \notin L
  BY NIsNat, ProcsAssumption DEF Fields
<1>2. PICK f : Steps(f, h, nx, N)
  BY <1>1, StepsExist
<1>3. PICK i \in 0 .. N : f[i] = c
  BY <1>2, StepsMeetAll
<1>4. PICK j \in 0 .. N : f[j] = a
  BY <1>2, StepsMeetAll
<1>5. dt[a] \in Int /\ dt[c] \in Int
  BY DEF Fields
<1>6. i < j
  <2>1. ~(j < i)
    <3> SUFFICES ASSUME j < i PROVE FALSE
      OBVIOUS
    <3>1. j \in 0 .. i - 1
      BY <1>1
    <3>2. dt[a] < dt[c]
      BY <1>1, <1>2, <1>3, <1>4, <3>1, StepsUp
    <3> QED
      BY <3>2, <1>5
  <2> QED
    BY <1>1, <1>3, <1>4, <2>1
<1>7. dt[c] < dt[a]
  <2>1. i \in 0 .. j - 1
    BY <1>6
  <2> QED
    BY <1>1, <1>2, <1>3, <1>4, <2>1, StepsUp
<1>8. f[i + 1] = nx[c] /\ i + 1 \in 0 .. N
  BY <1>1, <1>2, <1>3, <1>4, <1>6 DEF Steps
<1>9. CASE i + 1 = j
  BY <1>4, <1>5, <1>7, <1>8, <1>9
<1>10. CASE i + 1 # j
  <2>1. i + 1 \in 0 .. j - 1
    BY <1>6, <1>10
  <2>2. f[i + 1] # NULL /\ dt[f[i + 1]] < dt[f[j]]
    BY <1>1, <1>2, <1>4, <2>1, StepsUp
  <2>3. nx[c] \in L
    BY <1>8, <2>2 DEF Chain
  <2>4. dt[nx[c]] \in Int
    BY <2>3 DEF Fields
  <2> QED
    BY <1>4, <1>5, <1>7, <1>8, <2>2, <2>3, <2>4
<1> QED
  BY <1>9, <1>10

(* The nodes Node meets are those of the list, now and after a step. *)
LEMMA ChainLinked ==
    ASSUME NEW L, Fields(data, L), Chain(head, next, data, L)
    PROVE  Linked = L /\ Node[N] = NULL
  BY NodeSteps, StepsMeetAll, StepsEnd DEF Linked, N

LEMMA ChainLinkedNext ==
    ASSUME NEW L, Fields(data', L), Chain(head', next', data', L)
    PROVE  Linked' = L
  BY NodeStepsNext, StepsMeetAll DEF Linked, N

(* The fields that matter are those of the nodes of the list. *)
LEMMA ChainSame ==
    ASSUME NEW h, NEW nx, NEW dt, NEW L, NULL \notin L, Chain(h, nx, dt, L),
           NEW nx2, NEW dt2, \A a \in L : nx2[a] = nx[a] /\ dt2[a] = dt[a]
    PROVE  Chain(h, nx2, dt2, L)
  BY DEF Chain

(* Two nodes do not lead to the same one. *)
LEMMA OnePred ==
    ASSUME NEW h, NEW nx, NEW dt, NEW L, Fields(dt, L), Chain(h, nx, dt, L),
           NEW a \in L, NEW b \in L, nx[a] = nx[b], nx[a] # NULL
    PROVE  a = b
<1>1. \A x \in L : dt[x] \in Int
  BY DEF Fields
<1>2. dt[a] < dt[nx[a]] /\ dt[b] < dt[nx[a]] /\ nx[a] \in L
  BY ProcsAssumption DEF Chain
<1>3. ASSUME NEW x \in L, NEW y \in L, x # y, nx[x] = nx[y], nx[x] # NULL, dt[x] <= dt[y]
      PROVE  FALSE
  <2>1. dt[nx[x]] <= dt[y] /\ nx[x] \in L
    BY <1>3, NextInOrder
  <2>2. dt[y] < dt[nx[y]]
    BY <1>3 DEF Chain
  <2> QED
    BY <1>1, <1>3, <2>1, <2>2
<1>4. dt[a] <= dt[b] \/ dt[b] <= dt[a]
  BY <1>1
<1> QED
  BY <1>2, <1>3, <1>4

(* Insert: x comes before c, and after pr unless it is the first. *)
LEMMA ChainInsert ==
    ASSUME NEW h, NEW nx \in [Addrs -> Pointers], NEW dt, NEW L, Fields(dt, L), Chain(h, nx, dt, L),
           NEW x \in Addrs \ L, NEW c \in L \cup {NULL}, NEW pr \in L \cup {NULL},
           nx[x] = c, c # NULL => dt[x] < dt[c],
           IF pr = NULL THEN c = h ELSE nx[pr] = c /\ dt[pr] < dt[x]
    PROVE  /\ pr = NULL => Chain(x, nx, dt, L \cup {x})
           /\ pr # NULL => Chain(h, [nx EXCEPT ![pr] = x], dt, L \cup {x})
<1>1. NULL \notin Addrs /\ L \subseteq Addrs /\ x # NULL
  BY ProcsAssumption DEF Fields
<1>2. CASE pr = NULL
  BY <1>1, <1>2 DEF Chain
<1>3. CASE pr # NULL
  <2> DEFINE nx2 == [nx EXCEPT ![pr] = x]
  <2>1. nx2[pr] = x /\ nx2[x] = c /\ \A a \in L \ {pr} : nx2[a] = nx[a]
    BY <1>1, <1>3
  <2> HIDE DEF nx2
  <2>2. h \in L \cup {x} \cup {NULL}
    BY DEF Chain
  <2>3. \A a \in L \cup {x} : nx2[a] \in L \cup {x} \cup {NULL}
    BY <2>1 DEF Chain
  <2>4. \A a \in L \cup {x} : nx2[a] # NULL => dt[a] < dt[nx2[a]]
    BY <1>3, <2>1 DEF Chain
  <2>5. \A b \in L \cup {x} : b = h \/ \E a \in L \cup {x} : nx2[a] = b
    <3>1. ASSUME NEW b \in L, b # h PROVE \E a \in L \cup {x} : nx2[a] = b
      <4>1. PICK a \in L : nx[a] = b
        BY <3>1 DEF Chain
      <4> QED
        BY <1>3, <2>1, <4>1
    <3> QED
      BY <1>3, <2>1, <3>1
  <2>6. Chain(h, nx2, dt, L \cup {x})
    BY <2>2, <2>3, <2>4, <2>5 DEF Chain
  <2> QED
    BY <1>3, <2>6 DEF nx2
<1> QED
  BY <1>2, <1>3

(* Delete: c goes, and pr leads past it unless it was the first. *)
LEMMA ChainRemove ==
    ASSUME NEW h, NEW nx \in [Addrs -> Pointers], NEW dt, NEW L, Fields(dt, L), Chain(h, nx, dt, L),
           NEW c \in L, NEW pr \in L \cup {NULL},
           IF pr = NULL THEN c = h ELSE nx[pr] = c
    PROVE  /\ pr = NULL => Chain(nx[c], nx, dt, L \ {c})
           /\ pr # NULL => Chain(h, [nx EXCEPT ![pr] = nx[c]], dt, L \ {c})
<1>1. NULL \notin L /\ L \subseteq Addrs /\ \A a \in L : dt[a] \in Int
  BY ProcsAssumption DEF Fields
<1>2. \A a \in L : nx[a] # NULL => nx[a] \in L /\ dt[a] < dt[nx[a]] /\ nx[a] # a
  BY <1>1 DEF Chain
<1>3. \A a \in L : nx[a] # h
  BY <1>1, <1>2, FirstIsLeast
<1>4. CASE pr = NULL
  <2>1. \A a \in L \ {c} : nx[a] \in (L \ {c}) \cup {NULL}
    BY <1>2, <1>3, <1>4
  <2>2. nx[c] \in (L \ {c}) \cup {NULL}
    BY <1>2
  <2> QED
    BY <1>4, <2>1, <2>2 DEF Chain
<1>5. CASE pr # NULL
  <2> DEFINE nx2 == [nx EXCEPT ![pr] = nx[c]]
  <2>1. pr \in L /\ nx[pr] = c /\ pr # c
    BY <1>1, <1>2, <1>5
  <2>2. nx2[pr] = nx[c] /\ \A a \in L \ {pr} : nx2[a] = nx[a]
    BY <1>1, <2>1
  <2> HIDE DEF nx2
  <2>3. \A a \in L \ {pr} : nx[a] # c
    BY <1>1, <2>1, OnePred
  <2>4. h \in (L \ {c}) \cup {NULL}
    BY <1>3, <2>1 DEF Chain
  <2>5. \A a \in L \ {c} : nx2[a] \in (L \ {c}) \cup {NULL}
    BY <1>2, <2>1, <2>2, <2>3
  <2>6. \A a \in L \ {c} : nx2[a] # NULL => dt[a] < dt[nx2[a]]
    <3> TAKE a \in L \ {c}
    <3>1. CASE a # pr
      BY <1>2, <2>2, <3>1
    <3>2. CASE a = pr
      <4>1. nx[c] # NULL => dt[pr] < dt[c] /\ dt[c] < dt[nx[c]] /\ dt[nx[c]] \in Int
        BY <1>1, <1>2, <2>1
      <4> QED
        BY <1>1, <2>1, <2>2, <3>2, <4>1
    <3> QED
      BY <3>1, <3>2
  <2>7. ASSUME NEW b \in L \ {c}, b # h PROVE \E a \in L \ {c} : nx2[a] = b
    <3>1. PICK a \in L : nx[a] = b
      BY <2>7 DEF Chain
    <3>2. CASE a = c
      BY <2>1, <2>2, <3>1, <3>2
    <3>3. CASE a # c
      BY <2>1, <2>2, <2>7, <3>1, <3>3
    <3> QED
      BY <3>2, <3>3
  <2>8. Chain(h, nx2, dt, L \ {c})
    BY <2>4, <2>5, <2>6, <2>7 DEF Chain
  <2> QED
    BY <1>5, <2>8 DEF nx2
<1> QED
  BY <1>4, <1>5

--------------------------------------------------------------------------------
(* The list: the inductive invariant *)

(* The nodes that are in the hands of one operation only. *)
Held == {call[p].temp : p \in At("publish")} \cup {call[p].curr : p \in At("unlinked")}

(* Where a walk is: at curr, reached from pred; all that matters to it of the    *)
(* list it has passed is smaller than val, and the rest starts with curr.        *)
WellPlaced(p) ==
    LET c == call[p] IN
    /\ c.curr \in Linked \cup {NULL} /\ c.pred \in Linked \cup {NULL}
    /\ c.op # "member" => IF c.pred = NULL THEN c.curr = head
                          ELSE next[c.pred] = c.curr /\ data[c.pred] < c.val
    /\ \A a \in Linked : data[a] < c.val \/ (c.curr # NULL /\ data[c.curr] <= data[a])

OperationAt(p) ==
    LET c == call[p] IN
    /\ pc[p] \in {"lock", "enter", "walk", "publish"} => c.op \in Kinds /\ c.val \in Keys
    /\ pc[p] \in {"lock", "enter"} => c.pred = NULL
    /\ pc[p] \in {"walk", "publish"} => WellPlaced(p)
    /\ pc[p] = "publish" => /\ c.op = "insert"
                            /\ c.temp \in alloc \ Linked
                            /\ next[c.temp] = c.curr /\ data[c.temp] = c.val
                            /\ c.curr # NULL => c.val < data[c.curr]
    /\ pc[p] = "unlinked" => c.op = "delete" /\ c.curr \in alloc \ Linked

ListInv ==
    /\ AccessInv
    /\ \A t \in Threads : pc[t] # "free" /\ (Freeing => pc[t] = "done")
    /\ ~Freeing => Chain(head, next, data, Linked) /\ alloc = Linked \cup Held
    /\ \A p \in Procs : OperationAt(p)
    /\ pc[Main] = "free" => Chain(call[Main].curr, next, data, alloc)
    /\ pc[Main] = "exit" => alloc = {}

LEMMA DataInt == ASSUME NEW dt \in [Addrs -> Keys \cup {0}] PROVE dt \in [Addrs -> Int]
<1>1. Keys \cup {0} \subseteq Int
  BY InputAssumption
<1>2. \A a \in Addrs : dt[a] \in Int
  BY <1>1
<1> QED
  BY <1>2

LEMMA FieldsOfList ==
    ASSUME TypeOK, NEW L \in SUBSET Addrs PROVE Fields(data, L)
  BY DataInt DEF TypeOK, Fields

LEMMA ListFacts ==
    ASSUME ListInv, ~Freeing
    PROVE  /\ Chain(head, next, data, Linked) /\ Fields(data, Linked)
           /\ alloc = Linked \cup Held /\ Linked \subseteq alloc /\ Linked \subseteq Addrs
           /\ NULL \notin Linked /\ Node[N] = NULL
           /\ \A a \in Linked : data[a] \in Int
<1>1. Chain(head, next, data, Linked) /\ alloc = Linked \cup Held /\ alloc \subseteq Addrs
  BY DEF ListInv, AccessInv, TypeOK
<1>2. Fields(data, Linked)
  BY <1>1, FieldsOfList DEF ListInv, AccessInv
<1> QED
  BY <1>1, <1>2, ChainLinked, ProcsAssumption DEF Fields

LEMMA HeapStays == ASSUME UNCHANGED heap PROVE Linked' = Linked
  BY DEF heap, Linked, Node

(* A process that does not move stays well placed while the list does. *)
LEMMA OperationStays ==
    ASSUME NEW q \in Procs, OperationAt(q), UNCHANGED heap, pc'[q] = pc[q], call'[q] = call[q]
    PROVE  OperationAt(q)'
  BY HeapStays DEF OperationAt, WellPlaced, heap

LEMMA OperationAway ==
    ASSUME NEW q \in Procs, pc'[q] \notin {"lock", "enter", "walk", "publish", "unlinked"}
    PROVE  OperationAt(q)'
  BY DEF OperationAt

(* While one process changes the list the others are elsewhere. *)
LEMMA OthersAway ==
    ASSUME ListInv, NEW p \in Procs, pc[p] \in InList, call[p].op # "member"
    PROVE  \A q \in Procs \ {p} :
             /\ pc[q] \notin InList
             /\ pc'[q] = pc[q] /\ call'[q] = call[q] => OperationAt(q)'
<1>1. \A q \in Procs \ {p} : pc[q] \notin InList
  BY AccessAlone DEF ListInv, ChangesAlone
<1> QED
  BY <1>1 DEF ListInv, OperationAt, InList

(* The nodes held, when one process alone can hold any. *)
LEMMA HeldOne ==
    ASSUME NEW p \in Procs, \A q \in Procs \ {p} : pc[q] \notin InList
    PROVE  Held = IF pc[p] = "publish" THEN {call[p].temp}
                  ELSE IF pc[p] = "unlinked" THEN {call[p].curr} ELSE {}
  BY DEF Held, At, InList

LEMMA HeldOneNext ==
    ASSUME NEW p \in Procs, \A q \in Procs \ {p} : pc'[q] \notin InList
    PROVE  Held' = IF pc'[p] = "publish" THEN {call'[p].temp}
                   ELSE IF pc'[p] = "unlinked" THEN {call'[p].curr} ELSE {}
  BY DEF Held, At, InList

(* A process that holds no node before its step and none after does not change   *)
(* what is held.                                                                 *)
LEMMA HeldStays ==
    ASSUME NEW p \in Procs, pc[p] \notin {"publish", "unlinked"},
           pc'[p] \notin {"publish", "unlinked"},
           \A q \in Procs \ {p} : pc'[q] = pc[q] /\ call'[q] = call[q]
    PROVE  Held' = Held
  BY DEF Held, At

(* A process in the list is there before it is freed. *)
LEMMA ListStepBefore ==
    ASSUME ListInv, NEW p \in Procs, ListStep(p)
    PROVE  ~Freeing /\ ~Freeing' /\ AccessInv'
<1>1. /\ pc[p] \in InList /\ pc'[p] \in InList
      /\ \A q \in Procs \ {p} : pc'[q] = pc[q]
  BY ListStepStays DEF ListInv, AccessInv
<1>2. Main \in Procs /\ p \in Threads \cup {Main}
  BY DEF Procs
<1>3. ~Freeing
  BY <1>1, <1>2 DEF ListInv, Freeing, InList
<1>4. ~Freeing'
  BY <1>1, <1>2, <1>3 DEF Freeing, InList
<1>5. AccessInv'
  BY <1>2, ThreadAccess, MainAccess DEF ListInv, ThreadStep, MainStep
<1> QED
  BY <1>3, <1>4, <1>5

(* The two operations that link and unlink, and the two that give a node out and *)
(* take it back: what each makes of the list.                                    *)
LEMMA AfterAlloc ==
    ASSUME ListInv, NEW p \in Procs, InsertAlloc(p)
    PROVE  /\ Linked' = Linked /\ Chain(head', next', data', Linked)
           /\ \A b \in Linked : next'[b] = next[b] /\ data'[b] = data[b]
<1>1. ~Freeing /\ ListStep(p)
  BY ListStepBefore DEF ListStep
<1>2. Chain(head, next, data, Linked) /\ Linked \subseteq alloc /\ Linked \subseteq Addrs /\ NULL \notin Linked
  BY <1>1, ListFacts
<1>3. next \in [Addrs -> Pointers] /\ data \in [Addrs -> Keys \cup {0}] /\ data' \in [Addrs -> Keys \cup {0}]
  BY <1>1, ListStepBefore DEF ListInv, AccessInv, TypeOK
<1>4. PICK a \in Addrs \ alloc : /\ data' = [data EXCEPT ![a] = call[p].val]
                                 /\ next' = [next EXCEPT ![a] = call[p].curr]
  BY DEF InsertAlloc
<1>5. \A b \in Linked : next'[b] = next[b] /\ data'[b] = data[b]
  BY <1>2, <1>3, <1>4
<1>6. Chain(head', next', data', Linked)
  <2>1. head' = head
    BY DEF InsertAlloc
  <2> QED
    BY <1>2, <1>5, <2>1, ChainSame
<1>7. Fields(data', Linked)
  BY <1>2, <1>3, DataInt DEF Fields
<1> QED
  BY <1>5, <1>6, <1>7, ChainLinkedNext

LEMMA AfterPublish ==
    ASSUME ListInv, NEW p \in Procs, InsertPublish(p)
    PROVE  /\ Linked' = Linked \cup {call[p].temp} /\ Chain(head', next', data', Linked')
           /\ call[p].temp \in Addrs \ Linked /\ data' = data
<1> DEFINE x == call[p].temp
           pr == call[p].pred
           L == Linked \cup {x}
<1>1. ~Freeing /\ ListStep(p) /\ TypeOK /\ next \in [Addrs -> Pointers]
  BY ListStepBefore DEF ListStep, ListInv, AccessInv, TypeOK
<1>2. Chain(head, next, data, Linked) /\ Fields(data, Linked) /\ Linked \subseteq Addrs
  BY <1>1, ListFacts
<1>3. pc[p] = "publish" /\ data' = data /\ Link(p, x)
  BY DEF InsertPublish, Goto
<1>4. /\ x \in Addrs \ Linked /\ call[p].curr \in Linked \cup {NULL} /\ pr \in Linked \cup {NULL}
      /\ next[x] = call[p].curr
      /\ call[p].curr # NULL => data[x] < data[call[p].curr]
      /\ IF pr = NULL THEN call[p].curr = head ELSE next[pr] = call[p].curr /\ data[pr] < data[x]
  BY <1>1, <1>3 DEF ListInv, OperationAt, WellPlaced, TypeOK
<1>5. /\ pr = NULL => Chain(x, next, data, L)
      /\ pr # NULL => Chain(head, [next EXCEPT ![pr] = x], data, L)
  BY <1>1, <1>2, <1>4, ChainInsert
<1>6. Chain(head', next', data', L)
  BY <1>3, <1>5 DEF Link
<1>7. Linked' = L
  BY <1>1, <1>2, <1>3, <1>4, <1>6, FieldsOfList, ChainLinkedNext
<1> QED
  BY <1>3, <1>4, <1>6, <1>7

LEMMA AfterUnlink ==
    ASSUME ListInv, NEW p \in Procs, DeleteUnlink(p)
    PROVE  /\ Linked' = Linked \ {call[p].curr} /\ Chain(head', next', data', Linked')
           /\ call[p].curr \in Linked /\ data' = data
<1> DEFINE c == call[p].curr
           pr == call[p].pred
           L == Linked \ {c}
<1>1. ~Freeing /\ ListStep(p) /\ TypeOK /\ next \in [Addrs -> Pointers]
  BY ListStepBefore DEF ListStep, ListInv, AccessInv, TypeOK
<1>2. Chain(head, next, data, Linked) /\ Fields(data, Linked) /\ Linked \subseteq Addrs
  BY <1>1, ListFacts
<1>3. pc[p] = "walk" /\ call[p].op = "delete" /\ c # NULL /\ data' = data /\ Link(p, next[c])
  BY DEF DeleteUnlink, Goto, Found
<1>4. /\ c \in Linked /\ pr \in Linked \cup {NULL}
      /\ IF pr = NULL THEN c = head ELSE next[pr] = c
  BY <1>3 DEF ListInv, OperationAt, WellPlaced
<1>5. /\ pr = NULL => Chain(next[c], next, data, L)
      /\ pr # NULL => Chain(head, [next EXCEPT ![pr] = next[c]], data, L)
  BY <1>1, <1>2, <1>4, ChainRemove
<1>6. Chain(head', next', data', L)
  BY <1>3, <1>5 DEF Link
<1>7. Linked' = L
  BY <1>1, <1>2, <1>3, <1>6, FieldsOfList, ChainLinkedNext
<1> QED
  BY <1>3, <1>4, <1>6, <1>7

LEMMA AfterFree ==
    ASSUME ListInv, NEW p \in Procs, DeleteFree(p)
    PROVE  /\ Linked' = Linked /\ Chain(head', next', data', Linked)
           /\ \A b \in Linked : next'[b] = next[b] /\ data'[b] = data[b]
<1>1. ~Freeing /\ ListStep(p)
  BY ListStepBefore DEF ListStep
<1>2. Chain(head, next, data, Linked) /\ Linked \subseteq Addrs /\ NULL \notin Linked
  BY <1>1, ListFacts
<1>3. next \in [Addrs -> Pointers] /\ data \in [Addrs -> Keys \cup {0}] /\ data' \in [Addrs -> Keys \cup {0}]
  BY <1>1, ListStepBefore DEF ListInv, AccessInv, TypeOK
<1>4. call[p].curr \notin Linked
  BY DEF DeleteFree, Goto, ListInv, OperationAt
<1>5. \A b \in Linked : next'[b] = next[b] /\ data'[b] = data[b]
  BY <1>2, <1>3, <1>4 DEF DeleteFree, Free
<1>6. Chain(head', next', data', Linked)
  BY <1>2, <1>5, ChainSame DEF DeleteFree
<1>7. Fields(data', Linked)
  BY <1>2, <1>3, DataInt DEF Fields
<1> QED
  BY <1>5, <1>6, <1>7, ChainLinkedNext

LEMMA ListStepInv == ASSUME ListInv, NEW p \in Procs, ListStep(p) PROVE ListInv'
<1>1. ~Freeing /\ ~Freeing' /\ AccessInv'
  BY ListStepBefore
<1>2. TypeOK /\ AccessInv /\ OperationAt(p) /\ pc \in [Procs -> Locations] /\ call \in [Procs -> Calls]
      /\ next \in [Addrs -> Pointers] /\ data \in [Addrs -> Keys \cup {0}] /\ call[p] \in Calls
  BY DEF ListInv, AccessInv, TypeOK
<1>3. /\ pc[p] \in InList /\ pc'[p] \in InList /\ call'[p].op = call[p].op
      /\ \A q \in Procs \ {p} : pc'[q] = pc[q] /\ call'[q] = call[q]
  BY <1>2, ListStepStays
<1>4. /\ Chain(head, next, data, Linked) /\ Fields(data, Linked)
      /\ alloc = Linked \cup Held /\ Linked \subseteq alloc /\ Linked \subseteq Addrs
      /\ NULL \notin Linked
      /\ \A a \in Linked : data[a] \in Int
  BY <1>1, ListFacts
<1>5. SUFFICES /\ Chain(head', next', data', Linked') /\ alloc' = Linked' \cup Held'
               /\ OperationAt(p)' /\ \A q \in Procs \ {p} : OperationAt(q)'
  <2>1. \A t \in Threads : pc'[t] # "free"
    BY <1>3 DEF ListInv, InList, Procs
  <2> QED
    BY <1>1, <2>1 DEF ListInv, Freeing
<1>6. NULL \notin Addrs /\ Keys \subseteq Int
  BY ProcsAssumption, InputAssumption
<1>7. CASE Enter(p) \/ Walk(p) \/ ReturnUnchanged(p)
  <2>1. UNCHANGED heap /\ pc[p] \in {"enter", "walk"} /\ pc'[p] \in {"walk", "return"}
    BY <1>2, <1>7 DEF Enter, Walk, ReturnUnchanged, Goto
  <2>2. Linked' = Linked /\ Held' = Held
    BY <1>3, <2>1, HeapStays, HeldStays
  <2>3. \A q \in Procs \ {p} : OperationAt(q)'
    BY <1>3, <2>1, OperationStays DEF ListInv
  <2>4. OperationAt(p)'
    <3>1. CASE Enter(p)
      <4>1. pc'[p] = "walk" /\ pc[p] = "enter" /\ call'[p] = [call[p] EXCEPT !.curr = head]
        BY <1>2, <3>1 DEF Enter, Goto
      <4>2. call'[p].curr = head /\ call'[p].pred = NULL /\ call'[p].val = call[p].val
            /\ call'[p].op \in Kinds /\ call'[p].val \in Keys
        BY <1>2, <1>3, <4>1 DEF OperationAt, Calls
      <4>3. head \in Linked \cup {NULL} /\ \A a \in Linked : head # NULL /\ data[head] <= data[a]
        BY <1>4, FirstIsLeast DEF Chain
      <4>4. WellPlaced(p)'
        BY <2>1, <2>2, <4>2, <4>3 DEF WellPlaced, heap
      <4> QED
        BY <4>1, <4>2, <4>4 DEF OperationAt
    <3>2. CASE Walk(p)
      <4> DEFINE c == call[p].curr
      <4>1. pc'[p] = "walk" /\ pc[p] = "walk" /\ c # NULL /\ data[c] < call[p].val
        BY <1>2, <3>2 DEF Walk, Ahead
      <4>2. c \in Linked /\ call[p].op \in Kinds /\ call[p].val \in Keys /\ call[p].pred \in Linked \cup {NULL}
        BY <1>2, <4>1 DEF OperationAt, WellPlaced
      <4>3. call'[p].curr = next[c] /\ call'[p].val = call[p].val
            /\ call'[p].pred = IF call[p].op = "member" THEN call[p].pred ELSE c
        BY <1>2, <3>2 DEF Walk, Calls
      <4>4. next[c] \in Linked \cup {NULL}
        BY <1>4, <4>2 DEF Chain
      <4>5. ASSUME NEW a \in Linked
            PROVE  data[a] < call[p].val \/ (next[c] # NULL /\ data[next[c]] <= data[a])
        <5>1. CASE data[a] < call[p].val
          BY <5>1
        <5>2. CASE ~(data[a] < call[p].val)
          <6>1. data[c] <= data[a] /\ a # c
            BY <1>2, <4>1, <5>2 DEF OperationAt, WellPlaced
          <6> QED
            BY <1>4, <4>2, <6>1, NextInOrder
        <5> QED
          BY <5>1, <5>2
      <4>6. WellPlaced(p)'
        <5>1. next' = next /\ data' = data /\ head' = head
          BY <2>1 DEF heap
        <5> HIDE DEF c
        <5> QED
          BY <1>3, <2>2, <4>1, <4>2, <4>3, <4>4, <4>5, <5>1, <1>6, <1>4 DEF WellPlaced
      <4> QED
        BY <1>3, <4>1, <4>2, <4>3, <4>6 DEF OperationAt
    <3>3. CASE ReturnUnchanged(p)
      BY <1>2, <3>3, OperationAway DEF ReturnUnchanged, Goto
    <3> QED
      BY <1>7, <3>1, <3>2, <3>3
  <2>5. UNCHANGED <<head, data, next, alloc>>
    BY <2>1 DEF heap
  <2> QED
    BY <1>4, <2>2, <2>3, <2>4, <2>5
<1>8. CASE InsertAlloc(p)
  <2>1. PICK a \in Addrs \ alloc :
          /\ alloc' = alloc \cup {a}
          /\ data' = [data EXCEPT ![a] = call[p].val]
          /\ next' = [next EXCEPT ![a] = call[p].curr]
          /\ call' = [call EXCEPT ![p].temp = a]
    BY <1>8 DEF InsertAlloc
  <2>2. /\ pc[p] = "walk" /\ pc'[p] = "publish" /\ call[p].op = "insert" /\ head' = head
        /\ call[p].curr # NULL => ~(data[call[p].curr] < call[p].val) /\ data[call[p].curr] # call[p].val
    BY <1>2, <1>8 DEF InsertAlloc, Goto, Ahead, Found
  <2>3. \A q \in Procs \ {p} : pc[q] \notin InList /\ OperationAt(q)'
    BY <1>3, <2>2, OthersAway
  <2>4. /\ call'[p].temp = a /\ call'[p].curr = call[p].curr /\ call'[p].pred = call[p].pred
        /\ call'[p].val = call[p].val
    BY <1>2, <2>1 DEF Calls
  <2>5. Held = {} /\ Held' = {a}
    BY <1>3, <2>2, <2>3, <2>4, HeldOne, HeldOneNext
  <2>6. /\ Linked' = Linked /\ Chain(head', next', data', Linked)
        /\ \A b \in Linked : next'[b] = next[b] /\ data'[b] = data[b]
    BY <1>8, AfterAlloc
  <2>7. a \notin Linked /\ next'[a] = call[p].curr /\ data'[a] = call[p].val
    BY <1>2, <1>4, <2>1
  <2>8. WellPlaced(p)'
    <3>1. WellPlaced(p)
      BY <1>2, <2>2 DEF OperationAt
    <3> QED
      BY <1>3, <2>2, <2>4, <2>6, <3>1 DEF WellPlaced
  <2>9. OperationAt(p)'
    <3>1. call[p].val \in Keys /\ call[p].curr \in Linked \cup {NULL}
      BY <1>2, <2>2 DEF OperationAt, WellPlaced
    <3>2. call'[p].curr # NULL => call'[p].val < data'[call'[p].curr]
      <4>1. call[p].curr # NULL =>
              /\ data'[call[p].curr] = data[call[p].curr] /\ data[call[p].curr] \in Int
              /\ call[p].val \in Int
        BY <1>4, <1>6, <2>6, <3>1
      <4> QED
        BY <2>2, <2>4, <4>1
    <3> QED
      BY <1>3, <2>1, <2>2, <2>4, <2>6, <2>7, <2>8, <3>1, <3>2 DEF OperationAt, Kinds
  <2> QED
    BY <1>4, <2>1, <2>3, <2>5, <2>6, <2>9
<1>9. CASE InsertPublish(p)
  <2>1. /\ pc[p] = "publish" /\ pc'[p] = "return" /\ call[p].op = "insert" /\ alloc' = alloc
    BY <1>2, <1>9 DEF InsertPublish, Goto, OperationAt
  <2>2. \A q \in Procs \ {p} : pc[q] \notin InList /\ OperationAt(q)'
    BY <1>3, <2>1, OthersAway
  <2>3. Held = {call[p].temp} /\ Held' = {}
    BY <1>3, <2>1, <2>2, HeldOne, HeldOneNext
  <2> QED
    BY <1>4, <1>9, <2>1, <2>2, <2>3, AfterPublish, OperationAway
<1>10. CASE DeleteUnlink(p)
  <2>1. /\ pc[p] = "walk" /\ pc'[p] = "unlinked" /\ call[p].op = "delete"
        /\ alloc' = alloc /\ call'[p].curr = call[p].curr
    BY <1>2, <1>10 DEF DeleteUnlink, Goto, Calls
  <2>2. \A q \in Procs \ {p} : pc[q] \notin InList /\ OperationAt(q)'
    BY <1>3, <2>1, OthersAway
  <2>3. Held = {} /\ Held' = {call[p].curr}
    BY <1>3, <2>1, <2>2, HeldOne, HeldOneNext
  <2>4. OperationAt(p)'
    BY <1>3, <1>4, <1>10, <2>1, AfterUnlink DEF OperationAt
  <2> QED
    BY <1>4, <1>10, <2>1, <2>2, <2>3, <2>4, AfterUnlink
<1>11. CASE DeleteFree(p)
  <2>1. /\ pc[p] = "unlinked" /\ pc'[p] = "return" /\ call[p].op = "delete"
        /\ call[p].curr \in alloc \ Linked /\ Free(call[p].curr)
    BY <1>2, <1>11 DEF DeleteFree, Goto, OperationAt
  <2>2. \A q \in Procs \ {p} : pc[q] \notin InList /\ OperationAt(q)'
    BY <1>3, <2>1, OthersAway
  <2>3. Held = {call[p].curr} /\ Held' = {}
    BY <1>3, <2>1, <2>2, HeldOne, HeldOneNext
  <2> QED
    BY <1>4, <1>11, <2>1, <2>2, <2>3, AfterFree, OperationAway DEF Free
<1> QED
  BY <1>7, <1>8, <1>9, <1>10, <1>11 DEF ListStep

(* The steps of a thread outside the list leave the list alone. *)
LEMMA ThreadStepInv == ASSUME ListInv, NEW t \in Threads, ThreadStep(t) PROVE ListInv'
<1>1. t \in Procs /\ t # Main /\ Main \in Procs /\ Threads \subseteq Procs
  BY ProcsAssumption DEF Procs
<1>2. CASE ListStep(t)
  BY <1>1, <1>2, ListStepInv
<1>3. CASE ~ListStep(t)
  <2>1. /\ TypeOK /\ AccessInv' /\ pc \in [Procs -> Locations] /\ call \in [Procs -> Calls]
    BY ThreadAccess DEF ListInv, AccessInv, TypeOK
  <2>2. /\ UNCHANGED heap
        /\ \A q \in Procs \ {t} : pc'[q] = pc[q] /\ call'[q] = call[q]
        /\ pc[t] \notin {"publish", "unlinked", "done", "free"}
        /\ pc'[t] \notin {"publish", "unlinked", "free"}
    BY <1>1, <1>3, <2>1 DEF ThreadStep, PickOp, Acquire, ReleaseAndCount, LockCounts, LoadCounts,
       StoreCounts, Goto
  <2>3. ~Freeing /\ ~Freeing' /\ pc'[Main] = pc[Main]
    BY <1>1, <2>2 DEF ListInv, Freeing
  <2>4. Linked' = Linked /\ Held' = Held /\ UNCHANGED <<head, data, next, alloc>>
    BY <1>1, <2>2, HeapStays, HeldStays DEF heap
  <2>5. OperationAt(t)'
    <3>1. CASE PickOp(t)
      <4>1. PICK op \in Kinds, k \in Keys : call' = [call EXCEPT ![t] = CallOf(op, k)]
        BY <3>1 DEF PickOp
      <4>2. call'[t].op = op /\ call'[t].val = k /\ call'[t].pred = NULL
        BY <1>1, <2>1, <4>1 DEF CallOf, NoCall
      <4>3. pc'[t] = "lock"
        BY <1>1, <2>1, <3>1 DEF PickOp, Goto
      <4> QED
        BY <4>2, <4>3 DEF OperationAt
    <3>2. CASE Acquire(t)
      <4>1. pc[t] = "lock" /\ pc'[t] = "enter" /\ call'[t] = call[t] /\ OperationAt(t)
        BY <1>1, <2>1, <3>2 DEF Acquire, Goto, ListInv
      <4> QED
        BY <4>1 DEF OperationAt
    <3>3. CASE ~PickOp(t) /\ ~Acquire(t)
      <4>1. pc'[t] \in {"loop", "count", "store", "done"}
        BY <1>1, <1>3, <2>1, <3>3 DEF ThreadStep, ReleaseAndCount, LockCounts, LoadCounts,
           StoreCounts, Goto
      <4> QED
        BY <1>1, <4>1, OperationAway
    <3> QED
      BY <3>1, <3>2, <3>3
  <2>6. \A q \in Procs \ {t} : OperationAt(q)'
    BY <2>2, OperationStays DEF ListInv
  <2>7. \A u \in Threads : pc'[u] # "free"
    BY <1>1, <2>2 DEF ListInv
  <2> QED
    BY <2>1, <2>3, <2>4, <2>5, <2>6, <2>7 DEF ListInv, Freeing
<1> QED
  BY <1>2, <1>3

LEMMA MainStepInv == ASSUME ListInv, MainStep PROVE ListInv'
<1>1. Main \in Procs /\ Main \notin Threads /\ Threads \subseteq Procs /\ Procs \ {Main} = Threads
  BY ProcsAssumption DEF Procs
<1>2. /\ TypeOK /\ AccessInv' /\ pc \in [Procs -> Locations] /\ call \in [Procs -> Calls]
      /\ next \in [Addrs -> Pointers] /\ data \in [Addrs -> Keys \cup {0}]
  BY MainAccess DEF ListInv, AccessInv, TypeOK
<1>3. CASE ListStep(Main)
  BY <1>1, <1>3, ListStepInv
<1>4. CASE MainInsert \/ MainInserted
  <2>1. /\ UNCHANGED heap
        /\ \A q \in Procs \ {Main} : pc'[q] = pc[q] /\ call'[q] = call[q]
        /\ pc[Main] \in {"populate", "return"}
        /\ pc'[Main] \in {"populate", "enter"}
    BY <1>1, <1>2, <1>4 DEF MainInsert, MainInserted, Goto
  <2>2. ~Freeing /\ ~Freeing'
    BY <2>1 DEF Freeing
  <2>3. Linked' = Linked /\ Held' = Held /\ UNCHANGED <<head, data, next, alloc>>
    BY <1>1, <2>1, HeapStays, HeldStays DEF heap
  <2>4. OperationAt(Main)'
    <3>1. CASE MainInsert
      <4>1. PICK k \in Keys : call' = [call EXCEPT ![Main] = CallOf("insert", k)]
        BY <3>1 DEF MainInsert
      <4>2. call'[Main].op = "insert" /\ call'[Main].val = k /\ call'[Main].pred = NULL
        BY <1>1, <1>2, <4>1 DEF CallOf, NoCall
      <4>3. pc'[Main] = "enter"
        BY <1>1, <1>2, <3>1 DEF MainInsert, Goto
      <4> QED
        BY <4>2, <4>3 DEF OperationAt, Kinds
    <3>2. CASE MainInserted
      BY <1>1, <1>2, <3>2, OperationAway DEF MainInserted, Goto
    <3> QED
      BY <1>4, <3>1, <3>2
  <2>5. \A q \in Procs \ {Main} : OperationAt(q)'
    BY <2>1, OperationStays DEF ListInv
  <2> QED
    BY <1>1, <1>2, <2>1, <2>2, <2>3, <2>4, <2>5 DEF ListInv, Freeing
<1>5. CASE CreateThreads
  <2>1. /\ UNCHANGED heap /\ pc[Main] = "populate" /\ pc'[Main] = "join"
        /\ \A t \in Threads : pc'[t] = "loop"
    BY <1>1, <1>5 DEF CreateThreads
  <2>2. \A t \in Threads : pc[t] = "none"
    BY <2>1 DEF ListInv, AccessInv, MainFirst
  <2>3. Held = {} /\ Held' = {}
    BY <1>1, <2>1, <2>2, HeldOne, HeldOneNext DEF InList
  <2>4. Linked' = Linked /\ UNCHANGED <<head, data, next, alloc>>
    BY <2>1, HeapStays DEF heap
  <2>5. \A q \in Procs : OperationAt(q)'
    BY <1>1, <2>1, OperationAway
  <2> QED
    BY <1>1, <1>2, <2>1, <2>3, <2>4, <2>5 DEF ListInv, Freeing
<1>6. CASE Join
  <2>1. /\ UNCHANGED heap /\ pc[Main] = "join" /\ pc'[Main] = "free"
        /\ \A t \in Threads : pc[t] = "done" /\ pc'[t] = "done"
        /\ call'[Main].curr = head
    BY <1>1, <1>2, <1>6 DEF Join, Goto, Calls
  <2>2. Held = {}
    BY <1>1, <2>1, HeldOne DEF InList
  <2>3. Chain(head, next, data, alloc)
    BY <2>1, <2>2 DEF ListInv, Freeing
  <2>4. \A q \in Procs : OperationAt(q)'
    BY <1>1, <2>1, OperationAway
  <2> QED
    BY <1>1, <1>2, <2>1, <2>3, <2>4 DEF ListInv, Freeing, heap
<1>7. CASE FreeNode
  <2> DEFINE c == call[Main].curr
  <2>1. /\ pc[Main] = "free" /\ pc' = pc /\ c # NULL /\ call'[Main].curr = next[c] /\ Free(c)
    BY <1>1, <1>2, <1>7 DEF FreeNode, Calls
  <2>2. Chain(c, next, data, alloc) /\ Fields(data, alloc) /\ \A t \in Threads : pc[t] = "done"
    BY <1>2, <2>1, FieldsOfList DEF ListInv, Freeing, TypeOK
  <2>3. c \in alloc /\ alloc \subseteq Addrs
    BY <1>2, <2>1, <2>2 DEF Chain, TypeOK
  <2>4. Chain(next[c], next, data, alloc \ {c})
    BY <1>2, <2>2, <2>3, ChainRemove
  <2>5. \A a \in alloc \ {c} : next'[a] = next[a] /\ data'[a] = data[a]
    BY <1>2, <2>1, <2>3 DEF Free
  <2>6. Chain(next[c], next', data', alloc \ {c})
    BY <2>3, <2>4, <2>5, ChainSame, ProcsAssumption
  <2>7. \A q \in Procs : OperationAt(q)'
    BY <1>1, <2>1, <2>2, OperationAway
  <2> QED
    BY <1>1, <1>2, <2>1, <2>2, <2>6, <2>7 DEF ListInv, Freeing, Free
<1>8. CASE Exit
  <2>1. pc[Main] = "free" /\ pc'[Main] = "exit" /\ UNCHANGED heap /\ call[Main].curr = NULL
        /\ \A t \in Threads : pc'[t] = pc[t]
    BY <1>1, <1>2, <1>8 DEF Exit, Goto
  <2>2. Chain(NULL, next, data, alloc) /\ Fields(data, alloc) /\ \A t \in Threads : pc[t] = "done"
    BY <1>2, <2>1, FieldsOfList DEF ListInv, Freeing, TypeOK
  <2>3. alloc = {}
    BY <1>2, <2>2, FirstIsLeast, ProcsAssumption DEF TypeOK
  <2>4. \A q \in Procs : OperationAt(q)'
    BY <1>1, <2>1, <2>2, OperationAway
  <2> QED
    BY <1>1, <1>2, <2>1, <2>2, <2>3, <2>4 DEF ListInv, Freeing, heap
<1> QED
  BY <1>3, <1>4, <1>5, <1>6, <1>7, <1>8 DEF MainStep

LEMMA ListInvInit == Init => ListInv
<1> SUFFICES ASSUME Init PROVE ListInv
  OBVIOUS
<1>1. AccessInv
  BY AccessInvInit
<1>2. Main \in Procs /\ Main \notin Threads /\ Procs = Threads \cup {Main}
      /\ \A q \in Procs : pc[q] \in {"none", "populate"}
  BY ProcsAssumption DEF Procs, Init
<1>3. pc[Main] = "populate" /\ \A t \in Threads : pc[t] = "none"
  BY <1>2 DEF Init
<1>4. Chain(head, next, data, {})
  BY DEF Chain, Init
<1>5. Linked = {}
  BY <1>1, <1>4, ChainLinked, FieldsOfList DEF AccessInv
<1>6. Held = {}
  BY <1>2 DEF Held, At
<1>7. alloc = {}
  BY DEF Init
<1>8. \A q \in Procs : OperationAt(q)
  BY <1>2 DEF OperationAt
<1> QED
  BY <1>1, <1>3, <1>4, <1>5, <1>6, <1>7, <1>8 DEF ListInv, Freeing

LEMMA ListInvNext == ListInv /\ [Next]_vars => ListInv'
<1> SUFFICES ASSUME ListInv, [Next]_vars PROVE ListInv'
  OBVIOUS
<1>1. CASE UNCHANGED vars
  <2>1. UNCHANGED heap /\ UNCHANGED <<pc, call>> /\ UNCHANGED <<head, data, next, alloc>>
    BY <1>1 DEF vars, heap
  <2>2. AccessInv'
    BY <1>1, AccessInvStep DEF ListInv
  <2>3. Linked' = Linked /\ Held' = Held
    BY <2>1, HeapStays DEF Held, At
  <2>4. \A q \in Procs : OperationAt(q)'
    BY <2>1, OperationStays DEF ListInv
  <2> QED
    BY <2>1, <2>2, <2>3, <2>4 DEF ListInv, Freeing
<1> QED
  BY <1>1, ThreadStepInv, MainStepInv DEF Next, Exited

(* Until main frees it the list is a sorted chain of the nodes linked, every     *)
(* other allocated node is in the hands of the one process about to link or free *)
(* it, and every walk is where the list lets it be (lines 150-249).              *)
THEOREM ListInvariant == Spec => []ListInv
<1> QED
  BY ListInvInit, ListInvNext, PTL DEF Spec

(* The list ends, holds allocated nodes only and is strictly sorted, in every    *)
(* state and whoever is in the middle of an Insert or Delete.                    *)
THEOREM ListAlwaysSorted == Spec => []ListSorted
<1>1. ListInv => ListSorted
  <2> SUFFICES ASSUME ListInv, ~Freeing
               PROVE  /\ Node[Cardinality(Addrs)] = NULL
                      /\ Linked \subseteq alloc
                      /\ \A a \in Linked : next[a] # NULL => data[a] < data[next[a]]
    BY DEF ListSorted
  <2> QED
    BY ListFacts DEF Chain, N
<1> QED
  BY <1>1, ListInvariant, PTL

(* Whatever a process is about to read, write or free is allocated.              *)
THEOREM MemoryAlwaysSafe == Spec => []MemorySafe
<1>1. ListInv => MemorySafe
  <2> SUFFICES ASSUME ListInv, NEW p \in Procs
               PROVE  /\ pc[p] \in {"walk", "publish"} =>
                            {call[p].curr, call[p].pred} \subseteq alloc \cup {NULL}
                      /\ pc[p] = "publish" => call[p].temp \in alloc
                      /\ pc[p] = "unlinked" => call[p].curr \in alloc
                      /\ pc[p] = "free" => call[p].curr \in alloc \cup {NULL}
    BY DEF MemorySafe
  <2>1. OperationAt(p)
    BY DEF ListInv
  <2>2. pc[p] \in {"walk", "publish"} => Linked \subseteq alloc
    BY ListFacts DEF ListInv, Freeing, Procs
  <2>3. pc[p] = "free" => p = Main /\ Chain(call[Main].curr, next, data, alloc)
    BY DEF ListInv, Procs
  <2> QED
    BY <2>1, <2>2, <2>3 DEF OperationAt, WellPlaced, Chain
<1> QED
  BY <1>1, ListInvariant, PTL

(* A node that is allocated is in the list or in the hands of one operation, and *)
(* at the end none is left.                                                      *)
THEOREM NothingLeaks == Spec => []NoLeak
<1>1. ListInv => NoLeak
  BY DEF ListInv, NoLeak, Held
<1> QED
  BY <1>1, ListInvariant, PTL

--------------------------------------------------------------------------------
(* The list as a set *)

KeysIn == IF Freeing THEN {} ELSE {data[a] : a \in Linked}
PendingNow == [p \in Procs |-> PendingOf(p)]

(* The steps of SharedSet, in the terms of this module. *)
LEMMA SetSteps ==
    /\ KeysIn = {} /\ (\A p \in Procs : PendingOf(p) = [kind |-> "idle"]) => Abstract!SetInit
    /\ UNCHANGED <<KeysIn, PendingNow>> => UNCHANGED Abstract!setVars
    /\ \A p \in Procs, k \in Keys, op \in Kinds :
          /\ PendingOf(p) = [kind |-> "idle"]
          /\ PendingNow' = [PendingNow EXCEPT ![p] = [kind |-> "call", op |-> op, key |-> k]]
          /\ KeysIn' = KeysIn
          => Abstract!SetNext
    /\ \A p \in Procs, k \in Keys :
          /\ PendingOf(p) = [kind |-> "call", op |-> "member", key |-> k]
          /\ PendingNow' = [PendingNow EXCEPT ![p] = [kind |-> "answer", rv |-> k \in KeysIn]]
          /\ KeysIn' = KeysIn
          => Abstract!SetNext
    /\ \A p \in Procs, k \in Keys :
          /\ PendingOf(p) = [kind |-> "call", op |-> "insert", key |-> k]
          /\ PendingNow' = [PendingNow EXCEPT ![p] = [kind |-> "answer", rv |-> k \notin KeysIn]]
          /\ KeysIn' = KeysIn \cup {k}
          => Abstract!SetNext
    /\ \A p \in Procs, k \in Keys :
          /\ PendingOf(p) = [kind |-> "call", op |-> "delete", key |-> k]
          /\ PendingNow' = [PendingNow EXCEPT ![p] = [kind |-> "answer", rv |-> k \in KeysIn]]
          /\ KeysIn' = KeysIn \ {k}
          => Abstract!SetNext
    /\ \A p \in Procs, rv \in BOOLEAN :
          /\ PendingOf(p) = [kind |-> "answer", rv |-> rv]
          /\ PendingNow' = [PendingNow EXCEPT ![p] = [kind |-> "idle"]]
          /\ KeysIn' = KeysIn
          => Abstract!SetNext
    /\ /\ \A p \in Procs : PendingOf(p) = [kind |-> "idle"]
       /\ KeysIn' = {} /\ PendingNow' = PendingNow
       => Abstract!SetNext
<1> USE DEF KeysIn, PendingNow, Abstract!Idle, Abstract!Call, Abstract!Answer
<1>1. KeysIn = {} /\ (\A p \in Procs : PendingOf(p) = [kind |-> "idle"]) => Abstract!SetInit
  BY DEF Abstract!SetInit
<1>2. UNCHANGED <<KeysIn, PendingNow>> => UNCHANGED Abstract!setVars
  BY DEF Abstract!setVars
<1>3. ASSUME NEW p \in Procs, NEW k \in Keys, NEW op \in Kinds,
             PendingOf(p) = [kind |-> "idle"],
             PendingNow' = [PendingNow EXCEPT ![p] = [kind |-> "call", op |-> op, key |-> k]],
             KeysIn' = KeysIn
      PROVE  Abstract!SetNext
  <2>1. Abstract!Invoke(p, op, k)
    BY <1>3 DEF Abstract!Invoke
  <2> QED
    BY <2>1 DEF Abstract!SetNext, Kinds
<1>4. ASSUME NEW p \in Procs, NEW k \in Keys,
             PendingOf(p) = [kind |-> "call", op |-> "member", key |-> k],
             PendingNow' = [PendingNow EXCEPT ![p] = [kind |-> "answer", rv |-> k \in KeysIn]],
             KeysIn' = KeysIn
      PROVE  Abstract!SetNext
  <2>1. Abstract!DoMember(p, k)
    BY <1>4 DEF Abstract!DoMember
  <2> QED
    BY <2>1 DEF Abstract!SetNext
<1>5. ASSUME NEW p \in Procs, NEW k \in Keys,
             PendingOf(p) = [kind |-> "call", op |-> "insert", key |-> k],
             PendingNow' = [PendingNow EXCEPT ![p] = [kind |-> "answer", rv |-> k \notin KeysIn]],
             KeysIn' = KeysIn \cup {k}
      PROVE  Abstract!SetNext
  <2>1. Abstract!DoInsert(p, k)
    BY <1>5 DEF Abstract!DoInsert
  <2> QED
    BY <2>1 DEF Abstract!SetNext
<1>6. ASSUME NEW p \in Procs, NEW k \in Keys,
             PendingOf(p) = [kind |-> "call", op |-> "delete", key |-> k],
             PendingNow' = [PendingNow EXCEPT ![p] = [kind |-> "answer", rv |-> k \in KeysIn]],
             KeysIn' = KeysIn \ {k}
      PROVE  Abstract!SetNext
  <2>1. Abstract!DoDelete(p, k)
    BY <1>6 DEF Abstract!DoDelete
  <2> QED
    BY <2>1 DEF Abstract!SetNext
<1>7. ASSUME NEW p \in Procs, NEW rv \in BOOLEAN,
             PendingOf(p) = [kind |-> "answer", rv |-> rv],
             PendingNow' = [PendingNow EXCEPT ![p] = [kind |-> "idle"]],
             KeysIn' = KeysIn
      PROVE  Abstract!SetNext
  <2>1. Abstract!Return(p)
    BY <1>7 DEF Abstract!Return
  <2> QED
    BY <2>1 DEF Abstract!SetNext
<1>8. ASSUME \A p \in Procs : PendingOf(p) = [kind |-> "idle"],
             KeysIn' = {}, PendingNow' = PendingNow
      PROVE  Abstract!SetNext
  <2>1. Abstract!Discard
    BY <1>8 DEF Abstract!Discard
  <2> QED
    BY <2>1 DEF Abstract!SetNext
<1> HIDE DEF KeysIn, PendingNow
<1> QED
  BY <1>1, <1>2, <1>3, <1>4, <1>5, <1>6, <1>7, <1>8

LEMMA PendingMoves ==
    ASSUME NEW p \in Procs, \A q \in Procs \ {p} : pc'[q] = pc[q] /\ call'[q] = call[q]
    PROVE  PendingNow' = [PendingNow EXCEPT ![p] = PendingOf(p)']
<1>1. \A q \in Procs \ {p} : PendingOf(q)' = PendingOf(q)
  BY DEF PendingOf
<1> QED
  BY <1>1 DEF PendingNow

LEMMA PendingStays ==
    ASSUME \A q \in Procs : PendingOf(q)' = PendingOf(q) PROVE PendingNow' = PendingNow
  BY DEF PendingNow

LEMMA KeysStay ==
    ASSUME Freeing' <=> Freeing, Linked' = Linked, \A a \in Linked : data'[a] = data[a]
    PROVE  KeysIn' = KeysIn
  BY DEF KeysIn

(* Where a walk ends is whether the key is there. *)
LEMMA WalkDecides ==
    ASSUME ListInv, NEW p \in Procs, pc[p] \in {"walk", "publish"}, ~Ahead(p)
    PROVE  Found(p) <=> call[p].val \in KeysIn
<1>1. ~Freeing
  BY DEF ListInv, Freeing, Procs
<1>2. WellPlaced(p) /\ call[p].val \in Int /\ \A a \in Linked : data[a] \in Int
  BY <1>1, ListFacts, InputAssumption DEF ListInv, OperationAt
<1>3. Found(p) => call[p].val \in KeysIn
  BY <1>1, <1>2 DEF Found, KeysIn, WellPlaced
<1>4. ASSUME NEW a \in Linked, data[a] = call[p].val PROVE Found(p)
  <2>1. call[p].curr # NULL /\ data[call[p].curr] <= data[a] /\ call[p].curr \in Linked
    BY <1>2, <1>4 DEF WellPlaced
  <2> QED
    BY <1>2, <1>4, <2>1 DEF Ahead, Found
<1> QED
  BY <1>1, <1>3, <1>4 DEF KeysIn

LEMMA ListStepIsSetStep ==
    ASSUME ListInv, NEW p \in Procs, ListStep(p)
    PROVE  Abstract!SetNext \/ UNCHANGED Abstract!setVars
<1> DEFINE k == call[p].val
<1>1. /\ ~Freeing /\ ~Freeing'
      /\ \A q \in Procs \ {p} : pc'[q] = pc[q] /\ call'[q] = call[q]
      /\ pc \in [Procs -> Locations] /\ call \in [Procs -> Calls] /\ OperationAt(p) /\ call[p] \in Calls
  BY ListStepBefore, ListStepStays DEF ListInv, AccessInv, TypeOK
<1>2. PendingNow' = [PendingNow EXCEPT ![p] = PendingOf(p)']
  BY <1>1, PendingMoves
<1>3. UNCHANGED heap => KeysIn' = KeysIn
  BY <1>1, HeapStays, KeysStay DEF heap
<1>4. CASE Enter(p) \/ Walk(p) \/ InsertAlloc(p) \/ DeleteFree(p)
  <2>1. PendingOf(p)' = PendingOf(p)
    <3>1. CASE Enter(p)
      BY <1>1, <3>1 DEF Enter, Goto, PendingOf, Calls
    <3>2. CASE Walk(p)
      BY <1>1, <3>2 DEF Walk, PendingOf, Calls
    <3>3. CASE InsertAlloc(p)
      <4>1. PICK a \in Addrs : call' = [call EXCEPT ![p].temp = a]
        BY <3>3 DEF InsertAlloc
      <4>2. pc[p] = "walk" /\ pc'[p] = "publish"
        BY <1>1, <3>3 DEF InsertAlloc, Goto
      <4> QED
        BY <1>1, <4>1, <4>2 DEF PendingOf, Calls
    <3>4. CASE DeleteFree(p)
      BY <1>1, <3>4 DEF DeleteFree, Goto, PendingOf
    <3> QED
      BY <1>4, <3>1, <3>2, <3>3, <3>4
  <2>2. PendingNow' = PendingNow
    BY <1>1, <2>1, PendingStays DEF PendingOf
  <2>3. KeysIn' = KeysIn
    BY <1>1, <1>3, <1>4, AfterAlloc, AfterFree, KeysStay DEF Enter, Walk
  <2> QED
    BY <2>2, <2>3, SetSteps
<1>5. CASE ReturnUnchanged(p)
  <2>1. /\ pc[p] = "walk" /\ pc'[p] = "return" /\ ~Ahead(p) /\ UNCHANGED heap
        /\ call'[p].rv = (call[p].op = "member" /\ Found(p))
        /\ \/ call[p].op = "member"
           \/ call[p].op = "insert" /\ Found(p)
           \/ call[p].op = "delete" /\ ~Found(p)
    BY <1>1, <1>5 DEF ReturnUnchanged, Goto, Calls
  <2>2. Found(p) <=> k \in KeysIn
    BY <2>1, WalkDecides
  <2>3. k \in Keys /\ PendingOf(p) = [kind |-> "call", op |-> call[p].op, key |-> k]
    BY <1>1, <2>1 DEF OperationAt, PendingOf
  <2>4. PendingOf(p)' = [kind |-> "answer", rv |-> call'[p].rv]
    BY <2>1 DEF PendingOf
  <2>5. CASE call[p].op = "member"
    <3>1. call'[p].rv = (k \in KeysIn)
      BY <2>1, <2>2, <2>5 DEF Found
    <3> HIDE DEF k
    <3> QED
      BY <1>2, <1>3, <2>1, <2>3, <2>4, <2>5, <3>1, SetSteps
  <2>6. CASE call[p].op = "insert" /\ Found(p)
    <3>1. call'[p].rv = (k \notin KeysIn) /\ KeysIn = KeysIn \cup {k}
      BY <2>1, <2>2, <2>6
    <3> HIDE DEF k
    <3> QED
      BY <1>2, <1>3, <2>1, <2>3, <2>4, <2>6, <3>1, SetSteps
  <2>7. CASE call[p].op = "delete" /\ ~Found(p)
    <3>1. call'[p].rv = (k \in KeysIn) /\ KeysIn = KeysIn \ {k}
      BY <2>1, <2>2, <2>7
    <3> HIDE DEF k
    <3> QED
      BY <1>2, <1>3, <2>1, <2>3, <2>4, <2>7, <3>1, SetSteps
  <2> QED
    BY <2>1, <2>5, <2>6, <2>7
<1>6. CASE InsertPublish(p)
  <2>1. /\ pc[p] = "publish" /\ pc'[p] = "return" /\ call[p].op = "insert" /\ call'[p].rv = TRUE
    BY <1>1, <1>6 DEF InsertPublish, Goto, OperationAt, Calls
  <2>2. k \in Keys /\ PendingOf(p) = [kind |-> "call", op |-> "insert", key |-> k]
    BY <1>1, <2>1 DEF OperationAt, PendingOf
  <2>3. k \notin KeysIn
    <3>1. k \in Int /\ (call[p].curr # NULL => k < data[call[p].curr] /\ data[call[p].curr] \in Int)
      BY <1>1, <2>1, <2>2, ListFacts, InputAssumption DEF OperationAt, WellPlaced
    <3>2. ~Ahead(p) /\ ~Found(p)
      BY <3>1 DEF Ahead, Found
    <3> QED
      BY <2>1, <3>2, WalkDecides
  <2>4. KeysIn' = KeysIn \cup {k}
    <3>1. data[call[p].temp] = k
      BY <1>1, <2>1 DEF OperationAt
    <3> QED
      BY <1>1, <1>6, <3>1, AfterPublish DEF KeysIn
  <2>5. PendingOf(p)' = [kind |-> "answer", rv |-> k \notin KeysIn]
    BY <2>1, <2>3 DEF PendingOf
  <2> HIDE DEF k
  <2> QED
    BY <1>2, <2>2, <2>4, <2>5, SetSteps
<1>7. CASE DeleteUnlink(p)
  <2>1. /\ pc[p] = "walk" /\ pc'[p] = "unlinked" /\ call[p].op = "delete" /\ call'[p].rv = TRUE
        /\ ~Ahead(p) /\ Found(p)
    BY <1>1, <1>7 DEF DeleteUnlink, Goto, Calls
  <2>2. k \in Keys /\ PendingOf(p) = [kind |-> "call", op |-> "delete", key |-> k]
    BY <1>1, <2>1 DEF OperationAt, PendingOf
  <2>3. k \in KeysIn
    BY <2>1, WalkDecides
  <2>4. KeysIn' = KeysIn \ {k}
    <3> DEFINE c == call[p].curr
    <3>1. data[c] = k /\ c \in Linked /\ Linked' = Linked \ {c} /\ data' = data
      BY <1>7, <2>1, AfterUnlink DEF Found
    <3>2. \A a \in Linked \ {c} : data[a] # k
      <4> SUFFICES ASSUME NEW a \in Linked \ {c}, data[a] = k PROVE FALSE
        OBVIOUS
      <4>1. data[c] <= data[a] /\ ~(data[c] < data[a])
        BY <1>1, <3>1, ListFacts
      <4> QED
        BY <1>1, <3>1, <4>1, ListFacts, NextInOrder
    <3> HIDE DEF c
    <3> QED
      BY <1>1, <3>1, <3>2 DEF KeysIn
  <2>5. PendingOf(p)' = [kind |-> "answer", rv |-> k \in KeysIn]
    BY <2>1, <2>3 DEF PendingOf
  <2> HIDE DEF k
  <2> QED
    BY <1>2, <2>2, <2>4, <2>5, SetSteps
<1> QED
  BY <1>4, <1>5, <1>6, <1>7 DEF ListStep

LEMMA ThreadStepIsSetStep ==
    ASSUME ListInv, NEW t \in Threads, ThreadStep(t)
    PROVE  Abstract!SetNext \/ UNCHANGED Abstract!setVars
<1>1. t \in Procs /\ t # Main /\ Main \in Procs
  BY ProcsAssumption DEF Procs
<1>2. CASE ListStep(t)
  BY <1>1, <1>2, ListStepIsSetStep
<1>3. CASE ~ListStep(t)
  <2>1. /\ pc \in [Procs -> Locations] /\ call \in [Procs -> Calls] /\ call[t] \in Calls
    BY <1>1 DEF ListInv, AccessInv, TypeOK
  <2>2. /\ UNCHANGED heap
        /\ \A q \in Procs \ {t} : pc'[q] = pc[q] /\ call'[q] = call[q]
    BY <1>1, <1>3, <2>1 DEF ThreadStep, PickOp, Acquire, ReleaseAndCount, LockCounts, LoadCounts,
       StoreCounts, Goto
  <2>3. KeysIn' = KeysIn
    BY <1>1, <2>2, HeapStays, KeysStay DEF heap, Freeing
  <2>4. PendingNow' = [PendingNow EXCEPT ![t] = PendingOf(t)']
    BY <1>1, <2>2, PendingMoves
  <2>5. CASE PickOp(t)
    <3>1. PICK op \in Kinds, k \in Keys : call' = [call EXCEPT ![t] = CallOf(op, k)]
      BY <2>5 DEF PickOp
    <3>2. call'[t].op = op /\ call'[t].val = k /\ pc[t] = "loop" /\ pc'[t] = "lock"
      BY <1>1, <2>1, <2>5, <3>1 DEF CallOf, NoCall, PickOp, Goto
    <3>3. PendingOf(t) = [kind |-> "idle"] /\ PendingOf(t)' = [kind |-> "call", op |-> op, key |-> k]
      BY <3>2 DEF PendingOf
    <3> QED
      BY <1>1, <2>3, <2>4, <3>3, SetSteps
  <2>6. CASE ReleaseAndCount(t)
    <3>1. pc[t] = "return" /\ pc'[t] = "loop" /\ call[t].rv \in BOOLEAN
      BY <1>1, <2>1, <2>6 DEF ReleaseAndCount, Goto, Calls
    <3>2. PendingOf(t) = [kind |-> "answer", rv |-> call[t].rv] /\ PendingOf(t)' = [kind |-> "idle"]
      BY <3>1 DEF PendingOf
    <3> QED
      BY <1>1, <2>3, <2>4, <3>1, <3>2, SetSteps
  <2>7. CASE Acquire(t) \/ LockCounts(t) \/ LoadCounts(t) \/ StoreCounts(t)
    <3>1. PendingOf(t)' = PendingOf(t)
      BY <1>1, <2>1, <2>7 DEF Acquire, LockCounts, LoadCounts, StoreCounts, Goto, PendingOf
    <3>2. PendingNow' = PendingNow
      BY <2>2, <3>1, PendingStays DEF PendingOf
    <3> QED
      BY <2>3, <3>2, SetSteps
  <2> QED
    BY <1>3, <2>5, <2>6, <2>7 DEF ThreadStep
<1> QED
  BY <1>2, <1>3

LEMMA MainStepIsSetStep ==
    ASSUME ListInv, MainStep
    PROVE  Abstract!SetNext \/ UNCHANGED Abstract!setVars
<1>1. Main \in Procs /\ Main \notin Threads /\ Procs = Threads \cup {Main}
  BY ProcsAssumption DEF Procs
<1>2. /\ pc \in [Procs -> Locations] /\ call \in [Procs -> Calls] /\ call[Main] \in Calls
  BY <1>1 DEF ListInv, AccessInv, TypeOK
<1>3. CASE ListStep(Main)
  BY <1>1, <1>3, ListStepIsSetStep
<1>4. CASE MainInsert
  <2>1. PICK k \in Keys : call' = [call EXCEPT ![Main] = CallOf("insert", k)]
    BY <1>4 DEF MainInsert
  <2>2. /\ call'[Main].op = "insert" /\ call'[Main].val = k
        /\ pc[Main] = "populate" /\ pc'[Main] = "enter" /\ UNCHANGED heap
        /\ \A q \in Procs \ {Main} : pc'[q] = pc[q] /\ call'[q] = call[q]
    BY <1>1, <1>2, <1>4, <2>1 DEF CallOf, NoCall, MainInsert, Goto
  <2>3. /\ PendingOf(Main) = [kind |-> "idle"]
        /\ PendingOf(Main)' = [kind |-> "call", op |-> "insert", key |-> k]
    BY <2>2 DEF PendingOf
  <2>4. KeysIn' = KeysIn
    BY <2>2, HeapStays, KeysStay DEF heap, Freeing
  <2>5. PendingNow' = [PendingNow EXCEPT ![Main] = PendingOf(Main)']
    BY <1>1, <2>2, PendingMoves
  <2> QED
    BY <1>1, <2>3, <2>4, <2>5, SetSteps DEF Kinds
<1>5. CASE MainInserted
  <2>1. /\ pc[Main] = "return" /\ pc'[Main] = "populate" /\ call[Main].rv \in BOOLEAN /\ UNCHANGED heap
        /\ \A q \in Procs \ {Main} : pc'[q] = pc[q] /\ call'[q] = call[q]
    BY <1>1, <1>2, <1>5 DEF MainInserted, Goto, Calls
  <2>2. PendingOf(Main) = [kind |-> "answer", rv |-> call[Main].rv] /\ PendingOf(Main)' = [kind |-> "idle"]
    BY <2>1 DEF PendingOf
  <2>3. KeysIn' = KeysIn
    BY <2>1, HeapStays, KeysStay DEF heap, Freeing
  <2>4. PendingNow' = [PendingNow EXCEPT ![Main] = PendingOf(Main)']
    BY <1>1, <2>1, PendingMoves
  <2> QED
    BY <1>1, <2>1, <2>2, <2>3, <2>4, SetSteps
<1>6. CASE CreateThreads
  <2>1. /\ pc[Main] = "populate" /\ pc'[Main] = "join" /\ UNCHANGED heap
        /\ \A t \in Threads : pc[t] = "none" /\ pc'[t] = "loop"
    BY <1>1, <1>6 DEF CreateThreads, ListInv, AccessInv, MainFirst
  <2>2. KeysIn' = KeysIn
    BY <2>1, HeapStays, KeysStay DEF heap, Freeing
  <2>3. PendingNow' = PendingNow
    BY <1>1, <2>1, PendingStays DEF PendingOf
  <2> QED
    BY <2>2, <2>3, SetSteps
<1>7. CASE Join
  <2>1. /\ pc[Main] = "join" /\ pc'[Main] = "free"
        /\ \A t \in Threads : pc[t] = "done" /\ pc'[t] = "done"
    BY <1>1, <1>2, <1>7 DEF Join, Goto
  <2>2. \A p \in Procs : PendingOf(p) = [kind |-> "idle"] /\ PendingOf(p)' = [kind |-> "idle"]
    BY <1>1, <2>1 DEF PendingOf
  <2>3. KeysIn' = {}
    BY <2>1 DEF KeysIn, Freeing
  <2> QED
    BY <2>2, <2>3, PendingStays, SetSteps
<1>8. CASE FreeNode \/ Exit
  <2>1. /\ pc[Main] = "free" /\ pc'[Main] \in {"free", "exit"}
        /\ \A t \in Threads : pc[t] = "done" /\ pc'[t] = "done"
    BY <1>1, <1>2, <1>8 DEF FreeNode, Exit, Goto, ListInv, Freeing
  <2>2. \A p \in Procs : PendingOf(p)' = PendingOf(p)
    BY <1>1, <2>1 DEF PendingOf
  <2>3. KeysIn' = KeysIn
    BY <2>1 DEF KeysIn, Freeing
  <2> QED
    BY <2>2, <2>3, PendingStays, SetSteps
<1> QED
  BY <1>3, <1>4, <1>5, <1>6, <1>7, <1>8 DEF MainStep

(* The list is linearizable: whatever the interleaving, each Member, Insert and  *)
(* Delete takes effect on a set of keys at one instant, and answers what the set *)
(* would (lines 152-153, 217-218).                                               *)
THEOREM ListImplementsSet == Spec => ImplementsSharedSet
<1>1. Init => Abstract!SetInit
  <2> SUFFICES ASSUME Init PROVE Abstract!SetInit
    OBVIOUS
  <2>1. \A p \in Procs : PendingOf(p) = [kind |-> "idle"]
    BY DEF Init, PendingOf
  <2>2. Linked = {}
    <3>1. Chain(head, next, data, {})
      BY DEF Chain, Init
    <3> QED
      BY <3>1, ListTypeInit, ChainLinked, FieldsOfList
  <2>3. KeysIn = {}
    BY <2>2 DEF KeysIn
  <2> QED
    BY <2>1, <2>3, SetSteps
<1>2. ListInv /\ [Next]_vars => [Abstract!SetNext]_(Abstract!setVars)
  <2> SUFFICES ASSUME ListInv, [Next]_vars
               PROVE  Abstract!SetNext \/ UNCHANGED Abstract!setVars
    OBVIOUS
  <2>1. CASE UNCHANGED vars
    <3>1. UNCHANGED heap /\ UNCHANGED <<pc, call>>
      BY <2>1 DEF vars
    <3>2. KeysIn' = KeysIn
      BY <3>1, HeapStays, KeysStay DEF heap, Freeing
    <3>3. PendingNow' = PendingNow
      BY <3>1, PendingStays DEF PendingOf
    <3> QED
      BY <3>2, <3>3, SetSteps
  <2> QED
    BY <2>1, ThreadStepIsSetStep, MainStepIsSetStep DEF Next, Exited
<1> QED
  BY <1>1, <1>2, ListInvariant, PTL DEF Spec, ImplementsSharedSet, Abstract!SetSpec
================================================================================
