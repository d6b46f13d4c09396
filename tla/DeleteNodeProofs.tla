---------------------------- MODULE DeleteNodeProofs ----------------------------
(* Proofs about DeleteNode.tla, for any number of threads and any value to       *)
(* delete.  The list has three shapes only, and the invariant says who is where  *)
(* in each of them.                                                              *)
EXTENDS DeleteNode, Integers, FiniteSetTheorems, TLAPS

--------------------------------------------------------------------------------
(* The list *)

(* As main builds it. *)
Whole ==
    /\ head = 1
    /\ next = [n \in Nodes |-> InitialNext(n)]
    /\ alloc = Nodes

(* Without the node of the value; gone is the set of nodes that are freed.       *)
HeadAfter == IF delete_value = 1 THEN InitialNext(1) ELSE 1

NextAfter ==
    [n \in Nodes |-> InitialNext(IF n + 1 = delete_value THEN delete_value ELSE n)]

Cut(gone) ==
    /\ delete_value \in Nodes
    /\ head = HeadAfter
    /\ next = NextAfter
    /\ alloc = Nodes \ gone

(* Every non-empty set of natural numbers has a least element: induction, in a   *)
(* form that speaks of sets only.  The intervals below its elements are finite   *)
(* sets, of which one is minimal.                                                *)
LEMMA LeastElement ==
    ASSUME NEW D \in SUBSET Nat, D # {}
    PROVE  \E m \in D : \A k \in D : m <= k
<1> DEFINE Belows == {0 .. k : k \in D}
<1>1. Belows \subseteq FiniteSubsetsOf(Nat) /\ Belows # {}
  <2>1. \A k \in D : IsFiniteSet(0 .. k) /\ 0 .. k \subseteq Nat
    BY FS_Interval
  <2> QED
    BY <2>1 DEF FiniteSubsetsOf
<1>2. PICK b \in Belows : \A c \in Belows : ~(<<c, b>> \in StrictSubsetOrdering(Nat))
  <2> HIDE DEF Belows
  <2> QED
    BY <1>1, FS_StrictSubsetOrderingWellFounded, WFMin
<1>3. PICK m \in D : b = 0 .. m
  OBVIOUS
<1>4. ASSUME NEW k \in D, k < m PROVE FALSE
  <2>1. 0 .. k \in Belows /\ 0 .. k \subseteq b /\ m \in b /\ m \notin 0 .. k
    BY <1>3, <1>4
  <2>2. <<0 .. k, b>> \in StrictSubsetOrdering(Nat)
    BY <2>1, <1>3, <1>4 DEF StrictSubsetOrdering
  <2> QED
    BY <2>1, <2>2, <1>2
<1> QED
  BY <1>4

(* What Node says of itself. *)
Walks(f) ==
    f = [n \in 0 .. thread_count |->
            IF n = 0 THEN head
            ELSE IF f[n - 1] = NULL THEN NULL ELSE next[f[n - 1]]]

(* It says it of one function only. *)
LEMMA NodeIs ==
    ASSUME NEW f, Walks(f)
    PROVE  Node = f
<1>1. Walks(Node)
  BY DEF Node, Walks
<1>2. thread_count \in Nat
  BY DeleteAssumption
<1> DEFINE D == {n \in 0 .. thread_count : f[n] # Node[n]}
<1>3. D = {}
  <2> SUFFICES ASSUME D # {} PROVE FALSE
    OBVIOUS
  <2>1. PICK m \in D : \A k \in D : m <= k
    <3>1. D \in SUBSET Nat
      BY <1>2
    <3> HIDE DEF D
    <3> QED
      BY <3>1, LeastElement
  <2>2. m # 0 => m - 1 \in 0 .. thread_count /\ m - 1 \notin D
    BY <1>2, <2>1
  <2>3. f[m] = Node[m]
    BY <1>1, <1>2, <2>2 DEF Walks
  <2> QED
    BY <2>3
<1>4. f = [n \in 0 .. thread_count |-> f[n]] /\ Node = [n \in 0 .. thread_count |-> Node[n]]
  BY <1>1 DEF Walks
<1> QED
  BY <1>3, <1>4

(* When nobody is changing it the list ends and holds what is not freed.         *)
LEMMA LinkedIsAlloc ==
    ASSUME Whole \/ Cut({delete_value})
    PROVE  Node[thread_count] = NULL /\ Linked = alloc
<1>1. thread_count \in Nat \ {0} /\ NULL \notin Nodes
  BY DeleteAssumption
<1>2. CASE Whole
  <2> DEFINE f == [n \in 0 .. thread_count |-> IF n = thread_count THEN NULL ELSE n + 1]
  <2>1. Walks(f)
    BY <1>1, <1>2 DEF Walks, Whole, InitialNext, Nodes
  <2>2. Node = f
    BY <2>1, NodeIs
  <2>3. \A a \in Nodes : a - 1 \in 0 .. thread_count /\ f[a - 1] = a
    BY <1>1 DEF Nodes
  <2>4. \A n \in 0 .. thread_count : f[n] \in Nodes \cup {NULL}
    BY <1>1 DEF Nodes
  <2>5. Linked = Nodes
    <3> HIDE DEF f
    <3> QED
      BY <1>1, <2>2, <2>3, <2>4 DEF Linked
  <2> QED
    BY <1>1, <1>2, <2>2, <2>5 DEF Whole
<1>3. CASE Cut({delete_value})
  <2> DEFINE f == [n \in 0 .. thread_count |->
                      IF n + 1 < delete_value THEN n + 1
                      ELSE IF n + 2 <= thread_count THEN n + 2 ELSE NULL]
  <2>1. Walks(f)
    BY <1>1, <1>3 DEF Walks, Cut, HeadAfter, NextAfter, InitialNext, Nodes
  <2>2. Node = f
    BY <2>1, NodeIs
  <2>3. \A a \in Nodes \ {delete_value} :
          \E n \in 0 .. thread_count : f[n] = a
    <3> TAKE a \in Nodes \ {delete_value}
    <3>1. CASE a < delete_value
      <4>1. a - 1 \in 0 .. thread_count /\ f[a - 1] = a
        BY <1>1, <1>3, <3>1 DEF Nodes, Cut
      <4> QED
        BY <4>1
    <3>2. CASE ~(a < delete_value)
      <4>1. a - 2 \in 0 .. thread_count /\ f[a - 2] = a
        BY <1>1, <1>3, <3>2 DEF Nodes, Cut
      <4> QED
        BY <4>1
    <3> QED
      BY <3>1, <3>2
  <2>4. \A n \in 0 .. thread_count : f[n] \in (Nodes \ {delete_value}) \cup {NULL}
    BY <1>1, <1>3 DEF Nodes, Cut
  <2>5. Linked = Nodes \ {delete_value}
    <3> HIDE DEF f
    <3> QED
      BY <1>1, <2>2, <2>3, <2>4 DEF Linked
  <2> QED
    BY <1>1, <1>3, <2>2, <2>5 DEF Cut, Nodes
<1> QED
  BY <1>2, <1>3

--------------------------------------------------------------------------------
(* The invariant *)

InWalk == {"search", "second", "seek", "unlinked", "unlock"}

(* The lock is held by one process at most, and by those between its two ends.   *)
HolderInv ==
    /\ reading = {}
    /\ \A p \in Procs : pc[p] \in InWalk <=> p \in writing
    /\ \A p, q \in writing : p = q

(* The process that has unlinked the node, or freed it, or said so.              *)
Deleter(p) == pc[p] \in {"unlinked", "unlock"} \/ found[p] = 1

ShapeInv ==
    \/ Whole /\ \A p \in Procs : ~Deleter(p)
    \/ \E p \in Procs :
          /\ \A q \in Procs : Deleter(q) <=> q = p
          /\ \/ Cut({}) /\ pc[p] = "unlinked" /\ curr[p] = delete_value /\ found[p] = 0
             \/ Cut({delete_value}) /\ pc[p] # "unlinked"

(* Where a process is in the list.  The head read before the lock is the first   *)
(* node or still the head; from the first node the search of a list that is      *)
(* whole does not miss the value, and from either it stays off the freed node    *)
(* unless it started there.                                                      *)
WalkAt(p) ==
    /\ found[p] = 1 => pc[p] \in {"return", "exit"}
    /\ pc[p] = "lock" => curr[p] \in {1, head}
    /\ pc[p] = "search" =>
         /\ Whole /\ delete_value \in Nodes => curr[p] \in 1 .. delete_value
         /\ curr[p] \notin alloc \cup {NULL} => curr[p] = 1 /\ delete_value = 1
    /\ pc[p] \in {"second", "seek"} => Whole /\ delete_value \in Nodes
    /\ pc[p] = "second" => curr[p] = head
    /\ pc[p] = "seek" => curr[p] \in 1 .. delete_value - 1
    /\ pc[p] \in {"return", "exit"} => delete_value \notin alloc

WalkInv == \A p \in Procs : WalkAt(p)

DeleteInv == TypeOK /\ HolderInv /\ ShapeInv /\ WalkInv

LEMMA DeleteInvInit == Init => DeleteInv
<1> SUFFICES ASSUME Init PROVE DeleteInv
  OBVIOUS
<1> USE DeleteAssumption DEF Init, Lock!LockInit
<1>1. TypeOK
  BY DEF TypeOK, Lock!LockTypeOK, Locations, Pointers, Nodes, InitialNext
<1>2. HolderInv
  BY DEF HolderInv, InWalk
<1>3. Whole /\ \A p \in Procs : ~Deleter(p)
  BY DEF Whole, Deleter
<1>4. WalkInv
  BY DEF WalkInv, WalkAt
<1> QED
  BY <1>1, <1>2, <1>3, <1>4 DEF DeleteInv, ShapeInv

(* Who holds the lock is alone, and finds the list whole or cut unless it is     *)
(* itself about to free the node.                                                *)
LEMMA HolderAlone ==
    ASSUME DeleteInv, NEW p \in Procs, pc[p] \in InWalk
    PROVE  /\ writing = {p} /\ reading = {}
           /\ \A q \in Procs \ {p} : pc[q] \notin InWalk
           /\ pc[p] # "unlinked" => Whole \/ Cut({delete_value})
           /\ pc[p] = "unlinked" => Cut({}) /\ curr[p] = delete_value
<1>1. /\ writing = {p} /\ reading = {}
      /\ \A q \in Procs \ {p} : pc[q] \notin InWalk
  BY DEF DeleteInv, HolderInv, TypeOK, Lock!LockTypeOK
<1>2. /\ pc[p] # "unlinked" => Whole \/ Cut({delete_value})
      /\ pc[p] = "unlinked" => Cut({}) /\ curr[p] = delete_value
  BY <1>1 DEF DeleteInv, ShapeInv, Deleter, InWalk
<1> QED
  BY <1>1, <1>2

(* A list that is whole is not cut. *)
LEMMA WholeNotCut == ~(Whole /\ Cut({delete_value}))
  BY DEF Whole, Cut

LEMMA StaysInShape ==
    ASSUME UNCHANGED <<delete_value, list>>
    PROVE  /\ Whole' = Whole
           /\ Cut({})' = Cut({}) /\ Cut({delete_value})' = Cut({delete_value})
  BY DEF list, Whole, Cut, HeadAfter, NextAfter

(* The pointers of the two shapes. *)
LEMMA WholePointers ==
    ASSUME Whole
    PROVE  /\ head = 1 /\ 1 \in Nodes /\ alloc = Nodes
           /\ \A n \in Nodes : next[n] = IF n = thread_count THEN NULL ELSE n + 1
  BY DeleteAssumption DEF Whole, InitialNext, Nodes

LEMMA CutPointers ==
    ASSUME Cut({delete_value})
    PROVE  /\ alloc = Nodes \ {delete_value} /\ delete_value \in Nodes
           /\ head \in alloc \cup {NULL}
           /\ delete_value # 1 => head = 1
           /\ \A n \in alloc : next[n] \in alloc \cup {NULL}
<1>1. thread_count \in Nat \ {0}
  BY DeleteAssumption
<1>2. alloc = Nodes \ {delete_value} /\ delete_value \in Nodes
  BY DEF Cut
<1>3. head \in alloc \cup {NULL} /\ (delete_value # 1 => head = 1)
  BY <1>1 DEF Cut, HeadAfter, InitialNext, Nodes
<1>4. ASSUME NEW n \in alloc PROVE next[n] \in alloc \cup {NULL}
  <2>1. next[n] = InitialNext(IF n + 1 = delete_value THEN delete_value ELSE n)
    BY <1>2 DEF Cut, NextAfter
  <2> QED
    BY <1>1, <1>2, <2>1 DEF InitialNext, Nodes
<1> QED
  BY <1>2, <1>3, <1>4

(* A step that leaves the list alone, and who deletes from it.                   *)
LEMMA ShapeStays ==
    ASSUME ShapeInv, UNCHANGED <<delete_value, list>>,
           \A q \in Procs : /\ Deleter(q)' <=> Deleter(q)
                            /\ pc[q] = "unlinked" => pc'[q] = "unlinked" /\ curr'[q] = curr[q]
                                                      /\ found'[q] = found[q]
                            /\ pc'[q] = "unlinked" => pc[q] = "unlinked"
    PROVE  ShapeInv'
  BY StaysInShape DEF ShapeInv

(* A step under the lock leaves the other processes where they are.              *)
LEMMA OthersWalk ==
    ASSUME DeleteInv, NEW p \in Procs, pc[p] \in InWalk,
           NEW q \in Procs \ {p},
           pc'[q] = pc[q], curr'[q] = curr[q], found'[q] = found[q],
           delete_value' = delete_value,
           head' = head \/ head = 1, alloc' \subseteq alloc
    PROVE  WalkAt(q)'
<1>1. pc[q] \notin InWalk /\ WalkAt(q)
  BY HolderAlone DEF DeleteInv, WalkInv
<1> QED
  BY <1>1 DEF WalkAt, InWalk

(* A step that leaves the list alone does not move the processes it leaves alone. *)
LEMMA RestWalk ==
    ASSUME DeleteInv, UNCHANGED <<delete_value, list>>, NEW q \in Procs,
           pc'[q] = pc[q], curr'[q] = curr[q], found'[q] = found[q]
    PROVE  WalkAt(q)'
<1>1. WalkAt(q)
  BY DEF DeleteInv, WalkInv
<1> QED
  BY <1>1, StaysInShape DEF WalkAt, list

LEMMA DeleteInvStep == ASSUME DeleteInv, NEW p \in Procs, Step(p) PROVE DeleteInv'
<1> USE DeleteAssumption DEF DeleteInv, TypeOK, Lock!LockTypeOK, Locations, Pointers, Goto, InWalk, list, lock
<1>1. CASE ReadHead(p)
  <2> USE <1>1 DEF ReadHead
  <2>1. TypeOK'
    OBVIOUS
  <2>2. HolderInv'
    BY HolderAlone DEF HolderInv
  <2>3. ShapeInv'
    BY ShapeStays DEF Deleter
  <2>4. WalkInv'
    <3>1. \A q \in Procs \ {p} : WalkAt(q)'
      BY RestWalk
    <3>2. WalkAt(p)'
      BY HolderAlone, StaysInShape, WholePointers, CutPointers, WholeNotCut DEF WalkInv, WalkAt
    <3> QED
      BY <3>1, <3>2 DEF WalkInv
  <2> QED
    BY <2>1, <2>2, <2>3, <2>4
<1>2. CASE WrLock(p)
  <2> USE <1>2 DEF WrLock, Acquire, Lock!AcquireWrite
  <2>1. TypeOK'
    OBVIOUS
  <2>2. HolderInv'
    BY HolderAlone DEF HolderInv
  <2>3. ShapeInv'
    BY ShapeStays DEF Deleter
  <2>4. WalkInv'
    <3>1. \A q \in Procs \ {p} : WalkAt(q)'
      BY RestWalk
    <3>2. WalkAt(p)'
      <4>1. Whole \/ Cut({delete_value})
        BY DEF ShapeInv, HolderInv
      <4>2. pc'[p] = "search" /\ curr'[p] \in {1, head} /\ found'[p] = 0
        BY DEF WalkInv, WalkAt
      <4>3. delete_value \in Nodes => 1 \in 1 .. delete_value
        BY DEF Nodes
      <4>4. Whole' /\ delete_value \in Nodes => curr'[p] \in 1 .. delete_value
        BY <4>2, <4>3, StaysInShape, WholePointers
      <4>5. curr'[p] \notin alloc \cup {NULL} => curr'[p] = 1 /\ delete_value = 1
        <5>1. 1 \in Nodes
          BY DEF Nodes
        <5> QED
          BY <4>1, <4>2, <5>1, WholePointers, CutPointers
      <4> QED
        BY <4>2, <4>4, <4>5 DEF WalkAt
    <3> QED
      BY <3>1, <3>2 DEF WalkInv
  <2> QED
    BY <2>1, <2>2, <2>3, <2>4
<1>3. CASE SearchOn(p)
  <2> USE <1>3 DEF SearchOn
  <2>1. TypeOK'
    OBVIOUS
  <2>2. HolderInv'
    BY HolderAlone DEF HolderInv
  <2>3. ShapeInv'
    BY ShapeStays DEF Deleter
  <2>4. WalkInv'
    <3>1. \A q \in Procs \ {p} : WalkAt(q)'
      BY OthersWalk
    <3>2. WalkAt(p)'
      <4>1. Whole \/ Cut({delete_value})
        BY HolderAlone
      <4>2. pc'[p] = "search" /\ curr'[p] = next[curr[p]] /\ found'[p] = 0
        BY DEF WalkInv, WalkAt
      <4>3. Whole' /\ delete_value \in Nodes => curr'[p] \in 1 .. delete_value
        <5> SUFFICES ASSUME Whole, delete_value \in Nodes PROVE next[curr[p]] \in 1 .. delete_value
          BY <4>2, StaysInShape
        <5>1. curr[p] \in 1 .. delete_value - 1
          BY DEF WalkInv, WalkAt, Nodes
        <5> QED
          BY <5>1, WholePointers DEF Nodes
      <4>4. curr'[p] \in alloc \cup {NULL}
        BY <4>1, <4>2, WholePointers, CutPointers
      <4> QED
        BY <4>2, <4>3, <4>4 DEF WalkAt
    <3> QED
      BY <3>1, <3>2 DEF WalkInv
  <2> QED
    BY <2>1, <2>2, <2>3, <2>4
<1>4. CASE NotFound(p)
  <2> USE <1>4 DEF NotFound, ReachedEnd, Lock!Release
  <2>1. TypeOK'
    OBVIOUS
  <2>2. HolderInv'
    BY HolderAlone DEF HolderInv
  <2>3. ShapeInv'
    BY ShapeStays DEF Deleter
  <2>4. WalkInv'
    <3>1. \A q \in Procs \ {p} : WalkAt(q)'
      BY OthersWalk
    <3>2. WalkAt(p)'
      <4>1. Whole \/ Cut({delete_value})
        BY HolderAlone
      <4>2. Whole /\ delete_value \in Nodes => curr[p] \in Nodes
        BY DEF WalkInv, WalkAt, Nodes
      <4>3. delete_value \notin alloc
        BY <4>1, <4>2, WholePointers, CutPointers
      <4> QED
        BY <4>3 DEF WalkInv, WalkAt
    <3> QED
      BY <3>1, <3>2 DEF WalkInv
  <2> QED
    BY <2>1, <2>2, <2>3, <2>4
<1>5. CASE SearchHit(p)
  <2> USE <1>5 DEF SearchHit
  <2>1. TypeOK'
    OBVIOUS
  <2>2. HolderInv'
    BY HolderAlone DEF HolderInv
  <2>3. ShapeInv'
    BY ShapeStays DEF Deleter
  <2>4. WalkInv'
    <3>1. \A q \in Procs \ {p} : WalkAt(q)'
      BY OthersWalk
    <3>2. WalkAt(p)'
      BY HolderAlone, StaysInShape, WholePointers, CutPointers, WholeNotCut DEF WalkInv, WalkAt
    <3> QED
      BY <3>1, <3>2 DEF WalkInv
  <2> QED
    BY <2>1, <2>2, <2>3, <2>4
<1>6. CASE UnlinkHead(p)
  <2> USE <1>6 DEF UnlinkHead
  <2>1. TypeOK'
    <3>1. head \in Nodes
      BY WholePointers DEF WalkInv, WalkAt
    <3> QED
      BY <3>1
  <2>2. HolderInv'
    BY HolderAlone DEF HolderInv
  <2>3. ShapeInv'
    <3>1. Whole /\ delete_value = 1 /\ \A q \in Procs : ~Deleter(q)
      <4>1. Whole /\ delete_value = 1
        BY WholePointers DEF WalkInv, WalkAt
      <4>2. \A q \in Procs : pc[q] # "unlinked"
        BY HolderAlone
      <4> QED
        BY <4>1, <4>2, WholeNotCut DEF ShapeInv
    <3>2. Cut({})' /\ curr'[p] = delete_value' /\ found'[p] = 0 /\ pc'[p] = "unlinked"
      <4>1. head' = HeadAfter' /\ 1 \in Nodes
        BY <3>1, WholePointers DEF HeadAfter, InitialNext, Whole
      <4>2. next' = NextAfter'
        BY <3>1 DEF Whole, NextAfter, InitialNext, Nodes
      <4>3. found[p] = 0
        BY <3>1 DEF Deleter
      <4> QED
        BY <3>1, <4>1, <4>2, <4>3 DEF Cut, Whole
    <3>3. \A q \in Procs : Deleter(q)' <=> q = p
      BY <3>1, <3>2 DEF Deleter
    <3> QED
      BY <3>2, <3>3 DEF ShapeInv
  <2>4. WalkInv'
    <3>1. \A q \in Procs \ {p} : WalkAt(q)'
      BY OthersWalk, WholePointers DEF WalkInv, WalkAt
    <3>2. WalkAt(p)'
      BY HolderAlone, StaysInShape, WholePointers, CutPointers, WholeNotCut DEF WalkInv, WalkAt
    <3> QED
      BY <3>1, <3>2 DEF WalkInv
  <2> QED
    BY <2>1, <2>2, <2>3, <2>4
<1>7. CASE Seek(p)
  <2> USE <1>7 DEF Seek
  <2>1. TypeOK'
    OBVIOUS
  <2>2. HolderInv'
    BY HolderAlone DEF HolderInv
  <2>3. ShapeInv'
    BY ShapeStays DEF Deleter
  <2>4. WalkInv'
    <3>1. \A q \in Procs \ {p} : WalkAt(q)'
      BY OthersWalk
    <3>2. WalkAt(p)'
      <4>1. Whole /\ delete_value \in Nodes
        BY DEF WalkInv, WalkAt
      <4>2. curr[p] \in 1 .. delete_value - 1
        <5>1. CASE pc[p] = "seek"
          BY <5>1 DEF WalkInv, WalkAt
        <5>2. CASE pc[p] # "seek"
          BY <4>1, <5>2, WholePointers DEF WalkInv, WalkAt, Nodes
        <5> QED
          BY <5>1, <5>2
      <4>3. next[curr[p]] \in 1 .. delete_value - 1
        BY <4>1, <4>2, WholePointers DEF Nodes
      <4>4. Whole' /\ pc'[p] = "seek" /\ curr'[p] = next[curr[p]] /\ found'[p] = 0
        BY <4>1, StaysInShape DEF WalkInv, WalkAt
      <4> QED
        BY <4>1, <4>3, <4>4 DEF WalkAt
    <3> QED
      BY <3>1, <3>2 DEF WalkInv
  <2> QED
    BY <2>1, <2>2, <2>3, <2>4
<1>8. CASE Unlink(p)
  <2> USE <1>8 DEF Unlink, UnlinkAfter
  <2>1. TypeOK'
    <3>1. delete_value \in Nodes
      BY DEF WalkInv, WalkAt
    <3>2. curr[p] \in Nodes
      OBVIOUS
    <3> QED
      BY <3>1, <3>2
  <2>2. HolderInv'
    BY HolderAlone DEF HolderInv
  <2>3. ShapeInv'
    <3>1. Whole /\ delete_value \in Nodes /\ \A q \in Procs : ~Deleter(q)
      <4>1. Whole /\ delete_value \in Nodes
        BY WholePointers DEF WalkInv, WalkAt
      <4>2. \A q \in Procs : pc[q] # "unlinked"
        BY HolderAlone
      <4> QED
        BY <4>1, <4>2, WholeNotCut DEF ShapeInv
    <3>2. curr[p] \in Nodes /\ curr[p] + 1 = delete_value
      BY <3>1, WholePointers DEF Nodes
    <3>3. Cut({})' /\ curr'[p] = delete_value' /\ found'[p] = 0 /\ pc'[p] = "unlinked"
      <4>1. head' = HeadAfter'
        BY <3>1, <3>2 DEF HeadAfter, Whole, Nodes
      <4>2. next' = NextAfter'
        <5>1. next'[curr[p]] = InitialNext(delete_value)
          BY <3>1, <3>2 DEF Whole
        <5>2. \A n \in Nodes \ {curr[p]} : next'[n] = InitialNext(n) /\ n + 1 # delete_value
          BY <3>1, <3>2 DEF Whole, Nodes
        <5>3. \A n \in Nodes : next'[n] = InitialNext(IF n + 1 = delete_value THEN delete_value ELSE n)
          BY <3>2, <5>1, <5>2
        <5>4. next' = [n \in Nodes |-> next'[n]]
          OBVIOUS
        <5> QED
          BY <5>3, <5>4 DEF NextAfter, InitialNext
      <4>3. found[p] = 0
        BY <3>1 DEF Deleter
      <4> QED
        BY <3>1, <4>1, <4>2, <4>3 DEF Cut, Whole
    <3>4. \A q \in Procs : Deleter(q)' <=> q = p
      BY <3>1, <3>3 DEF Deleter
    <3> QED
      BY <3>3, <3>4 DEF ShapeInv
  <2>4. WalkInv'
    <3>1. \A q \in Procs \ {p} : WalkAt(q)'
      BY OthersWalk
    <3>2. WalkAt(p)'
      BY HolderAlone, StaysInShape, WholePointers, CutPointers, WholeNotCut DEF WalkInv, WalkAt
    <3> QED
      BY <3>1, <3>2 DEF WalkInv
  <2> QED
    BY <2>1, <2>2, <2>3, <2>4
<1>9. CASE FreeNode(p)
  <2> USE <1>9 DEF FreeNode
  <2>1. TypeOK'
    OBVIOUS
  <2>2. HolderInv'
    BY HolderAlone DEF HolderInv
  <2>3. ShapeInv'
    <3>1. Cut({}) /\ curr[p] = delete_value
      BY HolderAlone
    <3>2. Cut({delete_value})'
      BY <3>1 DEF Cut, HeadAfter, NextAfter
    <3>3. \A q \in Procs : Deleter(q)' <=> q = p
      BY WholeNotCut DEF ShapeInv, Deleter
    <3> QED
      BY <3>2, <3>3 DEF ShapeInv
  <2>4. WalkInv'
    <3>1. \A q \in Procs \ {p} : WalkAt(q)'
      BY OthersWalk
    <3>2. WalkAt(p)'
      BY HolderAlone, StaysInShape, WholePointers, CutPointers, WholeNotCut DEF WalkInv, WalkAt
    <3> QED
      BY <3>1, <3>2 DEF WalkInv
  <2> QED
    BY <2>1, <2>2, <2>3, <2>4
<1>10. CASE Unlock(p)
  <2> USE <1>10 DEF Unlock, Lock!Release
  <2>1. TypeOK'
    OBVIOUS
  <2>2. HolderInv'
    BY HolderAlone DEF HolderInv
  <2>3. ShapeInv'
    <3>1. Cut({delete_value})' /\ \A q \in Procs : Deleter(q) <=> q = p
      BY HolderAlone, StaysInShape DEF ShapeInv, Deleter
    <3>2. \A q \in Procs : Deleter(q)' <=> q = p
      BY <3>1 DEF Deleter
    <3> QED
      BY <3>1, <3>2 DEF ShapeInv
  <2>4. WalkInv'
    <3>1. \A q \in Procs \ {p} : WalkAt(q)'
      BY OthersWalk
    <3>2. WalkAt(p)'
      <4>1. Cut({delete_value})
        BY HolderAlone DEF ShapeInv, Deleter
      <4>2. delete_value \notin alloc
        BY <4>1, CutPointers
      <4> QED
        BY <4>2 DEF WalkAt
    <3> QED
      BY <3>1, <3>2 DEF WalkInv
  <2> QED
    BY <2>1, <2>2, <2>3, <2>4
<1> QED
  BY <1>1, <1>2, <1>3, <1>4, <1>5, <1>6, <1>7, <1>8, <1>9, <1>10 DEF Step

LEMMA DeleteInvNext == DeleteInv /\ [Next]_vars => DeleteInv'
<1> SUFFICES ASSUME DeleteInv, [Next]_vars PROVE DeleteInv'
  OBVIOUS
<1>1. ASSUME NEW p \in Procs, Step(p) PROVE DeleteInv'
  BY <1>1, DeleteInvStep
<1>2. ASSUME Join \/ Exit PROVE DeleteInv'
  <2>1. UNCHANGED <<delete_value, list, lock, curr, found>>
    BY <1>2 DEF Join, Exit
  <2>2. Main \in Procs /\ pc \in [Procs -> Locations]
    BY DEF Procs, DeleteInv, TypeOK
  <2>3. /\ pc' \in [Procs -> Locations]
        /\ \A q \in Procs \ {Main} : pc'[q] = pc[q]
        /\ \/ pc[Main] = "join" /\ pc'[Main] = "start"
           \/ pc[Main] = "return" /\ pc'[Main] = "exit"
    BY <1>2, <2>2 DEF Join, Exit, Goto, Locations
  <2>4. TypeOK'
    BY <2>1, <2>3 DEF DeleteInv, TypeOK, Lock!LockTypeOK, list, lock
  <2>5. HolderInv'
    BY <2>1, <2>2, <2>3 DEF DeleteInv, HolderInv, InWalk, list, lock
  <2>6. ShapeInv'
    BY <2>1, <2>2, <2>3, ShapeStays DEF DeleteInv, Deleter
  <2>7. WalkInv'
    BY <2>1, <2>2, <2>3, StaysInShape DEF DeleteInv, WalkInv, WalkAt, list
  <2> QED
    BY <2>4, <2>5, <2>6, <2>7 DEF DeleteInv
<1>3. ASSUME UNCHANGED vars PROVE DeleteInv'
  <2> USE <1>3 DEF vars, list, lock
  <2>1. TypeOK' /\ HolderInv'
    BY DEF DeleteInv, TypeOK, Lock!LockTypeOK, HolderInv
  <2>2. ShapeInv'
    BY ShapeStays DEF DeleteInv, Deleter
  <2>3. WalkInv'
    BY StaysInShape DEF DeleteInv, WalkInv, WalkAt
  <2> QED
    BY <2>1, <2>2, <2>3 DEF DeleteInv
<1> QED
  BY <1>1, <1>2, <1>3 DEF Next, Exited, StaleRead

(* In every state the list is as main built it, or cut at the deleted value by   *)
(* the one process that reports so, and every process that walks it is where     *)
(* WalkAt puts it (delete_node, lines 157-206).                                  *)
THEOREM DeleteInvariant == Spec => []DeleteInv
<1>1. Init => DeleteInv
  BY DeleteInvInit
<1>2. DeleteInv /\ [Next]_vars => DeleteInv'
  BY DeleteInvNext
<1> QED
  BY <1>1, <1>2, PTL DEF Spec

--------------------------------------------------------------------------------
(* What follows *)

(* The read of head before the lock (line 159) can do harm only in the search,   *)
(* and only through the first node when that is the one deleted: past the search *)
(* whatever a process looks at is allocated.                                     *)
THEOREM StaleOnlyAtOldHead == Spec => []OnlyOldHeadStale
<1>1. DeleteInv => OnlyOldHeadStale
  <2> SUFFICES ASSUME DeleteInv PROVE OnlyOldHeadStale
    OBVIOUS
  <2>1. ASSUME NEW p \in Procs
        PROVE  /\ pc[p] = "second" => {head, curr[p]} \subseteq alloc
               /\ pc[p] = "seek" => curr[p] \in alloc /\ next[curr[p]] # NULL
               /\ pc[p] = "unlinked" => curr[p] \in alloc
    <3>1. WalkAt(p)
      BY DEF DeleteInv, WalkInv
    <3>2. pc[p] = "second" => {head, curr[p]} \subseteq alloc
      BY <3>1, WholePointers DEF WalkAt
    <3>3. CASE pc[p] = "seek"
      <4>1. Whole /\ delete_value \in Nodes /\ curr[p] \in 1 .. delete_value - 1
        BY <3>1, <3>3 DEF WalkAt
      <4>2. thread_count \in Nat /\ NULL \notin Nodes
        BY DeleteAssumption
      <4>3. curr[p] \in Nodes /\ curr[p] + 1 \in Nodes /\ curr[p] # thread_count
        BY <4>1, <4>2 DEF Nodes
      <4> QED
        BY <4>1, <4>2, <4>3, <3>3, WholePointers
    <3>4. pc[p] = "unlinked" => curr[p] \in alloc
      BY HolderAlone DEF InWalk, Cut
    <3> QED
      BY <3>2, <3>3, <3>4
  <2>2. \A p \in Procs : Stale(p) => curr[p] = 1 /\ delete_value = 1
    BY DEF DeleteInv, WalkInv, WalkAt, Stale
  <2> QED
    BY <2>1, <2>2 DEF OnlyOldHeadStale, SecondPassSafe
<1> QED
  BY <1>1, DeleteInvariant, PTL

(* Whenever nobody holds the lock the list ends, holds exactly the nodes not     *)
(* freed, and lacks none but the deleted one (lines 180-198).                    *)
THEOREM ListAlwaysIntact == Spec => []ListIntact
<1>1. DeleteInv => ListIntact
  <2> SUFFICES ASSUME DeleteInv PROVE ListIntact
    OBVIOUS
  <2>1. writing = {} => Whole \/ Cut({delete_value})
    BY DEF DeleteInv, HolderInv, ShapeInv, InWalk
  <2>2. Whole \/ Cut({delete_value}) => Nodes \ alloc \subseteq {delete_value}
    BY WholePointers, CutPointers
  <2> QED
    BY <2>1, <2>2, LinkedIsAlloc DEF ListIntact, DeleteInv
<1> QED
  BY <1>1, DeleteInvariant, PTL

(* At most one process reports the deletion, and once a process has returned,    *)
(* whatever it reports, the value is not in the list (lines 117-120, 173-204).   *)
THEOREM AnswersAlwaysAgree == Spec => []AnswersAgree
<1>1. DeleteInv => AnswersAgree
  <2> SUFFICES ASSUME DeleteInv PROVE AnswersAgree
    OBVIOUS
  <2>1. Cardinality({p \in Procs : found[p] = 1}) <= 1
    <3> DEFINE F == {p \in Procs : found[p] = 1}
    <3>1. F = {} \/ \E p \in Procs : F = {p}
      BY DEF DeleteInv, ShapeInv, Deleter
    <3>2. Cardinality({}) = 0 /\ \A p \in Procs : Cardinality({p}) = 1
      BY FS_EmptySet, FS_Singleton
    <3> HIDE DEF F
    <3>3. Cardinality(F) = 0 \/ Cardinality(F) = 1
      BY <3>1, <3>2
    <3>4. Cardinality(F) <= 1
      BY <3>3
    <3> QED
      BY <3>4 DEF F
  <2>2. ASSUME NEW p \in Procs, pc[p] \in {"return", "exit"}
        PROVE  delete_value \notin Linked
    <3>1. delete_value \notin alloc
      BY <2>2 DEF DeleteInv, WalkInv, WalkAt
    <3>2. Whole \/ Cut({delete_value})
      BY <3>1 DEF DeleteInv, ShapeInv, Cut
    <3> QED
      BY <3>1, <3>2, LinkedIsAlloc
  <2> QED
    BY <2>1, <2>2 DEF AnswersAgree
<1> QED
  BY <1>1, DeleteInvariant, PTL
================================================================================
