------------------------------- MODULE DeleteNode ------------------------------
(* pthreads-1/linked_list_r_w_locks.c: thread_count threads, and then main once  *)
(* more, run delete_node on the list 1, 2, ..., thread_count under a             *)
(* pthread_rwlock_t.  delete_node reads head BEFORE it takes the lock            *)
(* (line 159, the lock is at 161), so the walk may start at a node that has been *)
(* freed since.  What the program does once it reads a freed node is undefined   *)
(* and not followed: the model stops there (StaleRead).                          *)
EXTENDS Naturals, FiniteSets

CONSTANTS
    Threads,        \* the threads main creates
    Main,           \* the thread that runs main
    thread_count,   \* their number, from the command line
    DeleteValues,   \* the values of delete_value tried, from the command line
    NULL

Procs == Threads \cup {Main}

(* Node n holds the value n: create_node is called once for every value and no   *)
(* node is made after that.                                                      *)
Nodes == 1 .. thread_count

ASSUME DeleteAssumption ==
    /\ IsFiniteSet(Threads) /\ Cardinality(Threads) = thread_count
    /\ Main \notin Threads /\ NULL \notin Nodes
    /\ thread_count \in Nat \ {0} /\ DeleteValues \subseteq Nat

VARIABLES
    delete_value,
    head, next, alloc,      \* the list, and the nodes not freed
    reading, writing,       \* who holds rw_lock (ReadWriteLock)
    pc, curr,               \* where each process is, and its local curr
    found                   \* *found: 1 deleted, 0 value not found

lock == <<reading, writing>>
list == <<head, next, alloc>>
vars == <<delete_value, list, lock, pc, curr, found>>

Lock == INSTANCE ReadWriteLock WITH Threads <- Procs

Pointers == Nodes \cup {NULL}

(* start: line 159; lock: 161; search: 162-171; second: 173-182; seek: 191;      *)
(* unlinked: 186, 197 (curr is the node to free); unlock: 200-202; return.       *)
(* main: join before its own call, exit after it.                                *)
Locations == {"start", "lock", "search", "second", "seek", "unlinked", "unlock",
              "return", "join", "exit"}

TypeOK ==
    /\ delete_value \in DeleteValues
    /\ head \in Pointers
    /\ next \in [Nodes -> Pointers]
    /\ alloc \subseteq Nodes
    /\ Lock!LockTypeOK
    /\ pc \in [Procs -> Locations]
    /\ curr \in [Procs -> Pointers]
    /\ found \in [Procs -> {0, 1}]

--------------------------------------------------------------------------------

(* Operators named for a slip are not part of the model: each is what a          *)
(* plausible mistake would make of the operator after it, and the README says    *)
(* which property notices.                                                       *)
NextWithoutEnd(n) == n + 1

(* insert_at_end: new_node->next = NULL, and the old last node leads to it. *)
InitialNext(n) == IF n = thread_count THEN NULL ELSE n + 1

(* insert_at_end has put 1 .. thread_count in the list. *)
Init ==
    /\ delete_value \in DeleteValues
    /\ head = 1
    /\ next = [n \in Nodes |-> InitialNext(n)]
    /\ alloc = Nodes
    /\ Lock!LockInit
    /\ pc = [p \in Procs |-> IF p = Main THEN "join" ELSE "start"]
    /\ curr = [p \in Procs |-> NULL]
    /\ found = [p \in Procs |-> 0]

Goto(p, from, to) == pc[p] = from /\ pc' = [pc EXCEPT ![p] = to]

(* node *curr = head, with no lock held. *)
ReadHead(p) ==
    /\ Goto(p, "start", "lock")
    /\ curr' = [curr EXCEPT ![p] = head]
    /\ UNCHANGED <<delete_value, list, lock, found>>

AcquireForReading(p) == Lock!AcquireRead(p)

Acquire(p) == Lock!AcquireWrite(p)

WrLock(p) ==
    /\ Goto(p, "lock", "search")
    /\ Acquire(p)
    /\ UNCHANGED <<delete_value, list, curr, found>>

SearchOn(p) ==
    /\ pc[p] = "search"
    /\ curr[p] \in alloc
    /\ curr[p] # delete_value
    /\ curr' = [curr EXCEPT ![p] = next[curr[p]]]
    /\ UNCHANGED <<delete_value, list, lock, pc, found>>

ReachedLast(p) == curr[p] # NULL /\ next[curr[p]] = NULL

ReachedEnd(p) == curr[p] = NULL

(* The value is not in the list: unlock and return. *)
NotFound(p) ==
    /\ Goto(p, "search", "return")
    /\ ReachedEnd(p)
    /\ Lock!Release(p)
    /\ UNCHANGED <<delete_value, list, curr, found>>

(* The value is there: start again from head. *)
SearchHit(p) ==
    /\ Goto(p, "search", "second")
    /\ curr[p] \in alloc
    /\ curr[p] = delete_value
    /\ curr' = [curr EXCEPT ![p] = head]
    /\ UNCHANGED <<delete_value, list, lock, found>>

UnlinkHead(p) ==
    /\ Goto(p, "second", "unlinked")
    /\ head = delete_value
    /\ curr' = [curr EXCEPT ![p] = head]
    /\ head' = next[head]
    /\ UNCHANGED <<delete_value, next, alloc, lock, found>>

Seek(p) ==
    /\ \/ Goto(p, "second", "seek") /\ head # delete_value
       \/ pc[p] = "seek" /\ UNCHANGED pc
    /\ curr[p] \in alloc
    /\ next[curr[p]] # delete_value
    /\ curr' = [curr EXCEPT ![p] = next[curr[p]]]
    /\ UNCHANGED <<delete_value, list, lock, found>>

UnlinkRest(n) == next' = [next EXCEPT ![n] = NULL]

(* curr->next = curr->next->next *)
UnlinkAfter(n) == next' = [next EXCEPT ![n] = next[next[n]]]

Unlink(p) ==
    /\ \/ Goto(p, "second", "unlinked") /\ head # delete_value
       \/ Goto(p, "seek", "unlinked")
    /\ curr[p] \in alloc
    /\ next[curr[p]] = delete_value
    /\ UnlinkAfter(curr[p])
    /\ curr' = [curr EXCEPT ![p] = next[curr[p]]]
    /\ UNCHANGED <<delete_value, head, alloc, lock, found>>

FreeNode(p) ==
    /\ Goto(p, "unlinked", "unlock")
    /\ alloc' = alloc \ {curr[p]}
    /\ curr' = [curr EXCEPT ![p] = NULL]
    /\ UNCHANGED <<delete_value, head, next, lock, found>>

Unlock(p) ==
    /\ Goto(p, "unlock", "return")
    /\ Lock!Release(p)
    /\ found' = [found EXCEPT ![p] = 1]
    /\ UNCHANGED <<delete_value, list, curr>>

(* main has joined every thread and calls delete_node itself. *)
Join ==
    /\ \A t \in Threads : pc[t] = "return"
    /\ Goto(Main, "join", "start")
    /\ UNCHANGED <<delete_value, list, lock, curr, found>>

Exit ==
    /\ Goto(Main, "return", "exit")
    /\ UNCHANGED <<delete_value, list, lock, curr, found>>

Step(p) ==
    \/ ReadHead(p) \/ WrLock(p) \/ SearchOn(p) \/ NotFound(p) \/ SearchHit(p)
    \/ UnlinkHead(p) \/ Seek(p) \/ Unlink(p) \/ FreeNode(p) \/ Unlock(p)

Exited == pc[Main] = "exit" /\ UNCHANGED vars

Stale(p) == pc[p] = "search" /\ curr[p] \notin alloc \cup {NULL}

(* p, which has the lock, reads a freed node: from here on anything may happen.  *)
StaleRead == (\E p \in Procs : Stale(p)) /\ UNCHANGED vars

Next == (\E p \in Procs : Step(p)) \/ Join \/ Exit \/ Exited \/ StaleRead

Spec == Init /\ [][Next]_vars

--------------------------------------------------------------------------------
(* Properties *)

(* Past the search every node a process looks at under the lock is allocated,    *)
(* and next of curr is never NULL when its data is read (lines 180-198).         *)
SecondPassSafe ==
    \A p \in Procs :
        /\ pc[p] = "second" => {head, curr[p]} \subseteq alloc
        /\ pc[p] = "seek" => curr[p] \in alloc /\ next[curr[p]] # NULL
        /\ pc[p] = "unlinked" => curr[p] \in alloc

(* How far the unlocked read of head (line 159) can do harm: only when the first *)
(* node is the one deleted, only in the search, and only through that node.      *)
OnlyOldHeadStale ==
    /\ SecondPassSafe
    /\ \A p \in Procs : Stale(p) => curr[p] = 1 /\ delete_value = 1

(* The README's "completely protected by Read-Write locks" (README.md:68):       *)
(* whatever node a process is about to look at under the lock is still           *)
(* allocated.                                                                    *)
NoUseAfterFree == SecondPassSafe /\ \A p \in Procs : ~Stale(p)

(* The n-th node from the head, and NULL past the end. *)
Node[n \in 0 .. thread_count] ==
    IF n = 0 THEN head
    ELSE IF Node[n - 1] = NULL THEN NULL ELSE next[Node[n - 1]]

Linked == {Node[n] : n \in 0 .. thread_count} \ {NULL}

(* When nobody is changing it the list ends, and holds exactly the nodes not     *)
(* freed: all but the deleted one (lines 180-198).  At all times every pointer   *)
(* is to a node or NULL.                                                         *)
ListIntact ==
    /\ TypeOK
    /\ writing = {} =>
        /\ Node[thread_count] = NULL
        /\ Linked = alloc
        /\ Nodes \ alloc \subseteq {delete_value}

(* The answers agree with the list: at most one process reports the deletion of  *)
(* the value, and one that reports "value not found" is right from then on       *)
(* (lines 173-178, 200-204, against the printf of lines 117-120).                *)
AnswersAgree ==
    /\ Cardinality({p \in Procs : found[p] = 1}) <= 1
    /\ \A p \in Procs :
          pc[p] \in {"return", "exit"} => delete_value \notin Linked
================================================================================
