-------------------------------- MODULE ListWork -------------------------------
(* The multithreaded sorted list of "Assignment 03/pth_ll_rwl.c": main fills    *)
(* the list, threads search, insert and delete under one read-write lock, add   *)
(* their operation counts under count_mutex, and main frees the list.  The same *)
(* program with the lock written by hand is program_6_.c; what this module      *)
(* needs of either lock is ReadWriteLock.tla, which RWLock.tla implements.      *)
(*                                                                              *)
(* The list is a heap of nodes.  A thread walks it one node per step, so that   *)
(* every interleaving of two walks is in the model, and unlinking a node and    *)
(* freeing it are two steps, as linking one and publishing it are.  malloc      *)
(* returns any address not in use, the one freed last included.  The random     *)
(* operations and keys of my_drand and my_rand are any operation and any key.   *)
EXTENDS Integers, FiniteSets, FiniteSetsExt

CONSTANTS
    Threads,        \* thread_count of them
    Main,           \* the thread that runs main
    NoThread,       \* the owner of count_mutex when it is free
    Keys,           \* the keys my_rand(&seed) % MAX_KEY draws
    Addrs,          \* the addresses malloc may return
    NULL,
    TotalOps,       \* total_ops, read by Get_input
    InsertsInMain   \* inserts_in_main, read by Get_input

ASSUME ProcsAssumption ==
    /\ IsFiniteSet(Threads) /\ Threads # {}
    /\ Main \notin Threads /\ NoThread \notin Threads /\ NULL \notin Addrs
ASSUME InputAssumption ==
    Keys \subseteq Int /\ TotalOps \in Nat /\ InsertsInMain \in Nat
(* Memory is finite: malloc has only so many addresses to give. *)
ASSUME MemoryAssumption == IsFiniteSet(Addrs)

VARIABLES
    head, data, next,   \* the list: its head and the fields of every node
    alloc,              \* the addresses malloc has given out and free not taken
    reading, writing,   \* who holds rwlock (ReadWriteLock)
    count_mutex,        \* who owns count_mutex
    counts,             \* member_count, insert_count, delete_count
    pc,                 \* where each process is
    call,               \* the locals of the list operation it is in
    left,               \* iterations each thread has left of its loop
    mine,               \* its my_member_count, my_insert_count, my_delete_count
    loaded,             \* the counts it has read but not yet written back
    inserted, attempts  \* i and attempts of main's first loop

heap == <<head, data, next, alloc>>
lock == <<reading, writing>>
totals == <<count_mutex, counts, mine, loaded>>
mainVars == <<inserted, attempts>>
vars == <<heap, lock, totals, pc, call, left, mainVars>>

Lock == INSTANCE ReadWriteLock

Procs == Threads \cup {Main}
Kinds == {"member", "insert", "delete"}
NoCounts == [kind \in Kinds |-> 0]

(* main: populate, join, free, exit.  A thread: none (not created), loop, lock,  *)
(* count, store, done.  Inside a list operation: enter, walk, publish (Insert    *)
(* has its node), unlinked (Delete still has one to free), return.               *)
Locations == {"none", "populate", "join", "exit", "loop", "lock", "enter", "walk",
              "publish", "unlinked", "return", "free", "count", "store", "done"}
InList == {"enter", "walk", "publish", "unlinked", "return"}

NoCall == [op |-> "none", val |-> 0, curr |-> NULL, pred |-> NULL,
           temp |-> NULL, rv |-> FALSE]

CallOf(op, val) == [NoCall EXCEPT !.op = op, !.val = val]

Pointers == Addrs \cup {NULL}

Calls == [op : Kinds \cup {"none"}, val : Keys \cup {0}, curr : Pointers,
          pred : Pointers, temp : Pointers, rv : BOOLEAN]

TypeOK ==
    /\ head \in Pointers
    /\ data \in [Addrs -> Keys \cup {0}]
    /\ next \in [Addrs -> Pointers]
    /\ alloc \subseteq Addrs
    /\ Lock!LockTypeOK
    /\ count_mutex \in Threads \cup {NoThread}
    /\ counts \in [Kinds -> Nat]
    /\ pc \in [Procs -> Locations]
    /\ call \in [Procs -> Calls]
    /\ left \in [Threads -> Nat]
    /\ mine \in [Threads -> [Kinds -> Nat]]
    /\ loaded \in [Threads -> [Kinds -> Nat]]
    /\ inserted \in Nat /\ attempts \in Nat

--------------------------------------------------------------------------------

thread_count == Cardinality(Threads)
ops_per_thread == TotalOps \div thread_count

Init ==
    /\ head = NULL
    /\ data = [a \in Addrs |-> 0]
    /\ next = [a \in Addrs |-> NULL]
    /\ alloc = {}
    /\ Lock!LockInit
    /\ count_mutex = NoThread
    /\ counts = NoCounts
    /\ pc = [p \in Procs |-> IF p = Main THEN "populate" ELSE "none"]
    /\ call = [p \in Procs |-> NoCall]
    /\ left = [t \in Threads |-> 0]
    /\ mine = [t \in Threads |-> NoCounts]
    /\ loaded = [t \in Threads |-> NoCounts]
    /\ inserted = 0 /\ attempts = 0

Goto(p, from, to) == pc[p] = from /\ pc' = [pc EXCEPT ![p] = to]

(* The list operations, run by a thread or, for Insert, by main. *)

(* curr = head, pred = NULL. *)
Enter(p) ==
    /\ Goto(p, "enter", "walk")
    /\ call' = [call EXCEPT ![p].curr = head]
    /\ UNCHANGED <<heap, lock, totals, left, mainVars>>

(* A slip (<= for <) and then the loop condition all three share.  Operators     *)
(* named for a slip are not part of the model: each is what a plausible mistake  *)
(* would make of the operator after it, and the README says which property       *)
(* notices.                                                                      *)
AheadTooFar(p) == LET c == call[p] IN c.curr # NULL /\ data[c.curr] <= c.val

Ahead(p) == LET c == call[p] IN c.curr # NULL /\ data[c.curr] < c.val

(* The value is in the list: curr stops at it. *)
Found(p) == LET c == call[p] IN c.curr # NULL /\ data[c.curr] = c.val

Walk(p) ==
    /\ pc[p] = "walk"
    /\ Ahead(p)
    /\ call' = [call EXCEPT ![p].curr = next[@],
                            ![p].pred = IF call[p].op = "member" THEN @
                                        ELSE call[p].curr]
    /\ UNCHANGED <<heap, lock, totals, pc, left, mainVars>>

(* The value a caller gets back, and the way out of an operation that changes    *)
(* nothing: Member, an Insert of a key that is there, a Delete of one that is    *)
(* not.                                                                          *)
ReturnUnchanged(p) ==
    /\ Goto(p, "walk", "return")
    /\ ~Ahead(p)
    /\ \/ call[p].op = "member"
       \/ call[p].op = "insert" /\ Found(p)
       \/ call[p].op = "delete" /\ ~Found(p)
    /\ call' = [call EXCEPT ![p].rv = call[p].op = "member" /\ Found(p)]
    /\ UNCHANGED <<heap, lock, totals, left, mainVars>>

(* free(a): nothing in the program may read the node again, so the model forgets *)
(* what was in it.                                                               *)
Free(a) ==
    /\ alloc' = alloc \ {a}
    /\ data' = [data EXCEPT ![a] = 0]
    /\ next' = [next EXCEPT ![a] = NULL]

(* Insert: temp = malloc(...), its fields, not yet reachable. *)
InsertAlloc(p) ==
    /\ Goto(p, "walk", "publish")
    /\ call[p].op = "insert" /\ ~Ahead(p) /\ ~Found(p)
    /\ \E a \in Addrs \ alloc :
          /\ alloc' = alloc \cup {a}
          /\ data' = [data EXCEPT ![a] = call[p].val]
          /\ next' = [next EXCEPT ![a] = call[p].curr]
          /\ call' = [call EXCEPT ![p].temp = a]
    /\ UNCHANGED <<head, lock, totals, left, mainVars>>

LinkAlwaysAtHead(p, to) == head' = to /\ UNCHANGED next

(* Sets the pointer that leads to curr: head, or the next of pred. *)
Link(p, to) ==
    IF call[p].pred = NULL
    THEN head' = to /\ UNCHANGED next
    ELSE next' = [next EXCEPT ![call[p].pred] = to] /\ UNCHANGED head

InsertPublish(p) ==
    /\ Goto(p, "publish", "return")
    /\ Link(p, call[p].temp)
    /\ call' = [call EXCEPT ![p].rv = TRUE]
    /\ UNCHANGED <<data, alloc, lock, totals, left, mainVars>>

DeleteUnlink(p) ==
    /\ Goto(p, "walk", "unlinked")
    /\ call[p].op = "delete" /\ ~Ahead(p) /\ Found(p)
    /\ Link(p, next[call[p].curr])
    /\ call' = [call EXCEPT ![p].rv = TRUE]
    /\ UNCHANGED <<data, alloc, lock, totals, left, mainVars>>

DeleteForgetsFree(p) ==
    /\ Goto(p, "unlinked", "return")
    /\ UNCHANGED <<heap, lock, totals, call, left, mainVars>>

DeleteFree(p) ==
    /\ Goto(p, "unlinked", "return")
    /\ Free(call[p].curr)
    /\ UNCHANGED <<head, lock, totals, call, left, mainVars>>

ListStep(p) ==
    \/ Enter(p) \/ Walk(p) \/ ReturnUnchanged(p)
    \/ InsertAlloc(p) \/ InsertPublish(p)
    \/ DeleteUnlink(p) \/ DeleteFree(p)

(* main, before the threads: insert keys, but give up after 2*inserts_in_main    *)
(* attempts.                                                                     *)

Populating == inserted < InsertsInMain /\ attempts < 2 * InsertsInMain

MainInsert ==
    /\ Populating
    /\ Goto(Main, "populate", "enter")
    /\ \E k \in Keys : call' = [call EXCEPT ![Main] = CallOf("insert", k)]
    /\ UNCHANGED <<heap, lock, totals, left, mainVars>>

MainInserted ==
    /\ Goto(Main, "return", "populate")
    /\ attempts' = attempts + 1
    /\ inserted' = IF call[Main].rv THEN inserted + 1 ELSE inserted
    /\ call' = [call EXCEPT ![Main] = NoCall]
    /\ UNCHANGED <<heap, lock, totals, left>>

(* pthread_create for every thread.  A thread that exists and has not run yet    *)
(* cannot be told from one that will be created later, so all start at once.     *)
CreateThreads ==
    /\ ~Populating
    /\ pc[Main] = "populate"
    /\ pc' = [p \in Procs |-> IF p = Main THEN "join" ELSE "loop"]
    /\ left' = [t \in Threads |-> ops_per_thread]
    /\ UNCHANGED <<heap, lock, totals, call, mainVars>>

(* Thread_work *)

PickOpOnceMore(t) ==
    /\ left[t] >= 0
    /\ Goto(t, "loop", "lock")
    /\ \E op \in Kinds, k \in Keys :
          call' = [call EXCEPT ![t] = CallOf(op, k)]
    /\ left' = [left EXCEPT ![t] = @ - 1]
    /\ UNCHANGED <<heap, lock, totals, mainVars>>

PickOp(t) ==
    /\ left[t] > 0
    /\ Goto(t, "loop", "lock")
    /\ \E op \in Kinds, k \in Keys :
          call' = [call EXCEPT ![t] = CallOf(op, k)]
    /\ left' = [left EXCEPT ![t] = @ - 1]
    /\ UNCHANGED <<heap, lock, totals, mainVars>>

LockForReadingAlways(t) == Lock!AcquireRead(t)

LockForWritersOnly(t) ==
    IF call[t].op = "member" THEN UNCHANGED lock ELSE Lock!AcquireWrite(t)

(* Member runs under the read lock, Insert and Delete under the write lock. *)
LockFor(t) ==
    IF call[t].op = "member" THEN Lock!AcquireRead(t) ELSE Lock!AcquireWrite(t)

Acquire(t) ==
    /\ Goto(t, "lock", "enter")
    /\ LockFor(t)
    /\ UNCHANGED <<heap, totals, call, left, mainVars>>

CountWithoutRelease(t) ==
    /\ Goto(t, "return", "loop")
    /\ mine' = [mine EXCEPT ![t][call[t].op] = @ + 1]
    /\ call' = [call EXCEPT ![t] = NoCall]
    /\ UNCHANGED <<heap, lock, count_mutex, counts, loaded, left, mainVars>>

ReleaseAndCount(t) ==
    /\ Goto(t, "return", "loop")
    /\ Lock!Release(t)
    /\ mine' = [mine EXCEPT ![t][call[t].op] = @ + 1]
    /\ call' = [call EXCEPT ![t] = NoCall]
    /\ UNCHANGED <<heap, count_mutex, counts, loaded, left, mainVars>>

CountsUnlocked(t) ==
    /\ left[t] = 0
    /\ Goto(t, "loop", "count")
    /\ UNCHANGED <<heap, lock, totals, call, left, mainVars>>

LockCounts(t) ==
    /\ left[t] = 0
    /\ Goto(t, "loop", "count")
    /\ count_mutex = NoThread
    /\ count_mutex' = t
    /\ UNCHANGED <<heap, lock, counts, mine, loaded, call, left, mainVars>>

(* The three += under count_mutex, as a read and a write of the counters. *)
LoadCounts(t) ==
    /\ Goto(t, "count", "store")
    /\ loaded' = [loaded EXCEPT ![t] = counts]
    /\ UNCHANGED <<heap, lock, count_mutex, counts, mine, call, left, mainVars>>

StoreCounts(t) ==
    /\ Goto(t, "store", "done")
    /\ counts' = [kind \in Kinds |-> loaded[t][kind] + mine[t][kind]]
    /\ count_mutex' = NoThread
    /\ UNCHANGED <<heap, lock, mine, loaded, call, left, mainVars>>

(* main, after the threads *)

Join ==
    /\ \A t \in Threads : pc[t] = "done"
    /\ Goto(Main, "join", "free")
    /\ call' = [call EXCEPT ![Main].curr = head]
    /\ UNCHANGED <<heap, lock, totals, left, mainVars>>

(* One iteration of Free_list: the next node is read before the node is freed. *)
FreeNode ==
    /\ pc[Main] = "free" /\ call[Main].curr # NULL
    /\ Free(call[Main].curr)
    /\ call' = [call EXCEPT ![Main].curr = next[@]]
    /\ UNCHANGED <<head, lock, totals, pc, left, mainVars>>

Exit ==
    /\ call[Main].curr = NULL
    /\ Goto(Main, "free", "exit")
    /\ UNCHANGED <<heap, lock, totals, call, left, mainVars>>

ThreadStep(t) ==
    \/ PickOp(t) \/ Acquire(t) \/ ListStep(t) \/ ReleaseAndCount(t)
    \/ LockCounts(t) \/ LoadCounts(t) \/ StoreCounts(t)

MainStep ==
    \/ MainInsert \/ ListStep(Main) \/ MainInserted \/ CreateThreads
    \/ Join \/ FreeNode \/ Exit

Exited == pc[Main] = "exit" /\ UNCHANGED vars

Next == MainStep \/ (\E t \in Threads : ThreadStep(t)) \/ Exited

Spec == Init /\ [][Next]_vars

(* Every thread that can run is run. *)
FairSpec == Spec /\ WF_vars(MainStep) /\ \A t \in Threads : WF_vars(ThreadStep(t))

--------------------------------------------------------------------------------
(* Properties *)

(* The i-th node from the head, and NULL past the end. *)
Node[i \in 0 .. Cardinality(Addrs)] ==
    IF i = 0 THEN head
    ELSE IF Node[i - 1] = NULL THEN NULL ELSE next[Node[i - 1]]

Linked == {Node[i] : i \in 0 .. Cardinality(Addrs)} \ {NULL}

At(location) == {p \in Procs : pc[p] = location}

Freeing == pc[Main] \in {"free", "exit"}

(* The list ends, holds only nodes that are allocated, and is strictly sorted,   *)
(* in every state, so also for a reader that looks at it in the middle of        *)
(* somebody else's Insert or Delete (pth_ll_rwl.c:154-178,219-249).              *)
ListSorted ==
    Freeing \/ /\ Node[Cardinality(Addrs)] = NULL
               /\ Linked \subseteq alloc
               /\ \A a \in Linked : next[a] # NULL => data[a] < data[next[a]]

(* No thread holds a pointer to a node that somebody else has freed: whatever    *)
(* the next step reads, writes or frees is allocated (lines 160-172,200-203,     *)
(* 225-242 and Free_list, 252-271).                                              *)
MemorySafe ==
    \A p \in Procs : LET c == call[p] IN
        /\ pc[p] \in {"walk", "publish"} => {c.curr, c.pred} \subseteq alloc \cup {NULL}
        /\ pc[p] = "publish" => c.temp \in alloc
        /\ pc[p] = "unlinked" => c.curr \in alloc
        /\ pc[p] = "free" => c.curr \in alloc \cup {NULL}

(* Nothing leaks: a node that is allocated is in the list, or in the hands of    *)
(* the one operation that is linking or freeing it; at the end none is left.     *)
NoLeak ==
    /\ ~Freeing => alloc = Linked \cup {call[p].temp : p \in At("publish")}
                                  \cup {call[p].curr : p \in At("unlinked")}
    /\ pc[Main] = "exit" => alloc = {}

(* Nobody is inside the list with a thread that is there to change it, and no    *)
(* thread is there while main is (lines 292-306: the two kinds of lock are taken *)
(* around the right operations and given back after them).                       *)
ChangesAlone ==
    \A p, q \in Procs :
        p # q /\ pc[p] \in InList /\ pc[q] \in InList
          => call[p].op = "member" /\ call[q].op = "member"

Sum(c) == c["member"] + c["insert"] + c["delete"]

(* What thread t still owes the totals: operations done but not yet added, the   *)
(* one it is in, and those to come.                                              *)
Owed(t) ==
    IF pc[t] = "done" THEN 0
    ELSE Sum(mine[t]) + left[t] + (IF pc[t] \in InList \cup {"lock"} THEN 1 ELSE 0)

(* No count is lost: at every moment the totals and what the threads still owe   *)
(* them make thread_count * ops_per_thread, so that is what main prints          *)
(* (lines 310-314, 112-115).                                                     *)
CountsConserved ==
    pc[Main] \in {"join", "free", "exit"} =>
        Sum(counts) + MapThenSumSet(Owed, Threads) = thread_count * ops_per_thread

(* The comments of Insert and Delete (lines 152-153, 217-218) hold for every     *)
(* interleaving: the list with its lock implements a set whose operations are    *)
(* atomic.  Insert takes effect when its node is linked, Delete when it is       *)
(* unlinked, anything else when the walk ends.                                   *)
PendingOf(p) ==
    IF pc[p] \in {"lock", "enter", "walk", "publish"}
    THEN [kind |-> "call", op |-> call[p].op, key |-> call[p].val]
    ELSE IF pc[p] \in {"unlinked", "return"}
    THEN [kind |-> "answer", rv |-> call[p].rv]
    ELSE [kind |-> "idle"]

Abstract == INSTANCE SharedSet WITH
    keys <- IF Freeing THEN {} ELSE {data[a] : a \in Linked},
    pending <- [p \in Procs |-> PendingOf(p)]

ImplementsSharedSet == Abstract!SetSpec

(* The program ends, whatever the keys and whoever gets the lock first. *)
Termination == <>(pc[Main] = "exit")
================================================================================
