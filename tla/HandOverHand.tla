------------------------------ MODULE HandOverHand ------------------------------
(* pthreads-1/linked_list_sol2.c: thread_count threads search the list 1, 2,     *)
(* ..., thread_count for one value, each with the mutex of the node it stands    *)
(* on; a thread takes the next node's mutex before it gives up its own.  main    *)
(* joins them, then destroys every mutex and frees every node.                   *)
(* Node n holds the value n and nothing is inserted or removed while threads     *)
(* run, so a node's next is its number plus one.                                 *)
EXTENDS RankSet

CONSTANT Values     \* the values searched for, from the command line

ASSUME SearchAssumption == Values \subseteq Nat

(* There are as many nodes as threads. *)
Nodes == 1 .. thread_count

VARIABLES
    value,
    mutex,      \* who owns the mutex of each node
    pc, curr,   \* where each thread is in member, and its local curr
    found,      \* its *found
    main,       \* where main is: join, delete, exit
    freed       \* how many nodes delete has freed, from the head on

searchVars == <<value, mutex, pc, curr, found, main, freed>>

(* start: line 159; walk: has curr's mutex, at the while; coupled: has the next  *)
(* node's too; return: member has returned.                                      *)
Locations == {"start", "walk", "coupled", "return"}

SearchTypeOK ==
    /\ value \in Values
    /\ mutex \in [Nodes -> Ranks \cup {NoRank}]
    /\ pc \in [Ranks -> Locations]
    /\ curr \in [Ranks -> Nodes]
    /\ found \in [Ranks -> {0, 1}]
    /\ main \in {"join", "delete", "exit"}
    /\ freed \in 0 .. thread_count

--------------------------------------------------------------------------------

(* insert_at_end has put 1 .. thread_count in the list; curr = head. *)
SearchInit ==
    /\ value \in Values
    /\ mutex = [n \in Nodes |-> NoRank]
    /\ pc = [t \in Ranks |-> "start"]
    /\ curr = [t \in Ranks |-> 1]
    /\ found = [t \in Ranks |-> 0]
    /\ main = "join"
    /\ freed = 0

Goto(t, from, to) == pc[t] = from /\ pc' = [pc EXCEPT ![t] = to]

LockHead(t) ==
    /\ Goto(t, "start", "walk")
    /\ mutex[curr[t]] = NoRank
    /\ mutex' = [mutex EXCEPT ![curr[t]] = t]
    /\ UNCHANGED <<value, curr, found, main, freed>>

(* Operators named for a slip are not part of the model: each is what a          *)
(* plausible mistake would make of the operator after it, and the README says    *)
(* which property notices.                                                       *)
AheadTooFar(t) == curr[t] # thread_count /\ curr[t] <= value

(* curr->next != NULL && curr->data < value *)
Ahead(t) == curr[t] # thread_count /\ curr[t] < value

UnlockTooEarly(t) ==
    /\ Goto(t, "walk", "coupled")
    /\ Ahead(t)
    /\ mutex' = [mutex EXCEPT ![curr[t]] = NoRank]
    /\ UNCHANGED <<value, curr, found, main, freed>>

LockNext(t) ==
    /\ Goto(t, "walk", "coupled")
    /\ Ahead(t)
    /\ mutex[curr[t] + 1] = NoRank
    /\ mutex' = [mutex EXCEPT ![curr[t] + 1] = t]
    /\ UNCHANGED <<value, curr, found, main, freed>>

MoveOnStillLocked(t) ==
    /\ Goto(t, "coupled", "walk")
    /\ curr' = [curr EXCEPT ![t] = @ + 1]
    /\ UNCHANGED <<value, mutex, found, main, freed>>

(* The node left behind is unlocked, and curr moves on. *)
MoveOn(t) ==
    /\ Goto(t, "coupled", "walk")
    /\ mutex' = [mutex EXCEPT ![curr[t]] = NoRank]
    /\ curr' = [curr EXCEPT ![t] = @ + 1]
    /\ UNCHANGED <<value, found, main, freed>>

(* The answer is read off the last node reached, which is then unlocked. *)
Answer(t) ==
    /\ Goto(t, "walk", "return")
    /\ ~Ahead(t)
    /\ found' = [found EXCEPT ![t] = IF curr[t] = value THEN 1 ELSE 0]
    /\ mutex' = [mutex EXCEPT ![curr[t]] = NoRank]
    /\ UNCHANGED <<value, curr, main, freed>>

Member(t) == LockHead(t) \/ LockNext(t) \/ MoveOn(t) \/ Answer(t)

SomeReturned == \E t \in Ranks : pc[t] = "return"

AllReturned == \A t \in Ranks : pc[t] = "return"

Join ==
    /\ main = "join"
    /\ AllReturned
    /\ main' = "delete"
    /\ UNCHANGED <<value, mutex, pc, curr, found, freed>>

OneMoreToFree == freed <= thread_count

(* delete's curr != NULL *)
MoreToFree == freed < thread_count

(* One iteration of delete: pthread_mutex_destroy, free. *)
FreeNode ==
    /\ main = "delete"
    /\ MoreToFree
    /\ freed' = freed + 1
    /\ UNCHANGED <<value, mutex, pc, curr, found, main>>

Exit ==
    /\ main = "delete"
    /\ ~MoreToFree
    /\ main' = "exit"
    /\ UNCHANGED <<value, mutex, pc, curr, found, freed>>

MainStep == Join \/ FreeNode \/ Exit

Exited == main = "exit" /\ UNCHANGED searchVars

SearchNext == (\E t \in Ranks : Member(t)) \/ MainStep \/ Exited

SearchSpec == SearchInit /\ [][SearchNext]_searchVars

(* Every thread that can run is run. *)
FairSearchSpec == SearchSpec /\ WF_searchVars(MainStep) /\ \A t \in Ranks : WF_searchVars(Member(t))

--------------------------------------------------------------------------------
(* Properties *)

Inside(t) == pc[t] \in {"walk", "coupled"}

(* No thread overtakes another in the list: one that is behind stays behind for  *)
(* as long as both are in it, however they are scheduled between the lock of one *)
(* node and the unlock of the other (lines 159-167).                             *)
NoOvertaking ==
    [][\A t, u \in Ranks :
          Inside(t) /\ Inside(u) /\ curr[t] < curr[u] /\ Inside(u)'
             => curr'[t] < curr'[u]]_searchVars

(* member answers what a search of the list would, whichever node stops the walk *)
(* (lines 161, 169-173).                                                         *)
AnswersRight ==
    \A t \in Ranks :
        pc[t] = "return" => (found[t] = 1 <=> value \in Nodes)

(* delete destroys a mutex only when it is unlocked and no thread will use it    *)
(* again (lines 66-68 after the joins of 95-98).                                 *)
DestroyedUnused ==
    freed > 0 =>
        /\ \A n \in Nodes : mutex[n] = NoRank
        /\ \A t \in Ranks : pc[t] = "return"

(* Nobody waits for ever for the mutex of a node: the program ends. *)
SearchEnds == <>(main = "exit")
================================================================================
