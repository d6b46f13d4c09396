----------------------------- MODULE MessagePassing -----------------------------
(* The MPI programs whose ranks wait for each other's messages, one of them at a *)
(* time: `program' says which, and the variables of the others stay as they are  *)
(* initially.                                                                    *)
EXTENDS Integers

CONSTANTS
    MaxSize,        \* of PingPong and Collectives
    MaxDim,         \* of Collectives
    N, Sizes        \* of Redistribute

ASSUME BoundsAssumption ==
    /\ MaxSize \in Nat \ {0} /\ MaxDim \in Nat \ {0}
    /\ N \in Nat \ {0} /\ 1 \in Sizes /\ Sizes \subseteq Nat \ {0}

(* The processes divide the elements.  What the program computes for a rank is   *)
(* negative with two processes only, as it is with the twelve elements it has.   *)
ASSUME DivisorsAssumption ==
    \A m \in Sizes : N % m = 0 /\ (m <= 2 \/ N <= m * (m + 1))

VARIABLES
    program,
    replies, comm_sz, ping_eager, ping_net, ping_pc, ping_aborted,           \* PingPong
    p, eager, minus_one, block, cyclic, loop, i, pc, net, aborted,  \* Redistribute
    collective, size, dim, coll_eager, tested, stage, mem, coll_aborted  \* Collectives

PP == INSTANCE PingPong WITH eager <- ping_eager, net <- ping_net, pc <- ping_pc,
                             aborted <- ping_aborted
RD == INSTANCE Redistribute
CO == INSTANCE Collectives WITH program <- collective, eager <- coll_eager,
                                aborted <- coll_aborted

pingVars == <<replies, comm_sz, ping_eager, ping_net, ping_pc, ping_aborted>>
redVars == <<p, eager, minus_one, block, cyclic, loop, i, pc, net, aborted>>
collVars == <<collective, size, dim, coll_eager, tested, stage, mem, coll_aborted>>
vars == <<program, pingVars, redVars, collVars>>

(* A program that does not run stays in one of its initial states. *)
Init ==
    /\ program \in {"ping pong", "redistribute", "collective"}
    /\ PP!Init /\ (program = "ping pong" \/ (replies /\ comm_sz = 1 /\ ping_eager))
    /\ RD!Init /\ (program = "redistribute" \/ (p = 1 /\ eager))
    /\ CO!Init /\ (program = "collective"
                   \/ (collective = "product" /\ size = 1 /\ dim = 1 /\ coll_eager))

PingPongStep(r) ==
    /\ program = "ping pong"
    /\ r \in PP!Ranks /\ PP!RankStep(r)
    /\ UNCHANGED <<program, redVars, collVars>>

RedistributeStep(r) ==
    /\ program = "redistribute"
    /\ r \in RD!Ranks /\ RD!RankStep(r)
    /\ UNCHANGED <<program, pingVars, collVars>>

CollectiveStep(r) ==
    /\ program = "collective"
    /\ r \in CO!Ranks /\ CO!RankStep(r)
    /\ UNCHANGED <<program, pingVars, redVars>>

AllRanks == {r \in 0 .. MaxSize + N : r < MaxSize \/ \E m \in Sizes : r < m}

Step(r) == PingPongStep(r) \/ RedistributeStep(r) \/ CollectiveStep(r)

Next == \E r \in AllRanks : Step(r)

Spec == Init /\ [][Next]_vars

(* Every process that can run is run, and every message arrives.  One of the     *)
(* programs runs, so that fairness to a rank is fairness to it in that program.  *)
Fairness == \A r \in AllRanks : WF_vars(Step(r))

FairSpec == Spec /\ Fairness

--------------------------------------------------------------------------------

(* The type invariants of the three modules: a message is from a rank to a rank. *)
TypeOK == PP!TypeOK /\ RD!TypeOK /\ CO!TypeOK

(* The redistribution loses nothing and is undone by the way back; on the way    *)
(* every message and every array is what its type says.                          *)
RoundTrip == TypeOK /\ RD!RoundTrip

(* The collectives put every element where the next loop looks for it.           *)
ProductExact == CO!ProductExact

(* What the sizes must be for a program to end, from each module. *)
CanEnd ==
    CASE program = "ping pong" -> PP!CanEnd
      [] program = "redistribute" -> p # 2
      [] program = "collective" -> CO!CanEnd

Ended ==
    CASE program = "ping pong" -> PP!AllDone
      [] program = "redistribute" -> RD!AllDone
      [] program = "collective" -> CO!AllDone

(* With these sizes every program ends, whether sends are buffered or not.  With *)
(* others it never does: a third rank waits for a PING that nobody sends         *)
(* (programming_q_7_clock.c:29), rank 0 of the product leaves the others in a    *)
(* collective operation it never joins (mpi.c:23-29, 183, 65), of two ranks that *)
(* redistribute one is given the partner -1 (programming_q_9.c:40, 65), and a    *)
(* vector is broadcast to ranks that have no room for it                         *)
(* (mpi-1/Matrix_Multiplication.c:86, 122).                                      *)
EndsExactly == (CanEnd => <>Ended) /\ (~CanEnd => []~Ended)
================================================================================
