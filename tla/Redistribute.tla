------------------------------- MODULE Redistribute -----------------------------
(* Assignment 02/programming_q_9.c: the elements 1 .. N, scattered in blocks, go *)
(* round among p processes by MPI_Sendrecv into a distribution meant to be       *)
(* cyclic, and back.                                                             *)
EXTENDS Integers, FiniteSets

CONSTANTS
    N,              \* the number of elements, 12 in the program
    Sizes           \* the numbers of processes tried, divisors of N

VARIABLES
    p,
    eager,          \* whether a send completes before its message is received
    minus_one,      \* what the MPI library takes -1 for where a rank is expected
    block, cyclic,  \* the arrays of each rank
    loop, i,        \* each rank's loop, 0 to cyclic and 1 back, and its variable
    pc,
    net,            \* the messages sent and not received
    aborted

vars == <<p, eager, minus_one, block, cyclic, loop, i, pc, net, aborted>>

Ranks == 0 .. p - 1
block_size == N \div p
Places == 0 .. block_size - 1

Uninitialised == 0
Elements == 0 .. N

(* barrier: at the MPI_Barrier before a loop, or the last one; post, receive,    *)
(* return: in an MPI_Sendrecv; done.                                             *)
Locations == {"barrier", "post", "receive", "return", "done"}

Messages == [tag : {0, 1}, from : Ranks, to : Ranks, nr : Places, value : Elements]

TypeOK ==
    /\ p \in Sizes
    /\ eager \in BOOLEAN
    /\ minus_one \in {"any source", "no process"}
    /\ block \in [Ranks -> [Places -> Elements]]
    /\ cyclic \in [Ranks -> [Places -> Elements]]
    /\ loop \in [Ranks -> 0 .. 2]
    /\ i \in [Ranks -> 0 .. block_size]
    /\ pc \in [Ranks -> Locations]
    /\ net \subseteq Messages
    /\ aborted \in BOOLEAN

Original(r) == [k \in Places |-> r * block_size + k + 1]

(* MPI_Scatter has given each rank its block.  -1 is MPI_ANY_SOURCE in Open MPI  *)
(* and MPI_PROC_NULL in MPICH; it only comes up with two ranks.                  *)
Init ==
    /\ p \in Sizes
    /\ eager \in BOOLEAN
    /\ minus_one \in {"any source", "no process"}
    /\ p # 2 => minus_one = "any source"
    /\ block = [r \in Ranks |-> Original(r)]
    /\ cyclic = [r \in Ranks |-> [k \in Places |-> Uninitialised]]
    /\ loop = [r \in Ranks |-> 0]
    /\ i = [r \in Ranks |-> 0]
    /\ pc = [r \in Ranks |-> "barrier"]
    /\ net = {}
    /\ aborted = FALSE

(* C's remainder has the sign of the dividend. *)
Remainder(x, m) == IF x >= 0 THEN x % m ELSE -((-x) % m)

(* Operators named for a slip are not part of the model: each is what a          *)
(* plausible mistake would make of the operator after it, and the README says    *)
(* which property notices.                                                       *)
ForwardsUnwrapped(r) == r + i[r]

Forwards(r) == (r + i[r]) % p

Backwards(r) == Remainder(r - i[r] + p, p)

send_to(r) == IF loop[r] = 0 THEN Forwards(r) ELSE Backwards(r)

recv_from(r) == IF loop[r] = 0 THEN Backwards(r) ELSE Forwards(r)

OutgoingAlwaysBlock(r) == block[r][i[r]]

Outgoing(r) == IF loop[r] = 0 THEN block[r][i[r]] ELSE cyclic[r][i[r]]

Goto(r, from, to) == pc[r] = from /\ pc' = [pc EXCEPT ![r] = to]

(* MPI_Barrier: each rank goes on once all have got there. *)
Barrier(r) ==
    /\ \A u \in Ranks : loop[u] >= loop[r]
    /\ Goto(r, "barrier", IF loop[r] = 2 THEN "done" ELSE "post")
    /\ UNCHANGED <<p, eager, minus_one, block, cyclic, loop, i, net, aborted>>

(* The send of MPI_Sendrecv; to -1 it is an error, or nothing. *)
Post(r) ==
    /\ i[r] < block_size
    /\ Goto(r, "post", "receive")
    /\ IF send_to(r) >= 0
       THEN /\ net' = net \cup {[tag |-> loop[r], from |-> r, to |-> send_to(r),
                                 nr |-> i[r], value |-> Outgoing(r)]}
            /\ UNCHANGED aborted
       ELSE /\ aborted' = (minus_one = "any source")
            /\ UNCHANGED net
    /\ UNCHANGED <<p, eager, minus_one, block, cyclic, loop, i>>

(* Messages from one rank to another are received in the order sent. *)
Receivable(r) ==
    {m \in net : /\ m.to = r /\ m.tag = loop[r]
                 /\ recv_from(r) \in {m.from, -1}
                 /\ \A o \in net : o.to = r /\ o.tag = m.tag /\ o.from = m.from
                                      => m.nr <= o.nr}

Store(r, value) ==
    IF loop[r] = 0
    THEN cyclic' = [cyclic EXCEPT ![r][i[r]] = value] /\ UNCHANGED block
    ELSE block' = [block EXCEPT ![r][i[r]] = value] /\ UNCHANGED cyclic

Receive(r) ==
    /\ Goto(r, "receive", "return")
    /\ IF recv_from(r) = -1 /\ minus_one = "no process"
       THEN UNCHANGED <<block, cyclic, net>>
       ELSE \E m \in Receivable(r) : Store(r, m.value) /\ net' = net \ {m}
    /\ UNCHANGED <<p, eager, minus_one, loop, i, aborted>>

(* MPI_Sendrecv returns once both halves are complete. *)
Return(r) ==
    /\ Goto(r, "return", "post")
    /\ eager \/ \A m \in net : m.from = r => m.nr # i[r] \/ m.tag # loop[r]
    /\ i' = [i EXCEPT ![r] = @ + 1]
    /\ UNCHANGED <<p, eager, minus_one, block, cyclic, loop, net, aborted>>

(* The end of a loop, and the MPI_Reduce of its time. *)
LoopEnds(r) ==
    /\ i[r] = block_size
    /\ Goto(r, "post", "barrier")
    /\ loop' = [loop EXCEPT ![r] = @ + 1]
    /\ i' = [i EXCEPT ![r] = 0]
    /\ UNCHANGED <<p, eager, minus_one, block, cyclic, net, aborted>>

RankStep(r) ==
    /\ ~aborted
    /\ Barrier(r) \/ Post(r) \/ Receive(r) \/ Return(r) \/ LoopEnds(r)

AllDone == \A r \in Ranks : pc[r] = "done"

Next == \E r \in Ranks : RankStep(r)

Spec == Init /\ [][Next]_vars

--------------------------------------------------------------------------------

ToCyclicDone == \A r \in Ranks : loop[r] >= 1

InCyclicOrder ==
    \A r \in Ranks : \A k \in Places : (cyclic[r][k] - 1) % p = r

(* Whatever the order of the messages: after the first loop every element is in  *)
(* one place; the order is the cyclic one just when the size of a block is one   *)
(* more than a multiple of p; and at the end each rank has its block back (lines *)
(* 38-70).  With two ranks the sources computed in line 40 become -1.            *)
RoundTrip ==
    /\ ToCyclicDone /\ p # 2 =>
          /\ {cyclic[r][k] : r \in Ranks, k \in Places} = 1 .. N
          /\ InCyclicOrder <=> block_size % p = 1 % p
    /\ AllDone => \A r \in Ranks : block[r] = Original(r)
================================================================================
