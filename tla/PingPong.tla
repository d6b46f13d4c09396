-------------------------------- MODULE PingPong --------------------------------
(* Assignment 02/programming_q_7_clock.c and programming_q_7_wtime.c: rank 0     *)
(* sends PING to rank 1 and waits for PONG; every other rank runs the other      *)
(* half, between two barriers.  mpi-1/MPI_Derived_DataType.c: one way only, and  *)
(* the ranks from 2 on go straight to MPI_Finalize.                              *)
EXTENDS Integers

CONSTANT MaxSize        \* bound on the number of processes, at least 1

VARIABLES
    replies,    \* whether PING is answered, or the one-way program runs
    comm_sz,
    eager,      \* whether a send completes before its message is received
    net,        \* the messages sent and not received
    pc,
    aborted

vars == <<replies, comm_sz, eager, net, pc, aborted>>

Ranks == 0 .. comm_sz - 1

Ping == [tag |-> 0, from |-> 0, to |-> 1]
Pong(r) == [tag |-> 1, from |-> r, to |-> 0]

(* start: at the first barrier; send, sending: before and in MPI_Send; receive:  *)
(* in MPI_Recv; stop: at the second barrier; done: past it.                      *)
Locations == {"start", "send", "sending", "receive", "stop", "done"}

TypeOK ==
    /\ replies \in BOOLEAN
    /\ comm_sz \in 1 .. MaxSize
    /\ eager \in BOOLEAN
    /\ net \subseteq [tag : {0, 1}, from : Ranks, to : Ranks]
    /\ pc \in [Ranks -> Locations]
    /\ aborted \in BOOLEAN

Init ==
    /\ replies \in BOOLEAN
    /\ comm_sz \in 1 .. MaxSize
    /\ eager \in BOOLEAN
    /\ net = {}
    /\ pc = [r \in Ranks |-> "start"]
    /\ aborted = FALSE

Goto(r, from, to) == pc[r] = from /\ pc' = [pc EXCEPT ![r] = to]

(* The branch of main a rank takes. *)
Branch(r) ==
    CASE r = 0 -> "send"
      [] r = 1 \/ (r > 1 /\ replies) -> "receive"
      [] r > 1 /\ ~replies -> "stop"

(* MPI_Barrier returns once every rank has called it; all of them start at the   *)
(* first one.                                                                    *)
Started(r) ==
    /\ Goto(r, "start", Branch(r))
    /\ UNCHANGED <<replies, comm_sz, eager, net, aborted>>

Outgoing(r) == IF r = 0 THEN Ping ELSE Pong(r)

(* MPI_Send to a rank that does not exist aborts the program. *)
Send(r) ==
    /\ IF Outgoing(r).to \in Ranks
       THEN /\ Goto(r, "send", "sending")
            /\ net' = net \cup {Outgoing(r)}
            /\ UNCHANGED aborted
       ELSE /\ pc[r] = "send"
            /\ aborted' = TRUE
            /\ UNCHANGED <<net, pc>>
    /\ UNCHANGED <<replies, comm_sz, eager>>

SendReturns(r) ==
    /\ Goto(r, "sending", IF r = 0 /\ replies THEN "receive" ELSE "stop")
    /\ eager \/ Outgoing(r) \notin net
    /\ UNCHANGED <<replies, comm_sz, eager, net, aborted>>

(* Rank 0 receives PONG from rank 1, the others PING from rank 0. *)
Incoming(r) == IF r = 0 THEN Pong(1) ELSE [Ping EXCEPT !.to = r]

Receive(r) ==
    /\ Goto(r, "receive", IF r # 0 /\ replies THEN "send" ELSE "stop")
    /\ Incoming(r) \in net
    /\ net' = net \ {Incoming(r)}
    /\ UNCHANGED <<replies, comm_sz, eager, aborted>>

(* When the second barrier opens; MPI_Finalize may let a rank go before. *)
AllStopped == \A r \in Ranks : pc[r] \in {"stop", "done"}

Stop(r) ==
    /\ AllStopped \/ (eager /\ ~replies)
    /\ Goto(r, "stop", "done")
    /\ UNCHANGED <<replies, comm_sz, eager, net, aborted>>

RankStep(r) ==
    /\ ~aborted
    /\ Started(r) \/ Send(r) \/ SendReturns(r) \/ Receive(r) \/ Stop(r)

(* Two processes to play ping-pong; to send one way at least two. *)
CanEnd == IF replies THEN comm_sz = 2 ELSE comm_sz >= 2

AllDone == \A r \in Ranks : pc[r] = "done"

Next == \E r \in Ranks : RankStep(r)

Spec == Init /\ [][Next]_vars
================================================================================
