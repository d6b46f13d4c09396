------------------------------- MODULE SharedSet -------------------------------
(* What the shared sorted list promises its callers: a set of keys on which     *)
(* each call of Member, Insert and Delete takes effect at one instant between   *)
(* its call and its return, and returns what a set would answer at that instant *)
(* ("If value is not in list, return 1, else return 0" for Insert, and so on:   *)
(* pth_ll_rwl.c:152-153,217-218).                                               *)
CONSTANTS Procs, Keys

VARIABLES
    keys,       \* the set
    pending     \* what each process is waiting for: a call, an answer or nothing

setVars == <<keys, pending>>

Idle == [kind |-> "idle"]
Call(op, k) == [kind |-> "call", op |-> op, key |-> k]
Answer(rv) == [kind |-> "answer", rv |-> rv]

SetInit ==
    /\ keys = {}
    /\ pending = [p \in Procs |-> Idle]

Invoke(p, op, k) ==
    /\ pending[p] = Idle
    /\ pending' = [pending EXCEPT ![p] = Call(op, k)]
    /\ UNCHANGED keys

DoMember(p, k) ==
    /\ pending[p] = Call("member", k)
    /\ pending' = [pending EXCEPT ![p] = Answer(k \in keys)]
    /\ UNCHANGED keys

DoInsert(p, k) ==
    /\ pending[p] = Call("insert", k)
    /\ pending' = [pending EXCEPT ![p] = Answer(k \notin keys)]
    /\ keys' = keys \cup {k}

DoDelete(p, k) ==
    /\ pending[p] = Call("delete", k)
    /\ pending' = [pending EXCEPT ![p] = Answer(k \in keys)]
    /\ keys' = keys \ {k}

Return(p) ==
    /\ \E rv \in BOOLEAN : pending[p] = Answer(rv)
    /\ pending' = [pending EXCEPT ![p] = Idle]
    /\ UNCHANGED keys

(* The program is over: Free_list gives the whole set back. *)
Discard ==
    /\ \A p \in Procs : pending[p] = Idle
    /\ keys' = {}
    /\ UNCHANGED pending

SetNext ==
    \/ \E p \in Procs, k \in Keys :
          \/ \E op \in {"member", "insert", "delete"} : Invoke(p, op, k)
          \/ DoMember(p, k) \/ DoInsert(p, k) \/ DoDelete(p, k)
    \/ \E p \in Procs : Return(p)
    \/ Discard

SetSpec == SetInit /\ [][SetNext]_setVars
================================================================================
