--------------------------- MODULE CondBarrierSpurious --------------------------
(* The barriers of CondBarrier when pthread_cond_wait may also return without a  *)
(* broadcast, as POSIX allows: it returns 0 then too, so the while loop around   *)
(* it (pth_cond_bar.c:113, barrier_condition_variables.c:45) ends.               *)
EXTENDS CondBarrier

SpuriousWakeup(t) ==
    /\ t \in ok_to_proceed
    /\ ok_to_proceed' = ok_to_proceed \ {t}
    /\ UNCHANGED <<reusable, barrier_mutex, barrier_thread_count, pc, i>>

SpuriousSpec ==
    Init /\ [][Next \/ \E t \in Threads : SpuriousWakeup(t)]_vars

(* "Put wait in while loop in case some other event awakens thread"              *)
(* (pth_cond_bar.c:111-112): a thread leaves the loop only when everybody has    *)
(* arrived at its barrier.                                                       *)
LoopAbsorbsOtherEvents ==
    [][\A t \in Threads :
          pc[t] = "wait" /\ pc'[t] = "out"
             => \A u \in Threads : Arrived(u) >= Arrived(t)]_vars
================================================================================
