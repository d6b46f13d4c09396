------------------------------- MODULE MessageRing ------------------------------
(* Each thread leaves a message for the next one of the ring and prints the one  *)
(* left for it:                                                                  *)
(*   pthreads-1/message_send_semaphores.c   waits for a semaphore of its own     *)
(*   pthreads-1/message_send.c              spins on its entry of messages[]     *)
(* A message is the rank that wrote it.  Built without optimisation the spin is  *)
(* a load of the pointer, which is stored after the text it points to.           *)
EXTENDS RankSet

CONSTANTS
    NULL,
    Garbage     \* what malloc leaves in an entry of messages[]

VARIABLES
    uses_semaphores,    \* which of the two programs runs
    semaphores,         \* the value of each thread's semaphore
    messages,
    printed,            \* the message each thread has printed
    pc

vars == <<uses_semaphores, semaphores, messages, printed, pc>>

(* write: lines 44-45 (54-56); post: 58; wait: 57 (60); print: 59 (62); done.    *)
Locations == {"write", "post", "wait", "print", "done"}

Pointers == Ranks \cup {NULL, Garbage}

TypeOK ==
    /\ uses_semaphores \in BOOLEAN
    /\ semaphores \in [Ranks -> {0, 1}]
    /\ messages \in [Ranks -> Pointers]
    /\ printed \in [Ranks -> Pointers]
    /\ pc \in [Ranks -> Locations]

(* message_send.c clears messages[] (line 20), message_send_semaphores.c does    *)
(* not.                                                                          *)
Init ==
    /\ uses_semaphores \in BOOLEAN
    /\ semaphores = [r \in Ranks |-> 0]
    /\ messages = [r \in Ranks |-> IF uses_semaphores THEN Garbage ELSE NULL]
    /\ printed = [r \in Ranks |-> NULL]
    /\ pc = [r \in Ranks |-> "write"]

Goto(r, from, to) == pc[r] = from /\ pc' = [pc EXCEPT ![r] = to]

dest(r) == (r + 1) % thread_count

Write(r) ==
    /\ Goto(r, "write", IF uses_semaphores THEN "post" ELSE "wait")
    /\ messages' = [messages EXCEPT ![dest(r)] = r]
    /\ UNCHANGED <<uses_semaphores, semaphores, printed>>

(* A slip, and then the semaphore that is posted.  Operators named for a slip    *)
(* are not part of the model.                                                    *)
PostOwn(r) == semaphores' = [semaphores EXCEPT ![r] = @ + 1]

PostDest(r) == semaphores' = [semaphores EXCEPT ![dest(r)] = @ + 1]

Post(r) ==
    /\ Goto(r, "post", "wait")
    /\ PostDest(r)
    /\ UNCHANGED <<uses_semaphores, messages, printed>>

SemWait(r) ==
    /\ uses_semaphores
    /\ Goto(r, "wait", "print")
    /\ semaphores[r] > 0
    /\ semaphores' = [semaphores EXCEPT ![r] = @ - 1]
    /\ UNCHANGED <<uses_semaphores, messages, printed>>

SpinEnds(r) ==
    /\ ~uses_semaphores
    /\ Goto(r, "wait", "print")
    /\ messages[r] # NULL
    /\ UNCHANGED <<uses_semaphores, semaphores, messages, printed>>

PrintMessage(r) ==
    /\ Goto(r, "print", "done")
    /\ printed' = [printed EXCEPT ![r] = messages[r]]
    /\ UNCHANGED <<uses_semaphores, semaphores, messages>>

ThreadStep(r) ==
    Write(r) \/ Post(r) \/ SemWait(r) \/ SpinEnds(r) \/ PrintMessage(r)

AllDone == \A r \in Ranks : pc[r] = "done"

Joined == AllDone /\ UNCHANGED vars

Next == (\E r \in Ranks : ThreadStep(r)) \/ Joined

Spec == Init /\ [][Next]_vars

(* Whoever is past its wait has a message, the one written for it, and every     *)
(* semaphore is used up at the end (lines 44-62).                                *)
MessagesDelivered ==
    /\ \A r \in Ranks :
          /\ pc[r] \in {"print", "done"} => messages[r] \in Ranks /\ dest(messages[r]) = r
          /\ pc[r] = "done" => printed[r] = messages[r]
    /\ AllDone => \A r \in Ranks : semaphores[r] = 0
================================================================================
