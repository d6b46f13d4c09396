------------------------------- MODULE Handshakes -------------------------------
(* The programs of pthreads-1 in which threads wait for each other with          *)
(* semaphores or by spinning, one of them at a time: `program' says which, and   *)
(* the variables of the others stay as they are initially.                       *)
EXTENDS RankSet

CONSTANTS
    NULL, Garbage,          \* of MessageRing
    Static,                 \* of Tokenizer
    MaxLines, MaxWords

ASSUME ValuesAssumption ==
    /\ {NULL, Garbage, Static} \cap Ranks = {} /\ NULL # Garbage
    /\ MaxLines \in Nat /\ MaxWords \in Nat

VARIABLES
    program,
    count_sem, barrier_sem, sem_counter, sem_pc, j,             \* SemBarrier
    barrier_mutex, spin_counter, flag, loaded, spin_pc,         \* SpinBarrier
    uses_semaphores, semaphores, messages, printed, ring_pc,    \* MessageRing
    reentrant, input, lines_read, sem, tok_pc, my_line, count, saved  \* Tokenizer

SB == INSTANCE SemBarrier WITH counter <- sem_counter, pc <- sem_pc
SP == INSTANCE SpinBarrier WITH counter <- spin_counter, pc <- spin_pc
MR == INSTANCE MessageRing WITH pc <- ring_pc
TK == INSTANCE Tokenizer WITH pc <- tok_pc

semVars == <<count_sem, barrier_sem, sem_counter, sem_pc, j>>
spinVars == <<barrier_mutex, spin_counter, flag, loaded, spin_pc>>
ringVars == <<uses_semaphores, semaphores, messages, printed, ring_pc>>
tokVars == <<reentrant, input, lines_read, sem, tok_pc, my_line, count, saved>>
vars == <<program, semVars, spinVars, ringVars, tokVars>>

Init ==
    /\ program \in {"sem barrier", "spin barrier", "ring", "tokenizer"}
    /\ SB!Init /\ SP!Init /\ MR!Init /\ TK!Init
    /\ program # "ring" => uses_semaphores
    /\ program # "tokenizer" => reentrant /\ input = <<>>

SemBarrierStep ==
    /\ program = "sem barrier"
    /\ SB!Next
    /\ UNCHANGED <<program, spinVars, ringVars, tokVars>>

SpinBarrierStep ==
    /\ program = "spin barrier"
    /\ SP!Next
    /\ UNCHANGED <<program, semVars, ringVars, tokVars>>

RingStep ==
    /\ program = "ring"
    /\ MR!Next
    /\ UNCHANGED <<program, semVars, spinVars, tokVars>>

TokenizerStep ==
    /\ program = "tokenizer"
    /\ TK!Next
    /\ UNCHANGED <<program, semVars, spinVars, ringVars>>

Next == SemBarrierStep \/ SpinBarrierStep \/ RingStep \/ TokenizerStep

(* Every thread that can run is run, a spinning one included. *)
Fairness ==
    \A r \in Ranks :
        /\ WF_vars(SemBarrierStep /\ SB!ThreadStep(r))
        /\ WF_vars(SpinBarrierStep /\ SP!ThreadStep(r))
        /\ WF_vars(RingStep /\ MR!ThreadStep(r))
        /\ WF_vars(TokenizerStep /\ TK!ThreadStep(r))

FairSpec == Init /\ [][Next]_vars /\ Fairness

--------------------------------------------------------------------------------

(* The type invariants of the four modules; of the semaphore barrier's it says   *)
(* that no post is left over or missing, as barrier_sem stays in its range.      *)
TypeOK == SB!TypeOK /\ SP!TypeOK /\ MR!TypeOK /\ TK!TypeOK

(* The semaphores of barrier_semaphores.c and the spin of                        *)
(* barrier_busy_waiting_mutex.c each make a barrier: nobody passes before        *)
(* everybody has arrived.                                                        *)
BarriersHold == SB!ImplementsBarrier /\ SP!ImplementsBarrier

(* Every message of the rings reaches the thread it was written for, whichever   *)
(* way that thread waits for it (message_send.c, message_send_semaphores.c); on  *)
(* the way every variable has its type.                                          *)
MessagesDelivered == TypeOK /\ MR!MessagesDelivered

(* The turns of barrier_busy_waiting_mutex.c (flag) and of the tokenizers (the   *)
(* ring of semaphores) go round the threads one at a time and in order, and a    *)
(* line read in turn is split completely by strtok_r.                            *)
TurnsTaken == SP!ActivatedInTurn /\ TK!LinesInTurn /\ TK!WordsComplete

(* Every program ends: no thread spins or sleeps for ever, the tokenizers'       *)
(* included, which must all learn of the end of stdin.  Of the strtok program    *)
(* this is said only while it stays defined.                                     *)
Termination ==
    <>(\/ program = "sem barrier" /\ SB!AllDone
       \/ program = "spin barrier" /\ SP!AllDone
       \/ program = "ring" /\ MR!AllDone
       \/ program = "tokenizer" /\ (TK!AllDone \/ TK!Foreign))
================================================================================
