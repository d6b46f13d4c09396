-------------------------------- MODULE Tokenizer -------------------------------
(* Threads take turns to read a line of stdin and split it into words:           *)
(*   pthreads-1/tokenizer_strtok_r.c   strtok_r, a saveptr per thread            *)
(*   pthreads-1/tokenizer_strtok.c     strtok, which keeps its position in one   *)
(*                                     static variable                           *)
(* A ring of semaphores, the first of which is 1, passes the turn on.  A line is *)
(* its number and the number of its words.  Once a thread of the strtok program  *)
(* would go on in a line that is not its own, what it reads is another thread's  *)
(* buffer, which may change or be gone: the model stops there (ForeignLine).     *)
EXTENDS RankSet

CONSTANTS
    Static,     \* the place where strtok keeps its position
    MaxLines,   \* bound on the lines of stdin
    MaxWords    \* bound on the words of a line

VARIABLES
    reentrant,      \* which of the two programs runs
    input,          \* the words of each line of stdin
    lines_read,
    sem,            \* the value of each thread's semaphore
    pc,
    my_line,        \* the line each thread has read last, 0 for fgets' NULL
    count,          \* its count
    saved           \* the position strtok_r or strtok has saved

vars == <<reentrant, input, lines_read, sem, pc, my_line, count, saved>>

(* turn: sem_wait; read: fgets; post: sem_post; loop: the outer while; first,    *)
(* next: the calls of strtok; done.                                              *)
Locations == {"turn", "read", "post", "loop", "first", "next", "done"}

Inputs == UNION {[1 .. n -> 0 .. MaxWords] : n \in 0 .. MaxLines}

Lines == DOMAIN input

Positions == [line : 0 .. MaxLines, word : 0 .. MaxWords]

TypeOK ==
    /\ reentrant \in BOOLEAN
    /\ input \in Inputs
    /\ lines_read \in 0 .. MaxLines
    /\ sem \in [Ranks -> {0, 1}]
    /\ pc \in [Ranks -> Locations]
    /\ my_line \in [Ranks -> 0 .. MaxLines]
    /\ count \in [Ranks -> 0 .. MaxWords]
    /\ saved \in [Ranks \cup {Static} -> Positions]

Init ==
    /\ reentrant \in BOOLEAN
    /\ input \in Inputs
    /\ lines_read = 0
    /\ sem = [r \in Ranks |-> IF r = 0 THEN 1 ELSE 0]
    /\ pc = [r \in Ranks |-> "turn"]
    /\ my_line = [r \in Ranks |-> 0]
    /\ count = [r \in Ranks |-> 0]
    /\ saved = [s \in Ranks \cup {Static} |-> [line |-> 0, word |-> 0]]

Goto(r, from, to) == pc[r] = from /\ pc' = [pc EXCEPT ![r] = to]

WaitTurn(r) ==
    /\ Goto(r, "turn", "read")
    /\ sem[r] > 0
    /\ sem' = [sem EXCEPT ![r] = @ - 1]
    /\ UNCHANGED <<reentrant, input, lines_read, my_line, count, saved>>

(* fgets: the next line, or NULL at the end of stdin. *)
ReadLine(r) ==
    /\ Goto(r, "read", "post")
    /\ IF lines_read + 1 \in Lines
       THEN /\ lines_read' = lines_read + 1
            /\ my_line' = [my_line EXCEPT ![r] = lines_read + 1]
       ELSE /\ my_line' = [my_line EXCEPT ![r] = 0]
            /\ UNCHANGED lines_read
    /\ UNCHANGED <<reentrant, input, sem, count, saved>>

(* Operators named for a slip are not part of the model: each is what a          *)
(* plausible mistake would make of the operator after it, and the README says    *)
(* which property notices.                                                       *)
PassOnUnlessAtEnd(r) ==
    IF my_line[r] = 0 THEN UNCHANGED sem
    ELSE sem' = [sem EXCEPT ![(r + 1) % thread_count] = @ + 1]

PassOn(r) == sem' = [sem EXCEPT ![(r + 1) % thread_count] = @ + 1]

PostNext(r) ==
    /\ Goto(r, "post", "loop")
    /\ PassOn(r)
    /\ UNCHANGED <<reentrant, input, lines_read, my_line, count, saved>>

StartLine(r) ==
    /\ my_line[r] # 0
    /\ Goto(r, "loop", "first")
    /\ count' = [count EXCEPT ![r] = 0]
    /\ UNCHANGED <<reentrant, input, lines_read, sem, my_line, saved>>

AtEnd(r) ==
    /\ my_line[r] = 0
    /\ Goto(r, "loop", "done")
    /\ UNCHANGED <<reentrant, input, lines_read, sem, my_line, count, saved>>

SharedSaveptr(r) == Static

(* Where the position of thread r is kept between two calls. *)
Saveptr(r) == IF reentrant THEN r ELSE Static

(* What a call of strtok does, from the position `from' of one line: save the    *)
(* position after the word it returns, or return NULL, which ends the inner      *)
(* loop.                                                                         *)
Tokenize(r, from) ==
    IF from.word < input[from.line]
    THEN /\ pc' = [pc EXCEPT ![r] = "next"]
         /\ saved' = [saved EXCEPT ![Saveptr(r)] = [from EXCEPT !.word = @ + 1]]
         /\ count' = [count EXCEPT ![r] = @ + 1]
    ELSE /\ pc' = [pc EXCEPT ![r] = "turn"]
         /\ saved' = [saved EXCEPT ![Saveptr(r)] = from]
         /\ UNCHANGED count

FirstWord(r) ==
    /\ pc[r] = "first"
    /\ Tokenize(r, [line |-> my_line[r], word |-> 0])
    /\ UNCHANGED <<reentrant, input, lines_read, sem, my_line>>

OwnLine(r) == saved[Saveptr(r)].line = my_line[r]

NextWord(r) ==
    /\ pc[r] = "next"
    /\ OwnLine(r)
    /\ Tokenize(r, saved[Saveptr(r)])
    /\ UNCHANGED <<reentrant, input, lines_read, sem, my_line>>

ThreadStep(r) ==
    \/ WaitTurn(r) \/ ReadLine(r) \/ PostNext(r) \/ StartLine(r) \/ AtEnd(r)
    \/ FirstWord(r) \/ NextWord(r)

AllDone == \A r \in Ranks : pc[r] = "done"

Joined == AllDone /\ UNCHANGED vars

Foreign == \E r \in Ranks : pc[r] = "next" /\ ~OwnLine(r)

(* A thread reads on in another's line: from here on anything may happen. *)
ForeignLine == Foreign /\ UNCHANGED vars

Next == (~Foreign /\ \E r \in Ranks : ThreadStep(r)) \/ Joined \/ ForeignLine

Spec == Init /\ [][Next]_vars

(* One thread at a time is between its sem_wait and its sem_post, and line k is  *)
(* read by the k-th thread in the ring's order; and with strtok_r every line is  *)
(* split into all its words, and no others, by the thread that read it, whatever *)
(* the others do meanwhile (lines 70-91).                                        *)
LinesInTurn ==
    /\ \A r, u \in Ranks :
          r # u => ~(pc[r] \in {"read", "post"} /\ pc[u] \in {"read", "post"})
    /\ \A r \in Ranks : my_line[r] # 0 => (my_line[r] - 1) % thread_count = r

WordsComplete ==
    reentrant =>
        /\ ~Foreign
        /\ \A r \in Ranks :
              pc[r] = "turn" /\ my_line[r] # 0 => count[r] = input[my_line[r]]
================================================================================
