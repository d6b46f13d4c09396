------------------------------- MODULE OddEvenSort ------------------------------
(* pthreads-2/sort_sol2.c: odd-even transposition by a team of OpenMP threads.   *)
(* Every thread runs the loop over the phases; the iterations of a phase are     *)
(* divided among the threads, in whatever way the OpenMP runtime chooses, and at *)
(* the end of each `omp for' the threads wait for each other.  sort_sol1.c forks *)
(* and joins a team in each phase, which is the same barrier.                    *)
EXTENDS Integers, FiniteSets

CONSTANTS
    Workers,        \* the threads of the team
    MaxLength,      \* bound on the length of the other arrays tried
    TestValues      \* the integers they hold

VARIABLES
    input,
    a,
    phase,          \* each thread's phase
    todo,           \* the iterations of each phase that no thread has taken
    i, temp,        \* in an exchange: each thread's iteration and temporary
    pc

vars == <<input, a, phase, todo, i, temp, pc>>

(* The array of the program, and every array of TestValues up to MaxLength.      *)
ProgramArray == [k \in 0 .. 9 |-> <<6, 9, 1, 5, 8, 10, 2, 4, 7, 3>>[k + 1]]

Arrays == {ProgramArray} \cup UNION {[0 .. m - 1 -> TestValues] : m \in 1 .. MaxLength}

Indexes == DOMAIN input

n == Cardinality(Indexes)

Values == {input[k] : k \in Indexes}

(* for: at an `omp for'; first, second: in an iteration, before its first and    *)
(* its second write of a; barrier: at the end of the `omp for'; done.            *)
Locations == {"for", "first", "second", "barrier", "done"}

TypeOK ==
    /\ input \in Arrays
    /\ a \in [Indexes -> Values]
    /\ phase \in [Workers -> 0 .. n]
    /\ todo \in [0 .. n - 1 -> SUBSET Indexes]
    /\ i \in [Workers -> Indexes \cup {0}]
    /\ temp \in [Workers -> Values]
    /\ pc \in [Workers -> Locations]

--------------------------------------------------------------------------------

(* for(i = 1; i < n; i += 2), in an odd phase for(i = 1; i < n - 1; i += 2) *)
Iterations(ph) == {k \in Indexes : k % 2 = 1 /\ k < (IF ph % 2 = 0 THEN n ELSE n - 1)}

(* The place an iteration keeps in temp, and the other one of its pair. *)
Kept(ph, k) == IF ph % 2 = 0 THEN k - 1 ELSE k + 1

Lower(ph, k) == IF ph % 2 = 0 THEN k - 1 ELSE k

Init ==
    /\ input \in Arrays
    /\ a = input
    /\ phase = [t \in Workers |-> 0]
    /\ todo = [ph \in 0 .. n - 1 |-> Iterations(ph)]
    /\ i = [t \in Workers |-> 0]
    /\ temp = [t \in Workers |-> input[0]]
    /\ pc = [t \in Workers |-> "for"]

Goto(t, from, to) == pc[t] = from /\ pc' = [pc EXCEPT ![t] = to]

(* An iteration nobody has taken, up to its test; a pair in order ends it. *)
TestPair(t) ==
    /\ pc[t] = "for"
    /\ \E k \in todo[phase[t]] :
          LET low == Lower(phase[t], k)
              kept == Kept(phase[t], k)
          IN  /\ todo' = [todo EXCEPT ![phase[t]] = @ \ {k}]
              /\ IF a[low] > a[low + 1]
                 THEN /\ pc' = [pc EXCEPT ![t] = "first"]
                      /\ i' = [i EXCEPT ![t] = k]
                      /\ temp' = [temp EXCEPT ![t] = a[kept]]
                 ELSE UNCHANGED <<pc, i, temp>>
    /\ UNCHANGED <<input, a, phase>>

FirstWrite(t) ==
    /\ Goto(t, "first", "second")
    /\ a' = [a EXCEPT ![Kept(phase[t], i[t])] = a[i[t]]]
    /\ UNCHANGED <<input, phase, todo, i, temp>>

(* i and temp are not read after this: they get their initial values back. *)
SecondWrite(t) ==
    /\ Goto(t, "second", "for")
    /\ a' = [a EXCEPT ![i[t]] = temp[t]]
    /\ i' = [i EXCEPT ![t] = 0]
    /\ temp' = [temp EXCEPT ![t] = input[0]]
    /\ UNCHANGED <<input, phase, todo>>

Arrive(t) ==
    /\ Goto(t, "for", "barrier")
    /\ todo[phase[t]] = {}
    /\ UNCHANGED <<input, a, phase, todo, i, temp>>

(* Operators named for a slip are not part of the model: each is what a          *)
(* plausible mistake would make of the operator after it, and the README says    *)
(* which property notices.                                                       *)
NoWait(t) == TRUE

AllArrived(t) ==
    \A u \in Workers : phase[u] > phase[t] \/ (phase[u] = phase[t] /\ pc[u] = "barrier")

LastPhaseMissing(ph) == ph < n - 1

MorePhases(ph) == ph < n

NextPhase(t) ==
    /\ AllArrived(t)
    /\ Goto(t, "barrier", IF MorePhases(phase[t] + 1) THEN "for" ELSE "done")
    /\ phase' = [phase EXCEPT ![t] = @ + 1]
    /\ UNCHANGED <<input, a, todo, i, temp>>

ThreadStep(t) ==
    \/ TestPair(t) \/ FirstWrite(t) \/ SecondWrite(t)
    \/ Arrive(t) \/ NextPhase(t)

AllDone == \A t \in Workers : pc[t] = "done"

Printed == AllDone /\ UNCHANGED vars

Next == (\E t \in Workers : ThreadStep(t)) \/ Printed

Spec == Init /\ [][Next]_vars

--------------------------------------------------------------------------------

(* How often v is in the array, the second element of an exchange counted from   *)
(* temp once the first write has overwritten it.                                 *)
Occurrences(v) ==
    LET half_done == {t \in Workers : pc[t] = "second"}
    IN  Cardinality({k \in Indexes : a[k] = v})
        + Cardinality({t \in half_done : temp[t] = v})
        - Cardinality({t \in half_done : a[i[t]] = v})

(* Whatever the order of the threads' reads and writes, no element is lost or    *)
(* doubled, also between the two writes of an exchange, and n phases leave the   *)
(* array sorted (lines 15-44).                                                   *)
Sorted ==
    /\ \A v \in Values : Occurrences(v) = Cardinality({k \in Indexes : input[k] = v})
    /\ AllDone => \A k \in Indexes \ {0} : a[k - 1] <= a[k]
================================================================================
