--------------------------------- MODULE Shares ---------------------------------
(* The programs that split a sum or an integral among p threads or processes and *)
(* put the parts together again, one of them at a time.  A series is its terms   *)
(* 0 .. n-1; the trapezoidal rule on n intervals is its points 0 .. n, each with *)
(* its weight in halves of f.  What a program has summed is how often each term, *)
(* or half of f, is in the sum.                                                  *)
EXTENDS Integers, FiniteSetsExt

CONSTANTS
    MaxTerms,   \* bound on n, which the programs fix or read
    MaxRanks    \* bound on p, from the command line

VARIABLES
    program,    \* which program runs
    n, p,
    team,       \* how many threads or processes run
    total,      \* sum, global_result, result, final_result
    loaded,     \* what sum += my_sum has read and not yet written back; in a
                \* reduction the thread's copy of the variable, and of collective
                \* total_int_all_reduce
    c,          \* the c that collective broadcasts
    mutex,      \* the owner of the mutex or of the critical section
    flag,       \* whose turn it is to add
    sent,       \* the ranks whose part is on its way to rank 0, or reduced
    next,       \* whom rank 0 receives from next, or the next iteration of a loop
    pc

vars == <<program, n, p, team, total, loaded, c, mutex, flag, sent, next, pc>>

(* How the programs divide the work, what they add, and how they combine it (of  *)
(* a maximum, total counts what it has been taken over).                         *)
pi_busy_waiting    == [share |-> "even", adds |-> "terms", how |-> "turn"]
pi_mutex_lock      == [share |-> "even", adds |-> "terms", how |-> "lock"]
monte_carlo        == [share |-> "even", adds |-> "terms", how |-> "lock"]
trapezoid_omp      == [share |-> "even", adds |-> "trapezoids", how |-> "lock"]
task2_pthreads     == [share |-> "last_takes_rest", adds |-> "terms", how |-> "lock"]
task2_omp          == [share |-> "last_asked_takes_rest", adds |-> "terms",
                       how |-> "lock"]
task2_mpi          == [share |-> "last_takes_rest", adds |-> "terms", how |-> "reduce"]
exercise_q_2       == [share |-> "one_more", adds |-> "trapezoids", how |-> "receive"]
mpi_trapezoid      == [share |-> "even", adds |-> "ends", how |-> "receive"]
collective         == [share |-> "even", adds |-> "ends", how |-> "reduce"]
sum_elements       == [share |-> "even", adds |-> "terms", how |-> "reduce"]
global_max         == [share |-> "even", adds |-> "terms", how |-> "reduce"]
greetings          == [share |-> "one_each", adds |-> "terms", how |-> "receive"]
pi_reduction       == [share |-> "any", adds |-> "terms", how |-> "loop"]
parallel_for       == [share |-> "any", adds |-> "trapezoids", how |-> "loop"]

Programs == {pi_busy_waiting, pi_mutex_lock, monte_carlo, trapezoid_omp,
             task2_pthreads, task2_omp, task2_mpi, exercise_q_2, mpi_trapezoid,
             collective, sum_elements, global_max, greetings, pi_reduction,
             parallel_for}

Ranks == 0 .. team - 1
Nobody == -1
Unset == 0      \* in c, whatever an uninitialized int holds
Points == 0 .. MaxTerms

Sums == [Points -> 0 .. 2 * (MaxRanks + 1)]

Locations == {"combine", "adding", "hand_on", "bcast", "allreduce", "done"}

TypeOK ==
    /\ program \in Programs
    /\ n \in 0 .. MaxTerms /\ p \in 1 .. MaxRanks /\ team \in 1 .. p
    /\ total \in Sums
    /\ loaded \in [Ranks -> Sums]
    /\ c \in [Ranks -> {Unset, 2}]
    /\ mutex \in Ranks \cup {Nobody}
    /\ flag \in Ranks
    /\ sent \subseteq Ranks
    /\ next \in 0 .. MaxTerms + MaxRanks
    /\ pc \in [Ranks -> Locations]

--------------------------------------------------------------------------------
(* The shares *)

my_n == n \div p

(* exercise_q_2: the first n % p ranks take one more, and the others start as    *)
(* much later.                                                                   *)
OneMore(r) ==
    LET remaining == n % p
        offset == IF r < remaining THEN r ELSE remaining
        first == r * my_n + offset
    IN  [first |-> first, last |-> first + my_n + IF r < remaining THEN 1 ELSE 0]

(* The programs of Task 2: the last rank goes on to the end.  omp.c divides by,   *)
(* and leaves the rest to the last of, the threads it has asked for.             *)
LastTakesRest(r) ==
    [first |-> my_n * r, last |-> IF r = p - 1 THEN n ELSE my_n * r + my_n]

(* The others, and what MPI_Scatter gives each rank of sum_elements, global_max;  *)
(* Greetings.c has one term for each rank.                                       *)
Even(r) == [first |-> my_n * r, last |-> my_n * r + my_n]

Share(r) ==
    CASE program.share = "one_more" -> OneMore(r)
      [] program.share \in {"last_takes_rest", "last_asked_takes_rest"} -> LastTakesRest(r)
      [] OTHER -> Even(r)

one(b) == IF b THEN 1 ELSE 0

(* What a rank's loop over its share sums; also when the share is empty, the     *)
(* trapezoidal rule adds both its ends.  The Trapezoidal_Area of mpi-1 adds x    *)
(* instead of f(x) between the ends.                                             *)
my_sum(r) ==
    LET s == Share(r) IN
    [k \in Points |->
        CASE program.adds = "terms" -> one(s.first <= k /\ k < s.last)
          [] program.adds = "trapezoids" ->
                one(k = s.first) + one(k = s.last) + 2 * one(s.first < k /\ k < s.last)
          [] program.adds = "ends" -> one(k = s.first) + one(k = s.last)]

Plus(f, g) == [k \in Points |-> f[k] + g[k]]

Zero == [k \in Points |-> 0]

--------------------------------------------------------------------------------

(* An OpenMP loop starts from what its reduction variable holds: 0, or the two   *)
(* ends of the integral.                                                         *)
Ends == [k \in Points |-> one(k = 0) + one(k = n)]

(* The number of terms is a constant of most programs, and never 0 where it is   *)
(* the number of intervals.  OpenMP may run a region with fewer threads than     *)
(* asked for: p is how many there are where the shares are made from             *)
(* omp_get_num_threads (pthreads-2/trapezoid.c:33) or by the runtime, and how    *)
(* many the program has asked for in task2_omp (omp.c:35).                       *)
Init ==
    /\ program \in Programs
    /\ n \in 0 .. MaxTerms
    /\ p \in 1 .. MaxRanks
    /\ team \in 1 .. p
    /\ program # task2_omp => team = p
    /\ program.share = "one_each" => n = p
    /\ program.adds # "terms" => n > 0
    /\ total = CASE program.how = "receive" -> my_sum(0)
                 [] program = parallel_for -> Ends
                 [] OTHER -> Zero
    /\ loaded = [r \in Ranks |-> Zero]
    /\ c = [r \in Ranks |-> Unset]
    /\ mutex = Nobody
    /\ flag = 0
    /\ sent = {}
    /\ next = IF program = pi_reduction THEN 0 ELSE 1
    /\ pc = [r \in Ranks |-> "combine"]

Goto(r, from, to) == pc[r] = from /\ pc' = [pc EXCEPT ![r] = to]

(* Operators named for a slip are not part of the model: each is what a          *)
(* plausible mistake would make of the operator after it, and the README says    *)
(* which property notices.                                                       *)
Unlocked(r) == UNCHANGED mutex

Locked(r) == mutex = Nobody /\ mutex' = r

LoadLocked(r) ==
    /\ program.how = "lock"
    /\ Goto(r, "combine", "adding")
    /\ Locked(r)
    /\ loaded' = [loaded EXCEPT ![r] = total]
    /\ UNCHANGED <<program, n, p, team, total, c, flag, sent, next>>

StoreLocked(r) ==
    /\ program.how = "lock"
    /\ Goto(r, "adding", "done")
    /\ total' = Plus(loaded[r], my_sum(r))
    /\ mutex' = Nobody
    /\ UNCHANGED <<program, n, p, team, loaded, c, flag, sent, next>>

LoadInTurn(r) ==
    /\ program.how = "turn"
    /\ flag = r
    /\ Goto(r, "combine", "adding")
    /\ loaded' = [loaded EXCEPT ![r] = total]
    /\ UNCHANGED <<program, n, p, team, total, c, mutex, flag, sent, next>>

StoreInTurn(r) ==
    /\ program.how = "turn"
    /\ Goto(r, "adding", "hand_on")
    /\ total' = Plus(loaded[r], my_sum(r))
    /\ UNCHANGED <<program, n, p, team, loaded, c, mutex, flag, sent, next>>

NextFlagUnwrapped == flag + 1

NextFlag == (flag + 1) % p

HandOn(r) ==
    /\ Goto(r, "hand_on", "done")
    /\ flag' = NextFlag
    /\ UNCHANGED <<program, n, p, team, total, loaded, c, mutex, sent, next>>

(* The iterations of `omp parallel for', 0 .. n-1 or 1 .. n-1.  Any thread gets   *)
(* any iteration, whatever the schedule; each adds to its own copy of the sum.   *)
Iterate(r) ==
    /\ program.how = "loop"
    /\ pc[r] = "combine"
    /\ next < n
    /\ loaded' = [loaded EXCEPT ![r][next] = IF program.adds = "terms" THEN 1 ELSE 2]
    /\ next' = next + 1
    /\ UNCHANGED <<program, n, p, team, total, c, mutex, flag, sent, pc>>

(* The runtime adds the copy of a thread that has no more iterations. *)
Combine(r) ==
    /\ program.how = "loop"
    /\ next >= n
    /\ Goto(r, "combine", "done")
    /\ total' = Plus(total, loaded[r])
    /\ UNCHANGED <<program, n, p, team, loaded, c, mutex, flag, sent, next>>

(* Collective_Communication.c goes on after its MPI_Reduce. *)
AfterReduce == IF program = collective THEN "bcast" ELSE "done"

(* MPI_Send to rank 0, or a rank's part in MPI_Reduce. *)
Send(r) ==
    /\ program.how \in {"receive", "reduce"}
    /\ r # 0
    /\ Goto(r, "combine", AfterReduce)
    /\ sent' = sent \cup {r}
    /\ UNCHANGED <<program, n, p, team, total, loaded, c, mutex, flag, next>>

(* Rank 0 receives from one rank after the other. *)
Receive ==
    LET i == next IN
    /\ program.how = "receive"
    /\ pc[0] = "combine"
    /\ i < p
    /\ i \in sent
    /\ total' = Plus(total, my_sum(i))
    /\ next' = i + 1
    /\ UNCHANGED <<program, n, p, team, loaded, c, mutex, flag, sent, pc>>

ReceivedAll ==
    /\ program.how = "receive"
    /\ next = p
    /\ Goto(0, "combine", "done")
    /\ UNCHANGED <<program, n, p, team, total, loaded, c, mutex, flag, sent, next>>

(* What a reduction makes of the parts of some ranks. *)
Reduced(S) == [k \in Points |-> MapThenSumSet(LAMBDA r : my_sum(r)[k], S)]

(* MPI_Reduce at its root, which needs the part of every rank. *)
Reduce ==
    /\ program.how = "reduce"
    /\ sent = Ranks \ {0}
    /\ Goto(0, "combine", AfterReduce)
    /\ total' = Reduced(sent \cup {0})
    /\ c' = IF program = collective THEN [c EXCEPT ![0] = 2] ELSE c
    /\ UNCHANGED <<program, n, p, team, loaded, mutex, flag, sent, next>>

Joined == {r \in Ranks : pc[r] \in {"allreduce", "done"}}

(* A slip (no part of the model), and then the root's part in MPI_Bcast, which   *)
(* the root itself does not wait for.                                            *)
Unawaited(r) == TRUE

FromRoot(r) == r # 0 => 0 \in Joined

(* A rank leaves MPI_Bcast with the c of rank 0 and joins MPI_Allreduce. *)
Bcast(r) ==
    /\ FromRoot(r)
    /\ Goto(r, "bcast", "allreduce")
    /\ c' = [c EXCEPT ![r] = c[0]]
    /\ UNCHANGED <<program, n, p, team, total, loaded, mutex, flag, sent, next>>

(* A rank leaves MPI_Allreduce, which needs the part of every rank. *)
Allreduce(r) ==
    /\ Joined = Ranks
    /\ Goto(r, "allreduce", "done")
    /\ loaded' = [loaded EXCEPT ![r] = Reduced(Joined)]
    /\ UNCHANGED <<program, n, p, team, total, c, mutex, flag, sent, next>>

RankStep(r) ==
    \/ LoadLocked(r) \/ StoreLocked(r)
    \/ LoadInTurn(r) \/ StoreInTurn(r) \/ HandOn(r)
    \/ Iterate(r) \/ Combine(r) \/ Send(r) \/ Bcast(r) \/ Allreduce(r)

RootStep == Receive \/ ReceivedAll \/ Reduce

AllDone == \A r \in Ranks : pc[r] = "done"

Finished == AllDone /\ UNCHANGED vars

Next == (\E r \in Ranks : RankStep(r)) \/ RootStep \/ Finished

Spec == Init /\ [][Next]_vars

--------------------------------------------------------------------------------

(* How far the shares of all ranks reach, and how many ranks have nothing to do. *)
reach == IF program.share = "even" \/ team < p THEN team * my_n ELSE n

idle ==
    CASE program.share = "any" -> 0
      [] program.share = "one_more" -> IF n < p THEN p - n ELSE 0
      [] OTHER -> IF n < p THEN p ELSE 0

(* The same sum by one thread, over what the shares reach. *)
Reference(k) ==
    CASE program.adds = "terms" -> one(k < reach)
      [] program.adds = "trapezoids" ->
            IF reach = 0 THEN 0
            ELSE one(k = 0) + one(k = reach) + 2 * one(0 < k /\ k < reach)
      [] program.adds = "ends" ->
            IF reach = 0 THEN 0
            ELSE one(k = 0) + one(k = reach)
                 + 2 * one(0 < k /\ k < reach /\ k % my_n = 0)

(* The sum is the reference sum, and f at both ends of nothing for each idle rank. *)
Exact(sum) ==
    \A k \in Points :
        sum[k] = Reference(k)
                 + IF program.adds # "terms" /\ k = reach THEN 2 * idle ELSE 0

(* However the threads are scheduled and whoever takes the remainder, every term *)
(* the shares reach is in the result once: no share overlaps or misses another,  *)
(* and no addition is lost.  The programs with even shares stop short of n by    *)
(* the remainder (pi_busy_waiting.c:39), Task 2/omp.c by the shares and the      *)
(* remainder of the threads it has asked for and not been given (omp.c:35, 40),  *)
(* a rank without intervals adds f at both ends of nothing (exercise_q_2.c:55),  *)
(* and the integrals of mpi-1 hold f only at the ends of the shares              *)
(* (Trapezoid.c:56).  All ranks of Collective_Communication.c end with the same  *)
(* total and the same c, though each may run ahead of the others between its     *)
(* three collectives.                                                            *)
SumExact ==
    AllDone =>
        /\ Exact(total)
        /\ program = collective => \A r \in Ranks : c[r] = 2 /\ Exact(loaded[r])
================================================================================
