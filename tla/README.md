# Verification of the parallel programs

This directory models the programs of the repository in TLA+, checks them
with TLC on small instances and proves the main safety results for every value
of the constants with TLAPS. The repository is a collection of small programs
(Pthreads, OpenMP, MPI, CUDA). The largest modules are about those whose threads share
state and block on each other, because that is where a test says least; the
others share modules by what they have in common.

Paths below are relative to the repository root (`src/`).

## 1. Inventory

| Component | Files | State | Operations | How the parts interact |
|---|---|---|---|---|
| Hand-written read-write lock | `Assignment 03/program_6_.c` 24-81, `custom_rwl.c` | a mutex, two condition variables, `readers`, `writers`, `waiting_writers`, the mode | `rwlock_init/rdlock/wrlock/unlock` | called by every operation of the list in `program_6_.c` |
| Sorted list under a read-write lock | `Assignment 03/pth_ll_rwl.c` (and the same list in `program_6_.c`) | heap of nodes, `head`, the lock, `count_mutex`, three totals | `Insert`, `Member`, `Delete`, `Free_list`, `Thread_work`, `main` | threads share the list under the lock and the totals under `count_mutex`; `main` fills the list before, and frees it after, the threads |
| Condition-variable barriers | `Assignment 03/pth_cond_bar.c`, `pthreads-1/barrier_condition_variables.c` | a mutex, a condition variable, a counter | one `Thread_work` | all threads meet `BARRIER_COUNT` times, or once |
| Pthreads barrier loop | `Assignment 03/pth_cond_bar_pthreads.c` | `pthread_barrier_t` | `pthread_barrier_wait` in a loop | as above, the barrier is the library's |
| List with `delete_node` | `pthreads-1/linked_list_r_w_locks.c` | heap, `head`, a read-write lock | `insert_at_end`, `delete_node` (`member` and `delete_list` are never called) | threads, then `main`, delete one value |
| Hand-over-hand search | `pthreads-1/linked_list_sol2.c` | one mutex per node | `member` | threads follow each other along the list |
| Semaphore barrier | `pthreads-1/barrier_semaphores.c` | two semaphores, a counter | `thread_work` | last thread posts for all others |
| Spinning barrier, activation ring | `pthreads-1/barrier_busy_waiting_mutex.c` | a mutex, a counter, `flag` | `thread_work` | threads spin on a counter, then pass a token |
| Message rings | `pthreads-1/message_send.c`, `message_send_semaphores.c` | `messages[]`, semaphores | `send_message` | thread r leaves a message for r+1 |
| Tokenizers | `pthreads-1/tokenizer_strtok.c`, `tokenizer_strtok_r.c` | a ring of semaphores around `fgets`, the static state of `strtok` | `Tokenizer` | threads take turns to read a line |
| Pi with threads | `pthreads-1/pi_*.c`, `Assignment 03/program_2.c`, `Assignment 04/Task 2/{pthreads,omp}.c` | a sum, a mutex or a spinning token | partial sums | partition, then accumulation |
| Matrix products | `pthreads-1/matrix_vector_multiplication.c`, `Assignment 04/Task 1/{pthreads,omp}.c` | matrices as flat arrays | fill, transpose, multiply, by rows | phases kept apart by joining all threads |
| OpenMP loops | `pthreads-2/{trapezoid,trapezoid_parallel_for,pi,scheduling,hello}.c` | a sum | loop iterations | critical section or reduction |
| Odd-even sort | `pthreads-2/sort_sol1.c`, `sort_sol2.c` | an array | phases of compare-exchange | barrier at the end of each phase |
| MPI ping-pong | `Assignment 02/programming_q_7_*.c` | messages in flight | send and receive | rank 0 with rank 1 |
| MPI block/cyclic | `Assignment 02/programming_q_9.c` | a block per rank | `MPI_Sendrecv` with a computed partner | every pair of ranks |
| MPI partitions and collectives | `Assignment 02/exercise_q_2.c`, `Assignment 04/*/mpi.c`, most of `mpi-1` | shares, arrays of each rank | scatter, gather, broadcast, reduce | all ranks |
| MPI tutorials | `mpi-1/{Greetings,MPI_Scatter,MPI_Gather,MPI_AllGather,MPI_Derived_DataType,Outputs}.c` | one array or message per rank | one library call each | all ranks, or rank 0 with rank 1 |
| CUDA kernels | `Cuda Programs/*.cu` | arrays | `compute_pi`; `populate_matrix`, then `MatrixMulKernel` | threads that compute the same index |
| Random numbers, timer | `Assignment 03/my_rand.[ch]`, `timer.h` | a seed per thread | `my_rand`, `my_drand` | drives the list's operations |
| Other | `Assignment 01/Code.cpp`, `pthreads-1/Hello.c`, unfinished files | - | - | - |

What makes them correct, and hard:

* **Read-write lock.** Any number of readers or one writer; no wake-up lost;
  the preference its flag promises. Hard because one unlock function serves both
  kinds of holder and wakes only one kind of waiter, and because a woken thread
  competes with newcomers for the mutex.
* **Sorted list.** Each operation is atomic to its callers; no node is read after
  it is freed, none leaks; the totals lose no operation. Hard because of walks
  that interleave node by node, addresses that `malloc` reuses, and updates of
  several pointers or counters.
* **Barriers.** No thread leaves a round before all have arrived, and none is left
  asleep. Hard because threads of two rounds share one counter and one condition
  variable.
* **`delete_node`.** One thread deletes, the others report that the value is
  absent. Hard because `head` is read outside the lock.
* **Hand-over-hand search.** Each thread waits for one mutex with another in its
  hand: no deadlock, nobody overtakes, no mutex destroyed while it is in use.
* **Semaphores and spins.** The right number of posts, turns that go round and
  reach everybody, also at end of file; a spin that sees what it waits for.
  Hard because the flags and counters are read without a lock.
* **Shares.** Every term, row or element is in the result exactly once, whatever
  the remainder, and no addition is lost. Hard at the boundaries: remainders, more
  ranks than terms, a grid wider than the matrix.
* **Matrix products.** Every element of the result is a whole row times a whole
  column of what the two matrices hold in the end. Hard because matrices are flat arrays that
  are cut up, sent, transposed and put together again, and because only the end of
  a phase says that the data of the next is there.
* **Odd-even sort.** Sorted after n phases, nothing lost: pairs exchanged at once
  are disjoint, and phases do not overlap.
* **MPI programs.** Every send has its receive, with or without buffering, for the
  sizes the program accepts; every collective is joined by all or by none.

`PROJECT.json` lists every hazard at its line, with the properties that would
notice it.

## 2. Modules

| Module | Kind | Models |
|---|---|---|
| `ReadWriteLock` | abstract specification | what any read-write lock promises; also stands for the external `pthread_rwlock_t` in `ListWork` and `DeleteNode` |
| `RWLock` | detailed | `rwlock_t` of `program_6_.c`, both modes |
| `RWLockProofs` | proofs | about `RWLock` |
| `ListOverRWLock` | composition | all of `program_6_.c`: the list of `ListWork` over the lock of `RWLock` |
| `ListOverRWLockProofs` | proofs | about `ListOverRWLock`, from the theorems of `RWLockProofs` and `ListWorkProofs` |
| `SharedSet` | abstract specification | a set whose operations are atomic |
| `ListWork` | detailed | all of `pth_ll_rwl.c`; instantiates `ReadWriteLock` |
| `ListWorkProofs` | proofs | about `ListWork` |
| `Barrier` | abstract specification | a reusable barrier; `pth_cond_bar_pthreads.c` is this specification |
| `CondBarrier` | detailed | `pth_cond_bar.c` and `barrier_condition_variables.c` |
| `CondBarrierSpurious` | detailed | the same with wake-ups that no broadcast caused |
| `CondBarrierProofs` | proofs | about `CondBarrier` |
| `DeleteNode` | detailed | `linked_list_r_w_locks.c`; instantiates `ReadWriteLock` |
| `DeleteNodeProofs` | proofs | about `DeleteNode` |
| `RankSet` | constants | the ranks by which the next five modules number their threads |
| `HandOverHand` | detailed | `linked_list_sol2.c` |
| `SemBarrier` | detailed | `barrier_semaphores.c` |
| `SpinBarrier` | detailed | `barrier_busy_waiting_mutex.c` |
| `MessageRing` | detailed | `message_send.c`, `message_send_semaphores.c` |
| `Tokenizer` | detailed | `tokenizer_strtok.c`, `tokenizer_strtok_r.c` |
| `Handshakes` | composition | one of the four just above at a time |
| `HandshakesProofs` | proofs | about `Handshakes` and its four programs, and about `HandOverHand` |
| `Shares` | detailed | the fifteen programs that divide a sum or an integral, or only its iterations |
| `Matrices` | operators | matrices in flat arrays: parts, transposition, products |
| `MatrixProduct` | detailed | the three matrix programs with threads |
| `OddEvenSort` | detailed | `sort_sol1.c`, `sort_sol2.c` |
| `Kernels` | detailed | the index computed by each CUDA thread of the three kernels |
| `DataParallel` | composition | `Shares`, `OddEvenSort`, `Kernels` or `MatrixProduct` |
| `DataParallelProofs` | proofs | about `DataParallel` and its four kinds of programs |
| `PingPong` | detailed | `programming_q_7_clock.c`, `programming_q_7_wtime.c`, `MPI_Derived_DataType.c` |
| `Redistribute` | detailed | `programming_q_9.c` |
| `Collectives` | detailed | `Assignment 04/Task 1/mpi.c`, `mpi-1/Matrix_Multiplication.c`, `MPI_Scatter.c`, `MPI_Gather.c`, `MPI_AllGather.c` |
| `MessagePassing` | composition | one of the three above at a time |
| `MessagePassingProofs` | proofs | about `MessagePassing` and its three kinds of programs |

The configuration files give the constants of these modules small values (model
values for threads, addresses and `NULL`). There are two kinds of composition.

`ListOverRWLock` composes two components that interact: every call of the lock by
the list is the steps of `RWLock`, every access to the list a step of `ListWork`, and
nothing but the code orders them. `ListWork` is instantiated with its lock read off
`RWLock` (its readers are those `RWLock` has let in, and so on), and asks it for no
permission; that the composition is a behaviour of `ListWork`, whose lock is
`pthread_rwlock_t`, is the property `ImplementsListWork`. So the chain is: the
program refines the list under a library lock, which refines an atomic set.

In the other three (`Handshakes`, `DataParallel`, `MessagePassing`) the
programs that are put side by side do not interact (each is a process image of its own), a
variable chooses which one runs, and a run of the composition asks the same question of
all of them. A program that does not run stays in one of its initial states. Symmetry is
used in one run, over the sorting threads of `DataParallel`, which checks invariants
only; the others check liveness or an order, and finish without it.

### How a model corresponds to the code

A step is the code a thread runs between two points where another thread could
see a difference: blocking calls, acquiring or dropping a mutex, and, where data
is shared without a lock or under a lock the model does not want to trust, each
access. Code between a `pthread_mutex_lock` and the next unlock or wait of the
same mutex touches nothing that can be seen without it, so it is one step,
together with the unlock.

*`RWLock`.* `RdLock` is line 46; `RdWait`/`RdTake` are the two outcomes of the
`while` at 48 or 51, with `pthread_cond_wait` or with lines 54-55; `RdWake` is
`pthread_cond_wait` getting the mutex back, after which the condition is tested
again. `WrLock` (59-60), `WrWait`, `WrWake`, `WrTake` (63-65) likewise.
`UnlockEnter` is 69 and `Unlock` 70-80: it calls `LeaveCounters` (the guess of
70-74) and `WakeNext` (75-79, which reads the new `readers`). A condition variable is
the set of threads asleep on it. `custom_rwl.c` is the code of mode 1 under other
names, and all that is shown of mode 1 holds of it.
(`PROJECT.json` gives its lines for some of the definitions that both files share.)

*`ListWork`.* The heap is `data`, `next` and `alloc` over a set of addresses.
`Enter` reads `head`; `Walk` is one iteration of the loop the three operations
share (160, 200, 225), with `pred` kept by Insert and Delete; `ReturnUnchanged`
is every exit that changes nothing; `InsertAlloc`/`InsertPublish` are 166-168 and
169-172; `DeleteUnlink`/`DeleteFree` are 232 or 238 and 236 or 242. `Thread_work` is
`PickOp`, `Acquire`, the list steps, `ReleaseAndCount`; then `LockCounts`,
`LoadCounts`, `StoreCounts` (the three `+=` as a read and a write). `main` is
`MainInsert`, `MainInserted`, `CreateThreads`, `Join`, `FreeNode`, `Exit`.

*`ListOverRWLock`.* `BeginOp` is the draws of an iteration (225-226) with line 46 or
59-60; `WaitForLock` and `LockTaken` are the waits of the lock and its return; `InList` is
`Insert`, `Member` or `Delete`; `BeginUnlock` and `EndOp` are `rwlock_unlock`. `main` and
the totals are those of `ListWork`. `rwlock_init` follows `main`'s inserts in the code (118);
as they take no lock, the model may initialise it first.

*`CondBarrier`.* `Lock` is 99; `ArriveNotLast` 100 with the wait of 113;
`ArriveLast` 100-108; `WaitReturns` the return from 113; `Unlock` 121 with the
loop's increment. `ArriveLastOnce` is 39-42 of the single-use program, which does not
reset its counter.

*`DeleteNode`.* `ReadHead` is 159, before `WrLock` (161). `SearchOn`, `SearchHit`,
`NotFound` are the first pass; `UnlinkHead`, or `Seek` and `Unlink`, the second;
`FreeNode` and `Unlock` the end. A walk that reads a freed node stops in
`StaleRead`: what happens then is undefined in C and is not followed.

*`HandOverHand`.* `LockHead` is 159; `LockNext` is the test of 161 with the lock
of 163, `MoveOn` 164-166, `Answer` the failed test with 169-177. `Join`, `FreeNode` and
`Exit` are `main` from 95 on. Node n holds n and its next is n + 1 (85-86).

*`SemBarrier`, `SpinBarrier`.* One step per semaphore operation, access to the
counter, and pass of a spin that ends it. `counter++` of `SpinBarrier` is a load and a store,
so that it takes the mutex to make it one.

*`MessageRing`, `Tokenizer`.* One step per `sem_wait`, `fgets`, `sem_post`, call of
`strtok`, store or load of `messages[]`. `Saveptr` is where the position is kept: the
thread's own variable, or the one static of `strtok`. The program with `strtok`
is followed until a thread would go on in another's line (`ForeignLine`);
the repository says itself that it fails there (`README.md:69`).

*`Shares`.* A record says how a program divides its work, what it adds and how the parts are
combined. `Share` has the three formulas; `my_sum` is what the loop over a share adds;
`LoadLocked`/`StoreLocked` are `sum += my_sum` under a mutex,
`LoadInTurn`/`StoreInTurn`/`HandOn` the same with the spin on `flag`; `Send`, `Receive` and
`Reduce` are the MPI calls. The shares of `Sum_elements__array.c` and `Global_max.c` are cut by
an `MPI_Scatter` of `n / p` elements to each rank, which gives rank r what `Even` says; what a
scatter needs of the other ranks is in `Collectives`. `Collective_Communication.c` goes on after
its `MPI_Reduce` with an `MPI_Bcast` of `c` (`Bcast`) and an `MPI_Allreduce` (`Allreduce`, into
`loaded[r]`, the rank's `total_int_all_reduce`); ranks pass them at different times. `team` is
the number of threads or processes that run. It is `p` except in `Task 2/omp.c`, which divides by
the `thread_count` it asks for and leaves the rest to the last of so many (35, 40), whether OpenMP
grants them or not. In an `omp parallel for`, `Iterate` gives the next iteration to any
thread, which covers every schedule, and `Combine` is the reduction, which starts from what the
variable holds (0, or the two ends of the integral in `trapezoid_parallel_for.c:14`).
(`pi_mutex_lock.c:62` also advances `flag`, which nothing there reads; it is left out.)

*`MatrixProduct`, `Matrices`.* Threads go through `PopulateRow` (145-163 of `Task 1/pthreads.c`)
and `MultiplyRow` (178-190) row by row; `main` goes through `JoinPopulate`, `Transpose` (50-61)
and `JoinMultiply`. A row is one step: its elements are written by one thread, and no other
thread reads them before the join. An element of a filled matrix is the place and the thread
that wrote it first, a product is the row and the column it was taken of, so that an element out
of place or read too early shows in the result. In `omp.c` a region may get fewer threads than
asked for.

*`OddEvenSort`.* An iteration is `TestPair`, `FirstWrite`, `SecondWrite`; it is
handed to any thread. `Arrive` and `NextPhase` are the barrier at the end of `omp for`.

*`Kernels`.* `ComputedBy` is the set of threads of the grid whose guard passes and whose `idx`
is the element followed; `Launch` runs them all, and any of several stores may come last.
`populate_matrix` stores what its index decides, `MatrixMulKernel` what its row and column do.
The index is an `int` and wraps around (`wrapped`, with `IntMax` for 2^31 - 1); all places before
the first element are one (`Before`). `Largest` is where the last thread would come without
wrapping around.

*`PingPong`, `Redistribute`, `Collectives`.* A send puts a message in `net`; it returns at once
if the library buffers it (`eager`) or when it has been received. `Post`, `Receive` and `Return`
are one `MPI_Sendrecv`. The ranks of the one-way program from 2 on go straight to the end. A
program of `Collectives` is the sequence of its calls, each with the array it sends, the array
it fills and its count; `Return` leaves one and does the loop that follows it (`Computed`: the
transposition at rank 0, the product of a rank's rows). `MayReturn` has what each call needs
from the others: a root that gathers needs everybody, a rank of a broadcast needs the root.
`Test` is rank 0's check of the sizes.

### Abstractions

* Random operations and keys are any operation and any key of a small set. This
  admits more runs than the generator produces; every property is about all of them.
* `malloc` does not fail (the code does not test for it) and may return any address
  not in use, the one just freed included.
* `pthread_create` starts all threads in one step: a thread that exists but has
  not run cannot be told from one not yet created.
* Printing, timing and reading the command line are left out; what is read is in
  the constants and in the initial states (mode, value to delete).
* Mutexes and condition variables are the POSIX ones. Only `RWLock` and
  `CondBarrierSpurious` let a wait return without a signal: `RWLock` tests its
  condition again and has to survive it; the barriers do not, which is what
  `CondBarrierSpurious` is about, and `CondBarrier` shows what holds without it.
* `count_mutex` and `barrier_mutex` are variables that hold the owner.
* Spins read their variable on each pass, and see a value before or after a store.
  In C this is a data race; the programs are built without optimisation
  (`gcc -g -Wall`, `README.md:134`), where every pass is a load. Nothing is claimed
  of an optimised build.
* The sizes the host programs of CUDA compute fit in an `int`, and memory and launches are granted.
  So the models say what a kernel would do where the device may not run it at all: a grid of more
  than 65535 rows of blocks, which a matrix needs beyond N = 8191, is refused, and `N * N *
  sizeof(float)` is itself too large for an `int` from N = 23171 on.
* A floating-point sum is how often each term is in it (in halves of f for the
  trapezoidal rule): rounding and the order of the terms are not modelled. The sums of 1000
  or 24000 terms are modelled with up to six.
* TLC tries the sort on the program's array and on all arrays of zeros and ones
  (`TestValues`) up to a length. The theorem `AlwaysSorted` is about arrays of any integers.
* The values in a matrix are abstracted to where they come from, and a dot product to its
  factors; that the factors are multiplied and added up is one statement and is not modelled.
* An MPI collective copies its data when a rank leaves it. No array is written again by its
  owner once it has been given to a collective, so the moment makes no difference.
* A broadcast into a `NULL` pointer stops the program (`aborted`); every implementation does.
* CUDA blocks of 32 x 32 threads are blocks of 2 x 2; only the comparison of N with the side of a
  block matters. The addition is atomic in the code, so that a launch is one step.
* -1 as a partner in `MPI_Sendrecv` is either `MPI_ANY_SOURCE` (Open MPI) or
  `MPI_PROC_NULL` (MPICH). The MPI programs of questions 7 stop without `MPI_Finalize`, which the
  model takes as an end.
* Of a message only its origin is kept, of a line its number and how many words it has.

## 3. What is checked

| Run | Instance | Result |
|---|---|---|
| `rwlock` | 4 threads, 2 operations each, 1 spurious wake-up, both modes | pass |
| `rwlock_reader_pref` | 3 threads, 1 operation each | `ReaderPreference` is violated |
| `list_work` | 2 threads, 2 keys, 2 addresses, 5 operations asked for, 2 keys inserted by main | pass |
| `cond_barrier` | 4 threads, 3 rounds, both programs | pass |
| `cond_barrier_spurious` | 3 threads, 2 rounds | `LoopAbsorbsOtherEvents` is violated |
| `delete_node` | 3 threads, list 1..3, value absent, first, middle or last | pass |
| `delete_node_head` | 3 threads, the first value | `NoUseAfterFree` is violated |
| `hand_over_hand` | 4 threads, list 1..4, values below, in and above it | pass |
| `handshakes` | 3 threads; up to 4 lines of up to 2 words | pass |
| `list_over_rwlock` | 2 threads of 2 operations, 2 keys, 2 addresses, 1 key inserted by main, both modes | pass |
| `data_parallel` | up to 6 terms and 4 ranks; up to 4 threads and matrices of up to 4 x 4; 3 threads sorting 10 elements or up to 6 zeros and ones; up to 36 elements (N up to 6) with blocks of 2 x 2 and an int up to 39 | pass |
| `message_passing` | 1 to 4 processes, dimension up to 4, 12 elements | pass |

Why the bounds are enough for the interesting cases: four threads let two writers and two
readers sleep at once while one holds the lock; a second operation lets a thread that was served
come back before those it left asleep, and one spurious wake-up falls at any point. Two threads
on two keys give every overlap of two operations at the head, behind the first node and at the
end of the list, on an empty, a one-node and a full list, and two addresses for two keys force
every insertion after a deletion to reuse an address. Over the hand-written lock two threads
meet in every combination of two kinds of operation, with one of them asleep at any point of the
other; more sleepers, and wake-ups without a signal, are what `rwlock` is for. Five operations
for two threads leave a remainder. Three rounds let the fastest thread be in a round while
others have still to leave the previous one, and a third follow. For `delete_node`, three values
give a first, a middle and a last node, and three threads one that deletes and two that waited
for it with a pointer each. Four threads on four nodes let a queue form at every node. Three
threads are the fewest whose ring has a thread that is neither the last nor the next; four lines
take the turn once round and on, and two words leave a position between two calls of `strtok`.
Six terms on up to four ranks give every remainder, an empty share, and a share per rank; sides
of 2 with N up to 6 give one block, blocks that fit exactly and grids wider than the matrix; with
an int that ends at 39, the least for which the host's arithmetic does not overflow, the index
overflows in the kernels of a matrix from N = 5 on and in `compute_pi` from 27 terms on. A
dimension of up to four with up to four threads or processes has one row, two rows and the whole
matrix per thread, sizes that do not divide it, and more processes than rows; a transposition
that is wrong is wrong from dimension two on. Twelve elements is the program's own number; with
one to four processes the partner wraps round, comes back to its start and, with two, goes
negative.

### Properties

* `rwlock`: `Exclusion` - a writer is alone. `CountersMatch` - the three counters
  are the numbers of holders and pending writers, although unlock guesses what it
  releases. `NoLostWakeup` - somebody awake or holding the lock owes every sleeper
  a wake-up. `WriterPreference` - in mode 1 no reader passes a pending writer.
  `ImplementsReadWriteLock` - refinement of `ReadWriteLock`. `Termination` - every
  thread gets through its operations.
* `list_work`: `ListSorted` - the list is finite, allocated and strictly sorted in
  every state, also in the middle of an operation. `MemorySafe` - no step
  touches a freed node. `NoLeak` - an allocated node is linked or in the hands of
  one operation, and none is left at exit. `ChangesAlone` - whoever changes the list is alone
  in it. `CountsConserved` - totals plus what threads still owe is constant.
  `ImplementsSharedSet` - linearizability: refinement of `SharedSet`, each operation
  taking effect when its node is linked or unlinked or its walk ends.
  `Termination` - the program exits.
* `cond_barrier`: `Separation` - nobody is past a round that somebody has not
  reached. `SleepersAwaitSomebody` - a sleeper waits for a thread that has still to
  arrive.
  `ImplementsBarrier` - refinement of `Barrier`. `Termination`.
* `delete_node`: `OnlyOldHeadStale` - the unlocked read of `head` can only hurt the
  first pass, only when the first node is the one deleted; the second pass never
  touches a freed or `NULL` node. `ListIntact` - with no writer inside, the
  list is exactly the allocated nodes, all but the deleted value. `AnswersAgree` - at
  most one success, and "not found" stays true. These say what holds up to the
  point where a freed node is read.

* `hand_over_hand`: `NoOvertaking` - of two threads in the list, the one behind stays
  behind. `AnswersRight` - `member` answers what a search would. `DestroyedUnused` - `delete` only
  meets mutexes that are free for good. `SearchEnds` - nobody waits for ever.
* `handshakes`: `BarriersHold` - both barriers refine `Barrier` for one round.
  `MessagesDelivered` - who is past its wait has the message written for it, and no
  semaphore is left up. `TurnsTaken` - activations and lines go round one at a time
  and in order, and `strtok_r` splits each line completely. `Termination` - every program
  ends (that with `strtok` while it stays defined).
* `list_over_rwlock`: `ImplementsListWork` - refinement of `ListWork`: each step of the list
  over the hand-written lock is a step of the list under `pthread_rwlock_t` or none. All that
  `list_work` checks of the list is thereby about `program_6_.c` too. `Termination` - no thread
  is stranded in the lock with the list's mix of readers and writers, and `main` frees the list.
* `data_parallel`: `PartsExact` - each part of the work is in the result exactly as often
  as one thread would have put it there, as far as the shares of the ranks that run reach; the
  modules state how far that is. Every rank of `Collective_Communication.c` ends with the same
  total and with the `c` of rank 0. Of a CUDA grid: nobody stores past the end, and somebody
  stores before the beginning exactly when an index overflows; `compute_pi` adds the terms below
  the width of its grid, once each; `populate_matrix` fills each place rightly; each element of a
  product is computed by its own thread, alone in a grid of one block; in a wider grid the first
  element of the second row also by a thread that reads past the end of a matrix.
  `ProductExact` - each row of the result that the threads reach is the product of what both
  matrices hold in the end, and no other row is written. `Sorted` - no element is lost or doubled,
  also between the two writes of an exchange, and the array ends sorted.
* `message_passing`: `RoundTrip` - the redistribution loses nothing, is undone by the way back,
  and is cyclic just when `block_size % p = 1 % p`. `ProductExact` - what rank 0 prints is the
  product of the two matrices it prints, made of the ranks' parts in order; scatter, gather and
  allgather bring each rank its parts. `EndsExactly` - with the sizes named every program ends,
  with all others it never does.

Each run of a single component has one type invariant beside these (that of `delete_node` is
part of `ListIntact`). In the composed runs the type invariants of the modules are the first
conjunct of `MessagesDelivered`, `PartsExact` and `RoundTrip`; `ListOverRWLock` has those of its
two modules through what it refines.

### Where the code and its documentation differ

* **Reader preference** (`program_6_.c:22,114`). In mode 0 an unlock still hands over to a
  waiting writer first (75-76), so readers already asleep are passed over.
* **`custom_rwl.c:22,26`**. Functions called reader-preference make readers wait for
  waiting writers: it is the lock of mode 1, for which `WriterPreference` holds.
* **The loop around the wait** (`pth_cond_bar.c:111-113`, also
  `barrier_condition_variables.c:45`). It is there "in case some other event
  awakens thread" but tests the return value of `pthread_cond_wait`, which is 0 then too.
* **`linked_list_r_w_locks.c:159`** against `README.md:68` ("completely
  protected"). `head` is read before the lock is taken; the node may be freed
  by the time it is used.
* **`pth_ll_rwl.c:142,112,287`**. The number of operations asked for, and printed, is not the
  number executed when the threads do not divide it; `CountsConserved` says what is.
* **`linked_list_sol2.c:159`** against `README.md:68`, which describes read-write locks and
  concurrent readers: it has a mutex per node, and readers queue (`NoOvertaking`).
* **`programming_q_9.c:33,38`**. With four processes the order called cyclic is not: `RoundTrip`
  says for which sizes it is.
* **`programming_q_9.c:4,40`**. Two processes divide 12, but the partner computed is -1
  (`EndsExactly`).
* **`programming_q_7_clock.c:29`** (and `_wtime.c`). Any number of processes other than two
  never ends; `README.md:127` starts MPI programs with four.
* **`Assignment 04/Task 1/mpi.c:23-29`**. Rank 0 alone rejects a size; the others wait for it
  for ever.
* **`mpi-1/Matrix_Multiplication.c:118,122`**. The vector is broadcast into a pointer that is
  `NULL` on every rank but 0: the program ends with one process only (`EndsExactly`).
* **`matrix_vector_multiplication.c:67`**. The rows left over when the threads do not divide 4
  are never computed, and printed as `malloc` left them (`ProductExact`).
* **`pi_value_estimate.cu:42,28`**. Called with N terms it adds about sqrt(N) of them.
* **`Matrix_Multiplication.cu:47`** against `README.md:89`. For N > 32 several threads store
  the same element, and only one of them its product; the others read past the end of a matrix.
* **`mpi-1/Trapezoid.c:56`** (and `Collective_Communication.c`). Between the ends of a share x
  is added, not f(x).
* **`mpi-1/Trapezoid.c:16,36`** and the other even shares. The remainder is in no share.

### Fairness

`FairSpec` assumes weak fairness of each thread's step (and of `main`): a thread that can
run continuously is run, which a preemptive scheduler gives. Nothing is assumed of
the mutex or of the order in which a signal picks a sleeper: a thread
that wants the mutex may lose it as long as others keep taking it. Termination
holds all the same because each thread has a finite number of operations. It
would not hold of threads that never stop, and is not claimed for them.

In the composed runs it is weak fairness of each thread's or process's step in its program. For
a spin it says that the thread is scheduled again after the value it waits for has come; all
these values stay until it has seen them. For MPI it includes that a message that was sent
arrives, which the library promises. `message_passing` says `CHECK_DEADLOCK FALSE` because its
programs really stop, with the sizes above; `EndsExactly` says which. Everywhere else deadlock
is checked. `data_parallel` states no liveness: each of its steps brings its program nearer to
the end and none can be repeated, so that the absence of deadlock says that it ends.

### Mistakes the properties notice

Operators named for a slip, each placed before the operator it would replace, are
not part of the models. Putting one in the other's place violates the property named:

| Run | Slip | in place of | violates |
|---|---|---|---|
| `rwlock` | `LeaveWithoutGuess` | `LeaveCounters` | `TypeOK` |
| | `WriteBlockedByWritersOnly` | `WriteBlocked` | `Exclusion` |
| | `WrTakeStillWaiting` | `WrTake` | `CountersMatch` |
| | `WakeWritersOnly` | `WakeNext` | `NoLostWakeup` |
| | `ReadBlockedByWritersOnly` | `ReadBlocked` | `WriterPreference` |
| | `ReadBlockedByReadersOnly` | `ReadBlocked` | `ImplementsReadWriteLock` |
| | `WakeSeveralWriters` | `WakeNext` | `Termination` |
| `list_work` | `PickOpOnceMore` | `PickOp` | `TypeOK` |
| | `AheadTooFar` | `Ahead` | `ListSorted` |
| | `LockForReadingAlways` | `LockFor` | `MemorySafe` |
| | `DeleteForgetsFree` | `DeleteFree` | `NoLeak` |
| | `LockForWritersOnly` | `LockFor` | `ChangesAlone` |
| | `CountsUnlocked` | `LockCounts` | `CountsConserved` |
| | `LinkAlwaysAtHead` | `Link` | `ImplementsSharedSet` |
| | `CountWithoutRelease` | `ReleaseAndCount` | `Termination` |
| `cond_barrier` | `CountGoesOn` | `ResetCount` | `TypeOK` |
| | `IsLastButOne` | `IsLast` | `Separation`, `ImplementsBarrier` |
| | `OpenForOneOnly` | `OpenBarrier` | `SleepersAwaitSomebody`, `Termination` |
| `delete_node` | `NextWithoutEnd` | `InitialNext` | `ListIntact` |
| | `AcquireForReading` | `Acquire` | `OnlyOldHeadStale` |
| | `ReachedLast` | `ReachedEnd` | `AnswersAgree` |
| | `UnlinkRest` | `UnlinkAfter` | `ListIntact` |
| `hand_over_hand` | `OneMoreToFree` | `MoreToFree` | `SearchTypeOK` |
| | `AheadTooFar` | `Ahead` | `AnswersRight` |
| | `SomeReturned` | `AllReturned` | `DestroyedUnused` |
| | `UnlockTooEarly` | `LockNext` | `NoOvertaking` |
| | `MoveOnStillLocked` | `MoveOn` | `SearchEnds` |
| `handshakes` | `SemBarrier!OneForAll` | `OneForEachOther` | `MessagesDelivered` |
| | `SemBarrier!IsLastButOne` | `IsLast` | `BarriersHold` |
| | `SpinBarrier!CountUnlocked` | `CountLocked` | `Termination` |
| | `SpinBarrier!NextRankPlusTwo` | `NextRank` | `TurnsTaken` |
| | `MessageRing!PostOwn` | `PostDest` | `MessagesDelivered` |
| | `Tokenizer!SharedSaveptr` | `Saveptr` | `TurnsTaken` |
| | `Tokenizer!PassOnUnlessAtEnd` | `PassOn` | `Termination` |
| `list_over_rwlock` | `EntryDeleteReads` | `Entry` | `ImplementsListWork` |
| | `RWLock!WakeWritersOnly` | `WakeNext` | `Termination` |
| `data_parallel` | `Shares!Unlocked` | `Locked` | `PartsExact` |
| | `Shares!NextFlagUnwrapped` | `NextFlag` | `PartsExact` |
| | `Shares!Unawaited` | `FromRoot` | `PartsExact` |
| | `MatrixProduct!FirstJoined` | `AllJoined` | `ProductExact` |
| | `OddEvenSort!NoWait` | `AllArrived` | `Sorted` |
| | `OddEvenSort!LastPhaseMissing` | `MorePhases` | `Sorted` |
| | `Kernels!InBoundsInclusive` | `InBounds` | `PartsExact` |
| `message_passing` | `Redistribute!ForwardsUnwrapped` | `Forwards` | `RoundTrip` |
| | `Redistribute!OutgoingAlwaysBlock` | `Outgoing` | `RoundTrip` |
| | `Matrices!CopiedByRows` | `Transposed` | `ProductExact` |
| | `Collectives!RefusedIfTooMany` | `Refused` | `EndsExactly` |

## 4. What is proved

The theorems hold for every value of the constants that satisfies the module's named
assumptions: a finite set of threads with main, `NULL` and the free owner outside it; natural
bounds; integer keys; and, for the list that allocates (`MemoryAssumption`), a finite set of
addresses. Every property of a run that a theorem states was first checked by that run.

**`RWLockProofs`**: `TypeCorrect`, `MutualExclusion`, `CountersCorrect`,
`WakeupsKept`, `WritersGoFirst` and `Refinement`, all from one inductive invariant,
`LockInv`: types; a thread in a wait set is in the matching wait; `CountersMatch`;
`Exclusion`; `NoLostWakeup`. None of these is inductive without the others. Exclusion
needs the counters to mean what they say, the counters need exclusion for the guess in
unlock to be right (if a writer and a reader could hold the lock at once, the guess
would take the wrong branch), and the wake-up argument needs both to know that the
branch of unlock that wakes nobody of one kind leaves someone of the other who will.

**`ListWorkProofs`**, in five parts, each on top of those before it:

* *Access.* `ListTypeCorrect` and `WriterAlone`. `AccessInv` adds to the types that a process in
  the list holds the lock in the mode of its operation (or is main, alone), and that the lock's
  abstract exclusion holds.
* *Totals.* `CountsAlwaysConserved`. What a thread owes is a sum over all threads. The proof counts
  it as a set, of one token per thread and unit owed: a step moves tokens of one thread and leaves
  the others. `CountInv` adds that between load and store the thread has `count_mutex`, so that
  what it has loaded is still there.
* *The list.* `ListAlwaysSorted`, `MemoryAlwaysSafe` and `NothingLeaks`. A list is a `Chain`: the
  nodes linked are closed under `next`, data goes up along it, and every node but the head has a
  predecessor. Inserting and unlinking keep that (`ChainInsert`, `ChainRemove`). The recursive
  walk `Node` meets the nodes of a chain in order and all of them, which follows from the least
  element of a finite set, without an induction. `ListInv` says that the allocated nodes are
  those of the chain and those an operation has in its hands (one that it has filled and not
  linked, or unlinked and not freed), and where each walk is: at `curr`, which its `pred` still
  points to, with everything passed smaller than the value sought. Two walks of which one changes
  the list would break that; `AccessInv` is why there are none.
* *The list as a set.* `ListImplementsSet`: linearizability, the refinement of `SharedSet`. The
  walk's place in `ListInv` decides what the operation answers.

**`ListOverRWLockProofs`**: `Program6IsTheList` - for any number of threads and both modes,
`program_6_.c` is a behaviour of `ListWork`, whose lock it is shown never to miss
(`ListAsksNothing`: what the list asks of its lock, the hand-written one already grants). It cites
the lemmas of `RWLockProofs` for every step of the lock; `OverInv` adds that the threads exist
only when main has created them, and that a thread waits at the entry for readers only when it
is there for Member. From the refinement follow, by the theorems of `ListWorkProofs`,
`Program6WritersAlone`, `Program6Sorted`, `Program6MemorySafe`, `Program6CountsConserved` and
`Program6ImplementsSet`. These five say of the composition what `list_work` checks of the list;
no run of their own repeats them.

**`CondBarrierProofs`**: `BarrierTypeCorrect`, `BarrierSeparates`,
`NobodyStranded`, `BarrierRefinement`. `BarrierInv` says that there is a round r such
that every thread has left r or r+1 barriers or is leaving its r-th, the sleepers
are exactly those who arrived at r and are not released, and the counter is their number (or, in the
single-use program after it has opened, `thread_count`). The existential round is
what makes the counter's reset provable: at most two rounds are ever alive, and
all sleepers belong to the later.

**`DeleteNodeProofs`**: `StaleOnlyAtOldHead`, `ListAlwaysIntact`, `AnswersAlwaysAgree`, for a list
and a team of any length and any value. The list has two shapes only, whole and cut at one
node, of which the recursive walk is computed outright. `DeleteInv` says which it is: cut once one
process, and no other, has unlinked; and that a head read before the lock is the first node or
still the head. A search that starts at the first node stays off the freed node unless that node
is the first, which is why nothing but deleting the first value can hurt.

**`HandshakesProofs`**, in two parts:

* *Handshakes.* `BarriersAlwaysHold` (both barriers refine `Barrier`),
  `MessagesAlwaysDelivered`, `PostsUsedUp` and `TurnsAlwaysTaken`, for any number of threads and, of
  the tokenizers, any input. `HandshakeInv` is an invariant per program. For the semaphore barrier:
  one thread posts, after all have arrived, and its loop variable is the posts not yet used up plus
  the threads that have passed. For the spinning one: the counter is the number of those who have
  counted, as what was loaded under the mutex is still there, and `flag` separates those who are
  done. For the message ring: each semaphore is 1 exactly from its post to the wait it is meant for.
  For the tokenizers: one thread has the turn, and it is the one whose number is the lines read
  modulo the number of threads.
* *Hand-over-hand search.* `WalkTypeCorrect`, `MutexesFollowThreads`, `SearchCorrect`,
  `DestroysSafely`, `OrderKept`, for any number of threads and any value. `WalkInv`
  adds to the types that whoever is in the list holds the mutex of the node it stands on and that
  a held mutex has its thread there, or on the node before with both in hand; that a thread
  between the two has read that it has to go on; that the nodes behind it hold smaller values; and
  that main waits. A thread can then only enter a node that nobody is on, which is why nobody
  overtakes, and the node it stops at decides the answer.

**`DataParallelProofs`**, in four parts, from an invariant for each kind of program; all that is
assumed is `BoundsAssumption`, by which the bounds are natural numbers, the values integers, and
`IntMax` no less than what the hosts of the kernels compute.

* *Matrices.* `ProductAlwaysExact`, for any number of threads and any dimension, also when OpenMP
  provides fewer threads. `MatrixInv` says which rows are filled and multiplied: exactly those done
  by the thread that owns them, of inputs that nobody writes any more. Each thread's rows are its
  own because a row number is share * owner + offset in one way only; elements stay in their rows
  because a place is row * width + column in one way only (`RowAndColumn`), by which the
  transposition is undone too (`TransposedRow`).
* *Sorting.* `AlwaysSorted`, for any number of threads and any array of integers, of any length.
  `SortInv` has two parts. One is about the interleaving: the exchanges under way are of disjoint
  pairs of one phase, and the array is what it would be if the second write of an exchange came
  together with the first (`Logical`). The other says why n phases are enough: for every v, of the
  elements that are v or more the j-th from the right has, before each phase, come to its place or
  moved with every phase but the first j (`Moved`). It is said as a bound on how many of them are
  from a place on (`Ones`), and an exchange changes that number at one place only
  (`OnesExchanged`); so it needs no induction over the network.
* *Kernels.* `KernelsExact`, for any side of a block, any N and any `IntMax` that is large enough
  for the host (`BoundsAssumption`). It is no claim that the kernels are right:
  `EachElementOnce` says up to which sizes they are and what goes wrong beyond. The size of the grid is
  computed from the code's formulas (`GridIs`; `SquareRoot` says between which squares N lies). A
  grid as wide as the matrix has one thread for each element; in a wider one each element still has
  its own thread among those that store it, and in a matrix of more than one block the first
  element of the second row is also stored by a thread that reads outside (`ReadsOutside`); the
  terms of `compute_pi` are those of the first row of the grid. An index up to `IntMax` is as
  computed, one up to `2 * IntMax + 1` is negative (`WrappedIs`), and if any overflows then one of
  those does (`OverflowOnly`).
* *Shares.* `PartsAlwaysExact`, which contains `KernelsExact` and the types of all four modules, for
  any number of ranks, of which any part may run in `Task 2/omp.c`.
  The share of rank r is from `Bound(r)` to `Bound(r + 1)` for each of the formulas, so that the
  parts of the ranks below r add up to what one thread has when it has come to `Bound(r)`
  (`PartsSoFar`, with what `IdleAt` counts twice when there are more ranks than intervals).
  `ShareInv` says that the sum is that of the parts of the ranks that have added theirs, and that
  whoever is adding has read the sum as it still is, because it has the mutex or the turn; in a
  loop, that each iteration so far is in the copy of one thread; and `CollectiveInv`, that past its
  broadcast a rank has the `c` of rank 0 and past its last reduction the whole sum. A sum over
  ranks is the number of its tokens, as in `ListWorkProofs`; that the sum of `Reduce` is the same
  number follows from a minimal set of ranks for which it would not be (`SumsUnique`).

**`MessagePassingProofs`**, in two parts, from `BoundsAssumption` (at least one process, dimension
and element) and, for the redistribution, `DivisorsAssumption`: the processes divide the elements,
and if there are more than two of them a block has at most one element more than there are
processes. `% comm_sz` makes a rank of every difference then (`programming_q_9.c:40, 65`). Of the
program's twelve elements it is true for every number of processes that divides them; 24 on 3
processes, say, would have negative partners.

* *Redistribution.* `RedistributionExact`, for any such numbers and either behaviour of sends. The
  partners fit: if r sends to q in an iteration then q receives from r in it, and nobody else does,
  which is a matter of remainders (`OneQuotient`: there is one quotient and one remainder). So the
  invariant can say of each message on the way which two ranks it is between, in which iteration,
  and with which element (`NetExact`), and of each place what it holds: the blocks what they held
  at first, as what comes back is what was there, and the cyclic blocks what the arithmetic names
  (`ArraysExact`). The cyclic order is then a question of remainders again. With two processes and
  more than six elements a partner is -1; there the invariant says where which rank gets stuck
  (`Stuck`), in the one library and in the other, so that no rank comes to the end of the way back.
* *Collectives.* `CollectivesExact`, for any number of processes, any dimension and either behaviour
  of a rank that has nothing to wait for. `CollInv` says of every array of every rank that it holds
  what the program put there until the rank has left the collective that fills it, and from then on
  its final contents, which are a function of the parts filled at the start (`Together`, `ColB`,
  `LocalC`, `Result`). A step is right because who leaves a collective has been joined by
  those it needs, so that what it reads is final. That the final contents are the product is
  arithmetic of places: an element of a gathered array is in one rank's part at one place
  (`InTogether`), a row of a part is a row of the whole (`PartOfPart`), and a row of the
  transposed matrix is a column (`TransposedRow`).

All types of the three modules follow, as part of `RoundTrip`.

### Only model-checked

* Liveness: `Termination` in each run that has it, `SearchEnds` and `EndsExactly`. The prover does
  not handle fairness and ENABLED.

Induction over data is out of the prover's reach, as the theorems that would give it take an
operator as a parameter. Where a proof needs one it is over a finite set, as a least element or a
minimal subset (`LeastElement`, `MinimalSubset`). None of the modules declares a RECURSIVE
operator; the recursive function that walks a list is unfolded one step at a time.

## 5. Not modelled, and what is left

Every program that keeps state between two calls is modelled, and every invariant, action property
and refinement that a run checks is proved. What is left with TLC is liveness.

Partly modelled: `linked_list_r_w_locks.c`, whose `member` (134) is called from commented-out
code only and whose `delete_list` (58) is never called. They are not steps of any execution of
the program.

Left out for good: programs that only print or evaluate a formula (`Outputs.c`, the three hello
programs, `Code.cpp`); the layout of the datatype in `MPI_Derived_DataType.c`; files that are
unfinished and do not compile (`mpi-2/parallel_sorting.c`, `Trapezoid.c`); the random number
generator's values, floating-point rounding and timing, on which no property here depends.

## 6. Running

    tlc -config RWLock.cfg RWLock              (likewise for every .cfg)
    tlc -config RWLockReaderPref.cfg RWLock
    tlc -config DeleteNodeHead.cfg DeleteNode
    tlapm RWLockProofs.tla                     (likewise ListWorkProofs, ListOverRWLockProofs,
                                                CondBarrierProofs, DeleteNodeProofs, HandshakesProofs,
                                                DataParallelProofs, MessagePassingProofs)
