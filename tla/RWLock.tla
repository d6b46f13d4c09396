-------------------------------- MODULE RWLock ---------------------------------
(* The read-write lock of "Assignment 03/program_6_.c" (rwlock_t, lines 24-81): *)
(* a monitor of one mutex, two condition variables and three counters.  The     *)
(* clients are the loop of Thread_work: OpsPerThread times, lock for reading or *)
(* for writing, work, unlock.  With writer_preference = 1 it is also the lock   *)
(* of "Assignment 03/custom_rwl.c", which is the same code without the flag.    *)
(*                                                                              *)
(* A step is the code a thread runs between two points where it may block or    *)
(* lose the mutex.  A condition variable is the set of the threads asleep on    *)
(* it: pthread_cond_wait enters the set and drops the mutex in one step; a      *)
(* signal takes any one member out, a broadcast all; a thread that is out has   *)
(* to get the mutex back before it tests its condition again.  POSIX lets a     *)
(* wait return with no signal at all: MaxSpurious bounds how often it does.     *)
EXTENDS Naturals, FiniteSets

CONSTANTS
    Threads,        \* the threads main creates (thread_count of them)
    NoThread,       \* the owner of a mutex that is free
    OpsPerThread,   \* ops_per_thread in Thread_work
    MaxSpurious     \* bound on spurious returns of pthread_cond_wait

ASSUME ThreadsAssumption == IsFiniteSet(Threads) /\ NoThread \notin Threads
ASSUME BoundsAssumption == OpsPerThread \in Nat /\ MaxSpurious \in Nat

VARIABLES
    writer_preference,  \* 0 or 1: chosen on the command line, then never written
    mutex,              \* who owns lock->mutex
    readers,            \* lock->readers
    writers,            \* lock->writers
    waiting_writers,    \* lock->waiting_writers
    readers_ok,         \* the threads asleep on lock->readers_ok
    writers_ok,         \* the threads asleep on lock->writers_ok
    pc,                 \* where each thread is
    ops,                \* iterations of Thread_work's loop each thread has left
    spurious            \* spurious wake-ups so far

counters == <<readers, writers, waiting_writers>>
waitSets == <<readers_ok, writers_ok>>
vars == <<writer_preference, mutex, readers, writers, waiting_writers,
          readers_ok, writers_ok, pc, ops, spurious>>

(* idle      outside the lock               reading, writing  holding the lock  *)
(* rd_test   at the while of rwlock_rdlock  rd_wait   in its pthread_cond_wait  *)
(* wr_test   at the while of rwlock_wrlock  wr_wait   in its pthread_cond_wait  *)
(* rd_unlock, wr_unlock   in rwlock_unlock, having locked the mutex             *)
Locations == {"idle", "rd_test", "rd_wait", "reading", "rd_unlock",
              "wr_test", "wr_wait", "writing", "wr_unlock"}

At(locations) == {t \in Threads : pc[t] \in locations}

ReadHolders == At({"reading", "rd_unlock"})
WriteHolders == At({"writing", "wr_unlock"})
PendingWriters == At({"wr_test", "wr_wait"})

TypeOK ==
    /\ writer_preference \in {0, 1}
    /\ mutex \in Threads \cup {NoThread}
    /\ readers \in Nat
    /\ writers \in Nat
    /\ waiting_writers \in Nat
    /\ readers_ok \subseteq Threads
    /\ writers_ok \subseteq Threads
    /\ pc \in [Threads -> Locations]
    /\ ops \in [Threads -> 0 .. OpsPerThread]
    /\ spurious \in 0 .. MaxSpurious

--------------------------------------------------------------------------------

Init ==
    /\ writer_preference \in {0, 1}
    /\ mutex = NoThread
    /\ readers = 0
    /\ writers = 0
    /\ waiting_writers = 0
    /\ readers_ok = {}
    /\ writers_ok = {}
    /\ pc = [t \in Threads |-> "idle"]
    /\ ops = [t \in Threads |-> OpsPerThread]
    /\ spurious = 0

Goto(t, from, to) == pc[t] = from /\ pc' = [pc EXCEPT ![t] = to]

TakeMutex(t) == mutex = NoThread /\ mutex' = t
DropMutex(t) == mutex = t /\ mutex' = NoThread

(* Operators named for a slip (here the three before ReadBlocked) are not part  *)
(* of the model: each is what a plausible mistake would make of the operator    *)
(* after it, and the README says which property notices.                        *)
ReadBlockedByReadersOnly == writer_preference = 1 /\ waiting_writers > 0
ReadBlockedByWritersOnly == writers > 0
WriteBlockedByWritersOnly == writers > 0

ReadBlocked ==
    IF writer_preference = 1 THEN writers > 0 \/ waiting_writers > 0
                             ELSE writers > 0

WriteBlocked == writers > 0 \/ readers > 0

(* rwlock_rdlock *)

RdLock(t) ==
    /\ ops[t] > 0
    /\ Goto(t, "idle", "rd_test")
    /\ TakeMutex(t)
    /\ ops' = [ops EXCEPT ![t] = @ - 1]
    /\ UNCHANGED <<writer_preference, counters, waitSets, spurious>>

RdWait(t) ==
    /\ Goto(t, "rd_test", "rd_wait")
    /\ DropMutex(t)
    /\ ReadBlocked
    /\ readers_ok' = readers_ok \cup {t}
    /\ UNCHANGED <<writer_preference, counters, writers_ok, ops, spurious>>

RdWake(t) ==
    /\ t \notin readers_ok
    /\ Goto(t, "rd_wait", "rd_test")
    /\ TakeMutex(t)
    /\ UNCHANGED <<writer_preference, counters, waitSets, ops, spurious>>

RdTake(t) ==
    /\ Goto(t, "rd_test", "reading")
    /\ DropMutex(t)
    /\ ~ReadBlocked
    /\ readers' = readers + 1
    /\ UNCHANGED <<writer_preference, writers, waiting_writers, waitSets,
                   ops, spurious>>

(* rwlock_wrlock *)

WrLock(t) ==
    /\ ops[t] > 0
    /\ Goto(t, "idle", "wr_test")
    /\ TakeMutex(t)
    /\ ops' = [ops EXCEPT ![t] = @ - 1]
    /\ waiting_writers' = waiting_writers + 1
    /\ UNCHANGED <<writer_preference, readers, writers, waitSets, spurious>>

WrWait(t) ==
    /\ Goto(t, "wr_test", "wr_wait")
    /\ DropMutex(t)
    /\ WriteBlocked
    /\ writers_ok' = writers_ok \cup {t}
    /\ UNCHANGED <<writer_preference, counters, readers_ok, ops, spurious>>

WrWake(t) ==
    /\ t \notin writers_ok
    /\ Goto(t, "wr_wait", "wr_test")
    /\ TakeMutex(t)
    /\ UNCHANGED <<writer_preference, counters, waitSets, ops, spurious>>

WrTakeStillWaiting(t) ==
    /\ Goto(t, "wr_test", "writing")
    /\ DropMutex(t)
    /\ ~WriteBlocked
    /\ writers' = writers + 1
    /\ UNCHANGED <<writer_preference, readers, waiting_writers, waitSets,
                   ops, spurious>>

WrTake(t) ==
    /\ Goto(t, "wr_test", "writing")
    /\ DropMutex(t)
    /\ ~WriteBlocked
    /\ waiting_writers' = waiting_writers - 1
    /\ writers' = writers + 1
    /\ UNCHANGED <<writer_preference, readers, waitSets, ops, spurious>>

(* rwlock_unlock *)

UnlockEnter(t) ==
    /\ \/ Goto(t, "reading", "rd_unlock")
       \/ Goto(t, "writing", "wr_unlock")
    /\ TakeMutex(t)
    /\ UNCHANGED <<writer_preference, counters, waitSets, ops, spurious>>

LeaveWithoutGuess ==
    /\ readers' = readers - 1
    /\ writers' = 0
    /\ UNCHANGED waiting_writers

(* The counters: the code does not know which kind of holder t is and goes by  *)
(* lock->writers.                                                              *)
LeaveCounters ==
    /\ IF writers > 0 THEN writers' = 0 /\ UNCHANGED readers
                      ELSE readers' = readers - 1 /\ UNCHANGED writers
    /\ UNCHANGED waiting_writers

SignalWriter ==
    /\ IF writers_ok = {} THEN UNCHANGED writers_ok
       ELSE \E w \in writers_ok : writers_ok' = writers_ok \ {w}
    /\ UNCHANGED readers_ok

BroadcastReaders == readers_ok' = {} /\ UNCHANGED writers_ok

WakeWritersOnly ==
    IF waiting_writers > 0 /\ readers' = 0 THEN SignalWriter
                                           ELSE UNCHANGED waitSets

WakeSeveralWriters ==
    IF waiting_writers > 1 /\ readers' = 0 THEN SignalWriter
                                           ELSE BroadcastReaders

(* Whom the unlock wakes; readers' is the count it has just written. *)
WakeNext ==
    IF waiting_writers > 0 /\ readers' = 0 THEN SignalWriter
                                           ELSE BroadcastReaders

Unlock(t) ==
    /\ Goto(t, "rd_unlock", "idle") \/ Goto(t, "wr_unlock", "idle")
    /\ DropMutex(t)
    /\ LeaveCounters
    /\ WakeNext
    /\ UNCHANGED <<writer_preference, ops, spurious>>

(* The environment: pthread_cond_wait may return without being signalled. *)
SpuriousWakeup(t) ==
    /\ spurious < MaxSpurious
    /\ spurious' = spurious + 1
    /\ t \in readers_ok \cup writers_ok
    /\ readers_ok' = readers_ok \ {t}
    /\ writers_ok' = writers_ok \ {t}
    /\ UNCHANGED <<writer_preference, mutex, counters, pc, ops>>

(* Thread_work has left its loop. *)
Done(t) == pc[t] = "idle" /\ ops[t] = 0

ThreadStep(t) ==
    \/ RdLock(t) \/ RdWait(t) \/ RdWake(t) \/ RdTake(t)
    \/ WrLock(t) \/ WrWait(t) \/ WrWake(t) \/ WrTake(t)
    \/ UnlockEnter(t) \/ Unlock(t)

(* pthread_join has returned for every thread: nothing is left to do. *)
Joined == (\A t \in Threads : Done(t)) /\ UNCHANGED vars

Next ==
    \/ \E t \in Threads : ThreadStep(t) \/ SpuriousWakeup(t)
    \/ Joined

Spec == Init /\ [][Next]_vars

(* The scheduler runs every thread that can run.  Nothing is assumed of the    *)
(* mutex beyond that: a thread that wants it may lose it to others as long as  *)
(* the others keep taking it.                                                  *)
FairSpec == Spec /\ \A t \in Threads : WF_vars(ThreadStep(t))

--------------------------------------------------------------------------------
(* Safety *)

(* A thread inside Insert or Delete (a writer) is alone inside the list: no    *)
(* other writer and no reader is between its rdlock/wrlock and its unlock,     *)
(* whatever the mode and whoever was woken (program_6_.c:45-81).               *)
Exclusion ==
    /\ Cardinality(WriteHolders) <= 1
    /\ WriteHolders # {} => ReadHolders = {}

(* The three counters always say who really holds or awaits the lock, although *)
(* rwlock_unlock is never told which kind of lock it releases and guesses from *)
(* lock->writers (program_6_.c:70-74).                                         *)
CountersMatch ==
    /\ readers = Cardinality(ReadHolders)
    /\ writers = Cardinality(WriteHolders)
    /\ waiting_writers = Cardinality(PendingWriters)

(* No wake-up is lost (program_6_.c:75-79, an unlock that wakes one side only): *)
(* a writer asleep is owed a wake-up by a holder, or another writer is awake    *)
(* and will be a holder; a reader asleep likewise, or a writer stands between.  *)
NoLostWakeup ==
    /\ writers_ok # {} =>
         ReadHolders \cup WriteHolders \cup (PendingWriters \ writers_ok) # {}
    /\ readers_ok # {} =>
         WriteHolders \cup PendingWriters # {}

(* With writer_preference = 1 no reader is let in while a writer is inside      *)
(* rwlock_wrlock, asleep or not: readers overtake no writer that came before    *)
(* them (program_6_.c:47-49).                                                   *)
WriterPreference ==
    [][\A r \in Threads :
          writer_preference = 1 /\ pc[r] = "rd_test" /\ pc'[r] = "reading"
             => PendingWriters = {}]_vars

(* What the comment "0 = reader preference" (program_6_.c:22) and the program's *)
(* "Using Reader preference mode" (line 114) promise: in that mode no writer is *)
(* let in over readers that are left asleep on readers_ok.                      *)
ReaderPreference ==
    [][\A w \in Threads :
          writer_preference = 0 /\ pc[w] = "wr_test" /\ pc'[w] = "writing"
             => readers_ok = {}]_vars

(* The lock implements the read-write lock every list of the repository         *)
(* expects: a thread holds it from the step that increments its counter to the  *)
(* step that releases it.                                                       *)
Abstract == INSTANCE ReadWriteLock WITH reading <- ReadHolders,
                                        writing <- WriteHolders

ImplementsReadWriteLock == Abstract!LockSpec

(* Every thread gets through all its operations and pthread_join returns for    *)
(* all of them: nobody sleeps for ever (program_6_.c:124-125).                  *)
Termination == <>(\A t \in Threads : Done(t))
================================================================================
