----------------------------- MODULE ReadWriteLock -----------------------------
(* What a read-write lock promises, whoever implements it: any number of      *)
(* readers or one writer.  The two lists of this repository that use           *)
(* pthread_rwlock_t rely on this and on nothing else, so this module is also   *)
(* the model of that external lock; RWLock.tla shows that the lock written by  *)
(* hand in "Assignment 03/program_6_.c" implements it.                         *)
EXTENDS Naturals, FiniteSets

CONSTANT Threads

VARIABLES
    reading,    \* the threads that hold the lock for reading
    writing     \* the threads that hold it for writing

lockVars == <<reading, writing>>

LockTypeOK ==
    /\ reading \subseteq Threads
    /\ writing \subseteq Threads

LockInit ==
    /\ reading = {}
    /\ writing = {}

(* pthread_rwlock_rdlock returns: no writer holds the lock. *)
AcquireRead(t) ==
    /\ t \notin reading
    /\ writing = {}
    /\ reading' = reading \cup {t}
    /\ UNCHANGED writing

(* pthread_rwlock_wrlock returns: nobody holds the lock. *)
AcquireWrite(t) ==
    /\ reading = {}
    /\ writing = {}
    /\ writing' = {t}
    /\ UNCHANGED reading

(* pthread_rwlock_unlock, by a holder of either kind. *)
Release(t) ==
    /\ t \in reading \cup writing
    /\ reading' = reading \ {t}
    /\ writing' = writing \ {t}

LockNext == \E t \in Threads : AcquireRead(t) \/ AcquireWrite(t) \/ Release(t)

LockSpec == LockInit /\ [][LockNext]_lockVars

(* A writer excludes every other holder, of either kind. *)
LockExclusion ==
    /\ writing # {} => reading = {}
    /\ Cardinality(writing) <= 1
================================================================================
