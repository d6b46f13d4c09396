--------------------------------- MODULE RankSet --------------------------------
(* The ranks of the threads a program of pthreads-1 creates: main numbers them   *)
(* from 0 to thread_count - 1, which it reads from the command line.             *)
EXTENDS Integers

CONSTANT thread_count

ASSUME RanksAssumption == thread_count \in Nat \ {0}

Ranks == 0 .. thread_count - 1

NoRank == -1
================================================================================
