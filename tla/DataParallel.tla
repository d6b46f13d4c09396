------------------------------ MODULE DataParallel ------------------------------
(* The programs whose threads or processes divide data among them, one of them   *)
(* at a time: `family' says which kind, and the variables of the others stay as  *)
(* they are initially.                                                           *)
EXTENDS Integers, TLC

CONSTANTS
    MaxTerms, MaxRanks,                 \* of Shares
    Workers, MaxLength, TestValues,     \* of OddEvenSort
    Side, MaxWork, IntMax,              \* of Kernels
    MaxThreads, MaxSide                 \* of MatrixProduct

ASSUME BoundsAssumption ==
    /\ MaxTerms \in Nat \ {0} /\ MaxRanks \in Nat \ {0}
    /\ Workers # {} /\ MaxLength \in Nat \ {0} /\ TestValues \subseteq Int
    /\ Side \in Nat \ {0} /\ MaxWork \in Nat \ {0}
    /\ IntMax \in Nat /\ MaxWork + Side * Side - 1 <= IntMax
    /\ MaxThreads \in Nat \ {0} /\ MaxSide \in Nat \ {0}

VARIABLES
    family,
    program, n, p, share_team, total, loaded, share_c,              \* Shares
    mutex, flag, sent, next, share_pc,
    input, a, phase, todo, i, temp, sort_pc,                        \* OddEvenSort
    kernel, N, element, launched, computed, result,                 \* Kernels
    product, dim, thread_count, team, stage, rows_done,             \* MatrixProduct
    matrix1, matrix2, col_matrixB, matrix3

SH == INSTANCE Shares WITH team <- share_team, c <- share_c, pc <- share_pc
OE == INSTANCE OddEvenSort WITH pc <- sort_pc
KN == INSTANCE Kernels
MP == INSTANCE MatrixProduct WITH program <- product, N <- dim, phase <- stage,
                                  result <- matrix3

shareVars == <<program, n, p, share_team, total, loaded, share_c, mutex, flag, sent,
               next, share_pc>>
sortVars == <<input, a, phase, todo, i, temp, sort_pc>>
kernelVars == <<kernel, N, element, launched, computed, result>>
matrixVars == <<product, dim, thread_count, team, stage, rows_done, matrix1, matrix2,
                col_matrixB, matrix3>>
vars == <<family, shareVars, sortVars, kernelVars, matrixVars>>

(* The initial state of a family that does not run is one of its own. *)
IdleShares ==
    /\ program = SH!pi_busy_waiting /\ n = 0 /\ p = 1

IdleSort == input = OE!ProgramArray

IdleKernel == kernel = "compute_pi" /\ N = 1 /\ element = 0

IdleMatrix == product = "pthreads" /\ dim = 1 /\ thread_count = 1

Init ==
    /\ family \in {"shares", "sort", "kernel", "matrix"}
    /\ SH!Init /\ (family = "shares" \/ IdleShares)
    /\ OE!Init /\ (family = "sort" \/ IdleSort)
    /\ KN!Init /\ (family = "kernel" \/ IdleKernel)
    /\ MP!Init /\ (family = "matrix" \/ IdleMatrix)

ShareStep ==
    /\ family = "shares"
    /\ SH!Next
    /\ UNCHANGED <<family, sortVars, kernelVars, matrixVars>>

SortStep ==
    /\ family = "sort"
    /\ OE!Next
    /\ UNCHANGED <<family, shareVars, kernelVars, matrixVars>>

KernelStep ==
    /\ family = "kernel"
    /\ KN!Next
    /\ UNCHANGED <<family, shareVars, sortVars, matrixVars>>

MatrixStep ==
    /\ family = "matrix"
    /\ MP!Next
    /\ UNCHANGED <<family, shareVars, sortVars, kernelVars>>

Next == ShareStep \/ SortStep \/ KernelStep \/ MatrixStep

Spec == Init /\ [][Next]_vars

(* The threads of the sort are interchangeable. *)
Symmetry == Permutations(Workers)

--------------------------------------------------------------------------------

(* The type invariants of the four modules. *)
TypeOK == SH!TypeOK /\ OE!TypeOK /\ KN!TypeOK /\ MP!TypeOK

(* Every sum and integral holds each of its parts exactly as often as one thread *)
(* would have added it, as far as the shares or the grid reach; the modules say  *)
(* how far that is for each program.  On the way every variable has its type.    *)
PartsExact == TypeOK /\ SH!SumExact /\ KN!EachElementOnce

(* The matrices multiplied by threads are multiplied right, as far as the rows   *)
(* of the threads reach.                                                         *)
ProductExact == MP!ProductExact

(* The odd-even transposition of sort_sol1.c and sort_sol2.c sorts.              *)
Sorted == OE!Sorted
================================================================================
