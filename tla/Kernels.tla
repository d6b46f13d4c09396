--------------------------------- MODULE Kernels --------------------------------
(* The CUDA programs: which element of the result each thread of the grid        *)
(* computes.                                                                     *)
(*   Cuda Programs/pi_value_estimate.cu      compute_pi: one term per thread     *)
(*   Cuda Programs/Matrix_Multiplication.cu  populate_matrix, MatrixMulKernel:   *)
(*                                           one element of N x N per thread     *)
(* A launch is one step; of the elements it computes the model follows one, any  *)
(* one.  What a thread computes is named by the row and the column it is made of.*)
(* The index is an int and wraps around beyond IntMax; the sizes the host        *)
(* computes do not come so far, and memory and launches are granted.             *)
EXTENDS Integers, FiniteSets

CONSTANTS
    Side,   \* the side of a block, 32 in the programs; a block has Side^2 threads
    MaxWork,    \* bound on Work, which N from the command line decides
    IntMax      \* the largest int, 2^31 - 1 in the programs

VARIABLES
    kernel, N,
    element,    \* the term, or the element of the product, that is followed
    launched,
    computed,   \* the threads that have computed it
    result      \* what has been stored there last

vars == <<kernel, N, element, launched, computed, result>>

Kernels == {"compute_pi", "populate_matrix", "MatrixMulKernel"}

NoThread == <<-1, -1>>

Before == -1    \* stands for all places before the first element

isqrt(m) == CHOOSE s \in 0 .. m : s * s <= m /\ m < (s + 1) * (s + 1)

(* What the kernel divides among threads: N terms, or N^2 elements. *)
Work == IF kernel = "compute_pi" THEN N ELSE N * N

(* One block if that is enough, else blocks of Side x Side. *)
BlockSide ==
    IF Work > Side * Side THEN Side
    ELSE IF kernel = "compute_pi" THEN isqrt(N) ELSE N

num_blocks == (Work + Side * Side - 1) \div (Side * Side)

(* compute_pi has a row of blocks, the others a square of them. *)
Columns == num_blocks * BlockSide
Rows == IF kernel = "compute_pi" THEN BlockSide ELSE Columns

(* A slip and the guard of the kernels.  Operators named for a slip are not part *)
(* of the model.                                                                 *)
InBoundsInclusive(i) == i <= Work

InBounds(i) == i < Work

wrapped(x) == ((x + IntMax + 1) % (2 * (IntMax + 1))) - (IntMax + 1)

(* Row * N + Col. *)
idx(t) == wrapped(t[1] * N + t[2])

Place(i) == IF i < 0 THEN Before ELSE i

(* The threads that pass the test and whose idx is the element followed. *)
ComputedBy ==
    {t \in (0 .. Rows - 1) \X (0 .. Columns - 1) :
        InBounds(idx(t)) /\ Place(idx(t)) = element}

TypeOK ==
    /\ kernel \in Kernels
    /\ N \in 1 .. MaxWork
    /\ Work <= MaxWork
    /\ element \in Before .. Work
    /\ launched \in BOOLEAN
    /\ computed \subseteq Nat \X Nat
    /\ result \in Int \X Int

(* Elements 0 .. Work - 1, the place after the last one and those before them. *)
Init ==
    /\ kernel \in Kernels
    /\ N \in 1 .. MaxWork
    /\ Work <= MaxWork
    /\ element \in Before .. Work
    /\ launched = FALSE
    /\ computed = {}
    /\ result = NoThread

(* populate_matrix seeds its generator with idx; MatrixMulKernel multiplies the   *)
(* thread's own row and column.                                                  *)
Stored(t) == IF kernel = "populate_matrix" THEN <<element \div N, element % N>> ELSE t

(* Each thread adds its term atomically, or stores its element: which of several *)
(* stores comes last is not determined.                                          *)
Launch ==
    /\ ~launched
    /\ launched' = TRUE
    /\ computed' = ComputedBy
    /\ result' \in IF ComputedBy = {} THEN {NoThread} ELSE {Stored(t) : t \in ComputedBy}
    /\ UNCHANGED <<kernel, N, element>>

Copied == launched /\ UNCHANGED vars

Next == Launch \/ Copied

Spec == Init /\ [][Next]_vars

--------------------------------------------------------------------------------

(* The thread whose Row and Col are those of the element. *)
Own == <<element \div N, element % N>>

(* The elements of its row and its column that a thread of MatrixMulKernel reads *)
(* are all in the matrix.                                                        *)
ReadsInside(t) == t[1] < N /\ (N - 1) * N + t[2] < Work

(* Where the last thread of the grid would come without wrapping around. *)
Largest == (Rows - 1) * N + Columns - 1

(* What the threads of a grid do to one element of the result, to the place      *)
(* after it and to the places before it:                                         *)
(* - nobody goes past the end, and somebody goes before the beginning just when  *)
(*   an index overflows: it becomes negative and passes the test.  That is from  *)
(*   N = 4096 on for the matrices, whose grid has about N^2 / 32 rows            *)
(*   (Matrix_Multiplication.cu:17-19, 46-47, 78), and from about 69 million      *)
(*   terms on for compute_pi (pi_value_estimate.cu:19, 28);                      *)
(* - compute_pi adds a term once, but only the terms below the number of columns *)
(*   of its grid, which is the square root of N up to 1024 and then about N / 32 *)
(*   (pi_value_estimate.cu:47, 60-68);                                           *)
(* - populate_matrix leaves in each place what the element's own thread stores,  *)
(*   because all that come there store the same;                                 *)
(* - MatrixMulKernel is right as long as one block holds the matrix (N <= 32,    *)
(*   line 80).  Beyond that threads whose Col is not in the matrix pass the test *)
(*   of line 47 as well and store an element of the next rows: the first element *)
(*   of the second row is computed by one that reads past the end of Nd too.     *)
EachElementOnce ==
    launched =>
        /\ element = Work => computed = {}
        /\ element = Before => (computed = {} <=> Largest <= IntMax)
        /\ element \in 0 .. Work - 1 /\ kernel = "compute_pi" /\ Largest <= IntMax
              => Cardinality(computed) = IF element < Columns THEN 1 ELSE 0
        /\ element \in 0 .. Work - 1 /\ kernel = "populate_matrix" => result = Own
        /\ element \in 0 .. Work - 1 /\ kernel = "MatrixMulKernel"
              => /\ Own \in computed
                 /\ N <= Side => result = Own /\ \A t \in computed : ReadsInside(t)
                 /\ N > Side /\ element = N => \E t \in computed : ~ReadsInside(t)
================================================================================
