------------------------------ MODULE MatrixProduct -----------------------------
(* The matrix programs of threads that share their arrays, one at a time:        *)
(*   Assignment 04/Task 1/pthreads.c             "pthreads"                      *)
(*   Assignment 04/Task 1/omp.c                  "omp"                           *)
(*   pthreads-1/matrix_vector_multiplication.c   "vector"                        *)
(* Threads fill two matrices, row by row; main, alone, transposes the second;    *)
(* threads multiply, row by row.  The third program fills its matrix and vector  *)
(* in main and only multiplies.  No lock is taken: what keeps the phases apart   *)
(* is that main joins all threads, and what keeps two threads apart is that      *)
(* their rows are not the same.                                                  *)
EXTENDS Matrices

CONSTANTS MaxThreads, MaxSide   \* bounds on the arguments of the programs

VARIABLES
    program, N, thread_count,
    team,       \* how many threads work in each phase
    phase,
    rows_done,  \* how many rows each thread has done in the phase
    matrix1, matrix2, col_matrixB, result

vars == <<program, N, thread_count, team, phase, rows_done, matrix1, matrix2,
          col_matrixB, result>>

Threads == 0 .. thread_count - 1
Phases == {"populate", "transpose", "multiply", "done"}

local_rows == N \div thread_count
Columns == IF program = "vector" THEN 1 ELSE N

(* The vector takes the place of the only column there is. *)
Vector == [c \in 1 .. N |-> Element("vector", 0, c)]
FilledByMain == [c \in 1 .. N * N |-> Element("matrix1", 0, c)]

(* The programs of Task 1 refuse to start unless thread_count divides N; the     *)
(* dimension of the third is 4.  OpenMP may run a region with fewer threads than *)
(* asked for.                                                                    *)
Init ==
    /\ program \in {"pthreads", "omp", "vector"}
    /\ N \in 1 .. MaxSide
    /\ thread_count \in 1 .. MaxThreads
    /\ IF program = "vector" THEN N = 4 ELSE N % thread_count = 0
    /\ team \in [{"populate", "multiply"} -> 1 .. thread_count]
    /\ program # "omp" => \A f \in DOMAIN team : team[f] = thread_count
    /\ phase = IF program = "vector" THEN "multiply" ELSE "populate"
    /\ rows_done = [t \in Threads |-> 0]
    /\ matrix1 = IF program = "vector" THEN FilledByMain ELSE Unwritten(N * N)
    /\ matrix2 = Unwritten(N * N)
    /\ col_matrixB = IF program = "vector" THEN Vector ELSE Unwritten(N * N)
    /\ result = Unwritten(N * Columns)

TypeOK ==
    /\ program \in {"pthreads", "omp", "vector"}
    /\ N \in 1 .. MaxSide /\ thread_count \in 1 .. MaxThreads
    /\ team \in [{"populate", "multiply"} -> 1 .. thread_count]
    /\ phase \in Phases
    /\ rows_done \in [Threads -> 0 .. 2 * local_rows]
    /\ Len(matrix1) = N * N /\ Len(matrix2) = N * N
    /\ Len(result) = N * Columns

--------------------------------------------------------------------------------

start_row(t) == t * local_rows

(* What a thread still has to do in a phase: rows of both matrices, or of one. *)
RowsIn(f) == IF f = "populate" THEN 2 * local_rows ELSE local_rows

Working(t, f) == phase = f /\ t < team[f] /\ rows_done[t] < RowsIn(f)

(* A slip (no part of the model), and then the joins, or the barrier that ends   *)
(* an OpenMP region.                                                             *)
FirstJoined(f) == rows_done[0] = RowsIn(f)

AllJoined(f) == \A t \in Threads : t < team[f] => rows_done[t] = RowsIn(f)

(* Row i as thread t fills it with its random numbers. *)
RandomRow(b, t, i) == [c \in 1 .. N |-> Element(b, t, i * N + c)]

(* First all its rows of matrix1, then all of matrix2. *)
PopulateRow(t) ==
    LET k == rows_done[t]
        i == start_row(t) + (k % local_rows)
    IN
    /\ Working(t, "populate")
    /\ IF k < local_rows
       THEN /\ matrix1' = Overwritten(matrix1, i * N, RandomRow("matrix1", t, i))
            /\ UNCHANGED matrix2
       ELSE /\ matrix2' = Overwritten(matrix2, i * N, RandomRow("matrix2", t, i))
            /\ UNCHANGED matrix1
    /\ rows_done' = [rows_done EXCEPT ![t] = @ + 1]
    /\ UNCHANGED <<program, N, thread_count, team, phase, col_matrixB, result>>

JoinPopulate ==
    /\ phase = "populate" /\ AllJoined("populate")
    /\ phase' = "transpose"
    /\ UNCHANGED <<program, N, thread_count, team, rows_done, matrix1, matrix2,
                   col_matrixB, result>>

Transpose ==
    /\ phase = "transpose"
    /\ col_matrixB' = Transposed(matrix2, N)
    /\ phase' = "multiply"
    /\ rows_done' = [t \in Threads |-> 0]
    /\ UNCHANGED <<program, N, thread_count, team, matrix1, matrix2, result>>

MultiplyRow(t) ==
    LET i == start_row(t) + rows_done[t]
        row == [c \in 1 .. Columns |-> DotProduct(matrix1, i, col_matrixB, c - 1, N)]
    IN
    /\ Working(t, "multiply")
    /\ result' = Overwritten(result, i * Columns, row)
    /\ rows_done' = [rows_done EXCEPT ![t] = @ + 1]
    /\ UNCHANGED <<program, N, thread_count, team, phase, matrix1, matrix2,
                   col_matrixB>>

JoinMultiply ==
    /\ phase = "multiply" /\ AllJoined("multiply")
    /\ phase' = "done"
    /\ UNCHANGED <<program, N, thread_count, team, rows_done, matrix1, matrix2,
                   col_matrixB, result>>

ThreadStep(t) == PopulateRow(t) \/ MultiplyRow(t)

MainStep == JoinPopulate \/ Transpose \/ JoinMultiply

AllDone == phase = "done"

Next == (\E t \in Threads : ThreadStep(t)) \/ MainStep \/ (AllDone /\ UNCHANGED vars)

Spec == Init /\ [][Next]_vars

--------------------------------------------------------------------------------

(* The rows that the threads of a phase reach. *)
Reached(f) == team[f] * local_rows

FilledByOwners(b, matrix) ==
    \A i \in 0 .. N - 1 :
        Part(matrix, i, N) =
            IF i < Reached("populate") THEN RandomRow(b, i \div local_rows, i)
            ELSE Unwritten(N)

RightProduct(i, j) ==
    IF program = "vector" THEN << Part(matrix1, i, N), Vector >>
    ELSE RowByColumn(matrix1, matrix2, i, j, N)

(* At the end every row reached holds the product of what the two matrices hold  *)
(* then: nobody multiplied before everything was filled and transposed, and      *)
(* nobody wrote in another's rows (pthreads.c:39-73, omp.c:33-55).  Rows past    *)
(* the shares are never written: the rows that are left over when the threads do *)
(* not divide 4 (matrix_vector_multiplication.c:67-70), which main prints all    *)
(* the same, and in omp.c the rows of threads that OpenMP does not provide.      *)
ProductExact ==
    AllDone =>
        /\ program # "vector" => /\ FilledByOwners("matrix1", matrix1)
                                 /\ FilledByOwners("matrix2", matrix2)
        /\ \A i \in 0 .. N - 1, j \in 0 .. Columns - 1 :
              result[i * Columns + j + 1] =
                  IF i < Reached("multiply") THEN RightProduct(i, j) ELSE Garbage
================================================================================
