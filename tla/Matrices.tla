-------------------------------- MODULE Matrices --------------------------------
(* What the matrix programs do with arrays that hold matrices row by row:        *)
(* Assignment 04/Task 1 in its three versions, mpi-1/Matrix_Multiplication.c and *)
(* pthreads-1/matrix_vector_multiplication.c.  An array is a sequence; place q   *)
(* of the program is place q + 1 here.                                           *)
EXTENDS Integers, Sequences

(* An element is named after where it is written first, and by whom. *)
Element(b, r, place) == <<b, r, place>>

Garbage == Element("not written", 0, 0)

Unwritten(length) == [c \in 1 .. length |-> Garbage]

(* The part number nr of `count' elements; with count = N a row. *)
Part(array, nr, count) == SubSeq(array, nr * count + 1, nr * count + count)

(* The elements overwrite the array from the place `first' on. *)
Overwritten(array, first, elements) ==
    SubSeq(array, 1, first) \o elements
        \o SubSeq(array, first + Len(elements) + 1, Len(array))

(* A slip (no part of the models), and the transposition of an n x n matrix into *)
(* col_matrixB: the elements k + j with j a multiple of n, for each column k.    *)
CopiedByRows(matrix, n) == matrix

Transposed(matrix, n) ==
    [c \in 1 .. n * n |-> matrix[((c - 1) \div n) + ((c - 1) % n) * n + 1]]

(* Row i times column j, a row of the transposed matrix: of a sum of n products  *)
(* the two sequences of its factors.                                             *)
DotProduct(rows, i, columns, j, n) == << Part(rows, i, n), Part(columns, j, n) >>

(* The first `height' rows of `rows' times `width' columns. *)
Product(rows, height, columns, width, n) ==
    [c \in 1 .. height * width |->
        DotProduct(rows, (c - 1) \div width, columns, (c - 1) % width, n)]

(* The reference: row i of one matrix with column j of the other, element by     *)
(* element.                                                                      *)
RowByColumn(a, b, i, j, n) ==
    << [k \in 1 .. n |-> a[i * n + k]], [k \in 1 .. n |-> b[(k - 1) * n + j + 1]] >>
================================================================================
