------------------------------- MODULE Collectives ------------------------------
(* The MPI programs made of collective operations, one of them at a time:        *)
(*   Assignment 04/Task 1/mpi.c        "product"   matrix times matrix           *)
(*   mpi-1/Matrix_Multiplication.c     "vector"    matrix times vector           *)
(*   mpi-1/MPI_Scatter.c, MPI_Gather.c, MPI_AllGather.c                          *)
(* A program is the sequence of its collectives.  Between two of them a rank     *)
(* works on arrays of its own, so that what it computes there is part of the     *)
(* step that leaves the first.  No array is written again once it is given to a  *)
(* collective: when a rank has been read from makes no difference.               *)
EXTENDS Matrices

CONSTANTS
    MaxSize,    \* bound on the number of processes
    MaxDim      \* bound on the dimension of "product", from the command line

VARIABLES
    program, size,
    dim,        \* N; in the last three the elements per rank
    eager,      \* whether a rank leaves a collective that needs nothing from it
                \* before the others have joined
    tested,     \* whether rank 0 has made its test
    stage,      \* the collective each rank is in or has reached
    mem,        \* the arrays of each rank; a NULL pointer is an empty one
    aborted

vars == <<program, size, dim, eager, tested, stage, mem, aborted>>

Programs == {"product", "vector", "scatter", "gather", "allgather"}

Dimensions ==
    CASE program = "product" -> 1 .. MaxDim
      [] program = "vector" -> {4}
      [] program \in {"scatter", "gather"} -> {5}
      [] program = "allgather" -> {3}

Ranks == 0 .. size - 1

local_rows == dim \div size

Columns == IF program = "vector" THEN 1 ELSE dim

(* Elements of a rank's share of a matrix, or of its array in the last three.    *)
Chunk == IF program \in {"product", "vector"} THEN local_rows * dim ELSE dim

--------------------------------------------------------------------------------
(* The programs.  `part1' and `part2' are what populate_matrix and the last      *)
(* three fill; the vector, the one column it is multiplied with, is col_matrixB. *)

Call(op, from, to, count, then) ==
    [op |-> op, from |-> from, to |-> to, count |-> count, then |-> then]

ProductCalls ==
    << Call("gather", "part1", "matrix1", Chunk, "go on"),
       Call("gather", "part2", "matrix2", Chunk, "transpose"),
       Call("bcast", "col_matrixB", "col_matrixB", dim * dim, "go on"),
       Call("scatter", "matrix1", "local_matrix1", Chunk, "multiply"),
       Call("gather", "local_C", "result", Chunk, "go on") >>

VectorCalls ==
    << Call("scatter", "matrix1", "local_matrix1", Chunk, "go on"),
       Call("bcast", "col_matrixB", "col_matrixB", dim, "multiply"),
       Call("gather", "local_C", "result", local_rows, "go on") >>

ScatterCalls == << Call("scatter", "matrix1", "local_matrix1", Chunk, "go on") >>

GatherCalls == << Call("gather", "part1", "matrix1", Chunk, "go on") >>

AllgatherCalls == << Call("allgather", "part1", "matrix1", Chunk, "go on") >>

Calls ==
    CASE program = "product" -> ProductCalls
      [] program = "vector" -> VectorCalls
      [] program = "scatter" -> ScatterCalls
      [] program = "gather" -> GatherCalls
      [] program = "allgather" -> AllgatherCalls

(* After its last collective a rank is in MPI_Finalize. *)
Finalize == Len(Calls) + 1

Arrays == UNION {{Calls[k].from, Calls[k].to} : k \in 1 .. Len(Calls)}

Length(b) ==
    CASE b \in {"part1", "part2", "local_matrix1"} -> Chunk
      [] b = "local_C" -> local_rows * Columns
      [] b \in {"matrix1", "matrix2"} ->
            IF program \in {"product", "vector"} THEN dim * dim ELSE size * dim
      [] b \in {"col_matrixB", "result"} -> dim * Columns

(* The arrays of rank 0 alone. *)
AtRoot ==
    CASE program = "vector" -> {"matrix1", "col_matrixB", "result"}
      [] program = "allgather" -> {}
      [] OTHER -> {"matrix1", "matrix2", "result"}

(* The arrays that the program fills itself, before its first collective. *)
FilledFirst ==
    {"part1", "part2"}
    \cup IF program \in {"vector", "scatter"} THEN {"matrix1", "col_matrixB"} ELSE {}

Allocated(r, b) ==
    [c \in 1 .. IF b \in AtRoot /\ r # 0 THEN 0 ELSE Length(b) |->
        IF b \in FilledFirst THEN Element(b, r, c) ELSE Garbage]

Init ==
    /\ program \in Programs
    /\ size \in 1 .. MaxSize /\ dim \in Dimensions
    /\ eager \in BOOLEAN
    /\ tested = (program # "product")
    /\ stage = [r \in Ranks |-> 1]
    /\ mem = [r \in Ranks |-> [b \in Arrays |-> Allocated(r, b)]]
    /\ aborted = FALSE

TypeOK ==
    /\ program \in Programs
    /\ size \in 1 .. MaxSize /\ dim \in Dimensions
    /\ eager \in BOOLEAN
    /\ tested \in BOOLEAN
    /\ stage \in [Ranks -> 1 .. Finalize + 1]
    /\ \A r \in Ranks : \A b \in Arrays : Len(mem[r][b]) = Len(Allocated(r, b))
    /\ aborted \in BOOLEAN

--------------------------------------------------------------------------------
(* What the collectives and the loops between them do to the arrays.             *)

(* MPI_Gather puts the part of rank q at place q * count. *)
Gathered(c) ==
    [k \in 1 .. size * c.count |->
        mem[(k - 1) \div c.count][c.from][((k - 1) % c.count) + 1]]

(* What rank r has in the array that collective c fills, when it leaves it. *)
Received(r, c) ==
    LET own == mem[r][c.to] IN
    CASE c.op = "gather" -> IF r = 0 THEN Overwritten(own, 0, Gathered(c)) ELSE own
      [] c.op = "allgather" -> Overwritten(own, 0, Gathered(c))
      [] c.op = "scatter" -> Overwritten(own, 0, Part(mem[0][c.from], r, c.count))
      [] c.op = "bcast" -> Overwritten(own, 0, Part(mem[0][c.from], 0, c.count))

Computed(r, arrays, then) ==
    CASE then = "transpose" /\ r = 0 ->
            [arrays EXCEPT !["col_matrixB"] = Transposed(arrays["matrix2"], dim)]
      [] then = "multiply" ->
            [arrays EXCEPT !["local_C"] =
                Product(arrays["local_matrix1"], local_rows,
                        arrays["col_matrixB"], Columns, dim)]
      [] OTHER -> arrays

--------------------------------------------------------------------------------

(* A slip (no part of the model), and then rank 0's test, which only the product *)
(* has: that the processes divide the dimension.                                 *)
RefusedIfTooMany == program = "product" /\ size > dim

Refused == program = "product" /\ dim % size # 0

(* Lines 23-29, by rank 0; it goes to its first collective or to MPI_Finalize.   *)
Test ==
    /\ ~tested
    /\ tested' = TRUE
    /\ stage' = IF Refused THEN [stage EXCEPT ![0] = Finalize] ELSE stage
    /\ UNCHANGED <<program, size, dim, eager, mem, aborted>>

(* Rank r takes part in collective k, or in MPI_Finalize. *)
Joined(r, k) ==
    /\ stage[r] >= k
    /\ r = 0 => tested /\ (Refused => k = Finalize)

AllJoined(k) == \A r \in Ranks : Joined(r, k)

(* When rank r may return from collective k: the root of a gather needs every    *)
(* rank's part, and so does every rank that gathers from all; a rank of a        *)
(* broadcast or a scatter needs the root's.                                      *)
MayReturn(r, k) ==
    LET op == IF k = Finalize THEN "finalize" ELSE Calls[k].op IN
    CASE op = "gather" -> IF r = 0 THEN AllJoined(k) ELSE eager \/ Joined(0, k)
      [] op = "allgather" -> AllJoined(k)
      [] op \in {"bcast", "scatter"} -> IF r = 0 THEN eager \/ AllJoined(k) ELSE Joined(0, k)
      [] op = "finalize" -> eager \/ AllJoined(k)

(* Rank r is to receive a broadcast where its pointer is NULL. *)
Nowhere(r, c) == c.op = "bcast" /\ mem[r][c.to] = <<>>

Leave(r, k) ==
    LET c == Calls[k] IN
    IF Nowhere(r, c)
    THEN aborted' = TRUE /\ UNCHANGED <<stage, mem>>
    ELSE /\ stage' = [stage EXCEPT ![r] = k + 1]
         /\ mem' = [mem EXCEPT ![r] =
                       Computed(r, [@ EXCEPT ![c.to] = Received(r, c)], c.then)]
         /\ UNCHANGED aborted

(* The ranks that may leave the collective they are in. *)
Ready == {r \in Ranks : /\ stage[r] <= Finalize
                        /\ Joined(r, stage[r]) /\ MayReturn(r, stage[r])}

Return(r) ==
    /\ r \in Ready /\ stage[r] < Finalize
    /\ Leave(r, stage[r])
    /\ UNCHANGED <<program, size, dim, eager, tested>>

Exit(r) ==
    /\ r \in Ready /\ stage[r] = Finalize
    /\ stage' = [stage EXCEPT ![r] = Finalize + 1]
    /\ UNCHANGED <<program, size, dim, eager, tested, mem, aborted>>

RankStep(r) == ~aborted /\ ((r = 0 /\ Test) \/ Return(r) \/ Exit(r))

AllDone == \A r \in Ranks : stage[r] = Finalize + 1

Next == \E r \in Ranks : RankStep(r)

Spec == Init /\ [][Next]_vars

--------------------------------------------------------------------------------

(* The sizes with which a program can end: the product's processes must divide   *)
(* its dimension, and the vector has room at rank 0 only.                        *)
CanEnd ==
    /\ program = "product" => dim % size = 0
    /\ program = "vector" => size = 1

(* Rank r has what its last collective brought it. *)
Served(r) == ~Refused /\ stage[r] >= Finalize

(* Both matrices are made of the ranks' parts in the order of the ranks, and     *)
(* every element of the product of one's whole row and the other's whole column. *)
MatrixProduct ==
    LET m == mem[0] IN
    /\ \A q \in Ranks : /\ Part(m["matrix1"], q, Chunk) = mem[q]["part1"]
                        /\ Part(m["matrix2"], q, Chunk) = mem[q]["part2"]
    /\ \A i, j \in 0 .. dim - 1 :
          m["result"][i * dim + j + 1] =
              RowByColumn(m["matrix1"], m["matrix2"], i, j, dim)

VectorProduct ==
    \A i \in 0 .. dim - 1 :
        mem[0]["result"][i + 1] = << Part(mem[0]["matrix1"], i, dim), mem[0]["col_matrixB"] >>

AllParts(r) ==
    \A q \in Ranks : Part(mem[r]["matrix1"], q, Chunk) = mem[q]["part1"]

OwnPart(r) == mem[r]["local_matrix1"] = Part(mem[0]["matrix1"], r, Chunk)

(* Whoever hurries ahead and whoever is late: the matrix printed is the product  *)
(* of the two printed before it (mpi.c:44-92), through two gathers, a            *)
(* transposition, a broadcast, a scatter and a third gather; so is the vector of *)
(* mpi-1, if it gets that far; and each rank of the other programs has the parts *)
(* it should, in order.                                                          *)
ProductExact ==
    \A r \in Ranks : Served(r) =>
        CASE program = "product" -> r = 0 => MatrixProduct
          [] program = "vector" -> r = 0 => VectorProduct
          [] program = "scatter" -> OwnPart(r)
          [] program = "gather" -> r = 0 => AllParts(r)
          [] program = "allgather" -> AllParts(r)
================================================================================
