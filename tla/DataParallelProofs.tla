--------------------------- MODULE DataParallelProofs --------------------------
(* Proofs about the four kinds of programs of DataParallel, of each of which one *)
(* runs.                                                                         *)
(* Matrices: however the threads' reads and writes of whole rows interleave, the *)
(* product is right when main prints it.  The arguments are about rows (two      *)
(* threads write different ones), about phases (nobody reads what somebody still *)
(* writes), and about places in an array, which are q = row * width + column in  *)
(* exactly one way.                                                              *)
(* Sorting: the odd-even transposition sorts.  For every v the places that hold  *)
(* v or more move to the end, one place in each phase once they have started,    *)
(* and the exchanges of a phase are of disjoint pairs.                           *)
(* Kernels: each element has its own thread, alone as long as one block is       *)
(* enough; an index that stays below IntMax is what the formula says, and one    *)
(* that does not first becomes negative.                                         *)
(* Shares: the shares of the ranks follow each other without a gap, also when    *)
(* not all of them run, and each part is added to a sum that nobody else adds to *)
(* meanwhile.                                                                    *)
EXTENDS DataParallel, Sequences, SequenceTheorems, FiniteSetTheorems,
        WellFoundedInduction, TLAPS

--------------------------------------------------------------------------------
(* Arithmetic of rows. *)

(* A row ends where the next one starts, or before. *)
LEMMA RowEnds ==
    ASSUME NEW x \in Nat, NEW y \in Nat, NEW w \in Nat, x < y
    PROVE  x * w + w <= y * w
<1>1. PICK d \in Nat : y = x + 1 + d
  <2>1. y - x - 1 \in Nat /\ y = x + 1 + (y - x - 1) OBVIOUS
  <2> QED BY <2>1
<1>2. y * w = x * w + w + d * w BY <1>1
<1>3. d * w \in Nat OBVIOUS
<1>4. x * w \in Nat OBVIOUS
<1> QED BY <1>2, <1>3, <1>4

(* Different rows have no place in common. *)
LEMMA RowsApart ==
    ASSUME NEW x \in Nat, NEW y \in Nat, NEW w \in Nat, x # y, NEW c \in 1 .. w
    PROVE  ~(y * w < x * w + c /\ x * w + c <= y * w + w)
<1>1. x * w \in Nat /\ y * w \in Nat OBVIOUS
<1>2. CASE x < y BY <1>1, <1>2, RowEnds
<1>3. CASE y < x
  <2>1. y * w + w <= x * w BY <1>3, RowEnds
  <2> QED BY <1>1, <2>1
<1> QED BY <1>2, <1>3

(* A row of a matrix of h rows ends inside the matrix. *)
LEMMA RowInside ==
    ASSUME NEW x \in Nat, NEW h \in Nat, NEW w \in Nat, x < h
    PROVE  x * w \in Nat /\ x * w + w <= h * w /\ h * w \in Nat
BY RowEnds

(* A place is a row and a column, in one way. *)
LEMMA OneRowAndColumn ==
    ASSUME NEW w \in Nat \ {0}, NEW x \in Nat, NEW c \in 0 .. w - 1,
           NEW y \in Nat, NEW d \in 0 .. w - 1, x * w + c = y * w + d
    PROVE  x = y /\ c = d
<1>1. x * w \in Nat /\ y * w \in Nat OBVIOUS
<1>2. x = y
  <2>1. CASE x < y
    <3>1. x * w + w <= y * w BY <2>1, RowEnds
    <3> QED BY <1>1, <3>1
  <2>2. CASE y < x
    <3>1. y * w + w <= x * w BY <2>2, RowEnds
    <3> QED BY <1>1, <3>1
  <2> QED BY <2>1, <2>2
<1> QED BY <1>1, <1>2

(* Division with a remainder, and its result on row * width + column. *)
LEMMA Divided ==
    ASSUME NEW z \in Nat, NEW w \in Nat \ {0}
    PROVE  /\ z \div w \in Nat /\ z % w \in 0 .. w - 1
           /\ z = (z \div w) * w + (z % w)
OBVIOUS

LEMMA RowAndColumn ==
    ASSUME NEW x \in Nat, NEW w \in Nat \ {0}, NEW c \in 0 .. w - 1
    PROVE  (x * w + c) \div w = x /\ (x * w + c) % w = c
<1>1. PICK z \in Nat : z = x * w + c OBVIOUS
<1>2. PICK y \in Nat, d \in 0 .. w - 1 : y = z \div w /\ d = z % w /\ z = y * w + d
  BY Divided
<1>3. y = x /\ d = c BY <1>1, <1>2, OneRowAndColumn
<1> QED BY <1>1, <1>2, <1>3

--------------------------------------------------------------------------------
(* Arrays. *)

(* An array of that length, of whatever elements. *)
IsArray(arr, length) == arr = [c \in 1 .. length |-> arr[c]]

(* Overwriting changes the places overwritten and no other. *)
LEMMA OverwrittenAt ==
    ASSUME NEW len \in Nat, NEW arr, IsArray(arr, len),
           NEW m \in Nat, NEW e, IsArray(e, m), NEW first \in Nat, first + m <= len
    PROVE  /\ IsArray(MP!Overwritten(arr, first, e), len)
           /\ \A c \in 1 .. len : MP!Overwritten(arr, first, e)[c] =
                 IF first < c /\ c <= first + m THEN e[c - first] ELSE arr[c]
<1> DEFINE S == {arr[c] : c \in 1 .. len} \cup {e[c] : c \in 1 .. m}
<1>1. arr \in [1 .. len -> S] /\ e \in [1 .. m -> S] BY DEF IsArray
<1>2. arr \in Seq(S) /\ e \in Seq(S) BY <1>1, SeqDef
<1>3. Len(arr) = len /\ Len(e) = m
  <2>1. DOMAIN arr = 1 .. len /\ DOMAIN e = 1 .. m BY <1>1
  <2> HIDE DEF S
  <2>2. DOMAIN arr = 1 .. Len(arr) /\ DOMAIN e = 1 .. Len(e)
        /\ Len(arr) \in Nat /\ Len(e) \in Nat
    BY <1>2, LenProperties
  <2> QED BY <2>1, <2>2
<1> HIDE DEF S
<1> DEFINE before == SubSeq(arr, 1, first)
           after == SubSeq(arr, first + m + 1, len)
<1>4. /\ before \in Seq(S) /\ Len(before) = first
      /\ \A c \in 1 .. first : before[c] = arr[c]
  <2>1. \A c \in 1 .. first : arr[c] \in S BY <1>1
  <2> QED BY <2>1, SubSeqProperties
<1>5. /\ after \in Seq(S) /\ Len(after) = len - first - m
      /\ \A c \in 1 .. len - first - m : after[c] = arr[first + m + c]
  <2>1. \A c \in first + m + 1 .. len : arr[c] \in S BY <1>1
  <2> QED BY <2>1, SubSeqProperties
<1> HIDE DEF before, after
<1>6. /\ before \o e \in Seq(S) /\ Len(before \o e) = first + m
      /\ \A c \in 1 .. first + m :
            (before \o e)[c] = IF c <= first THEN arr[c] ELSE e[c - first]
  <2>1. /\ before \o e \in Seq(S) /\ Len(before \o e) = first + m
        /\ \A c \in 1 .. first + m :
              (before \o e)[c] = IF c <= first THEN before[c] ELSE e[c - first]
    BY <1>2, <1>3, <1>4, ConcatProperties
  <2>2. \A c \in 1 .. first + m : c <= first => c \in 1 .. first OBVIOUS
  <2> QED BY <1>4, <2>1, <2>2
<1> DEFINE front == before \o e
<1> HIDE DEF front
<1>7. /\ front \o after \in Seq(S) /\ Len(front \o after) = len
      /\ \A c \in 1 .. len : (front \o after)[c] =
            IF c <= first + m THEN front[c] ELSE after[c - (first + m)]
  BY <1>5, <1>6, ConcatProperties DEF front
<1>8. MP!Overwritten(arr, first, e) = front \o after
  BY <1>3 DEF MP!Overwritten, front, before, after
<1> DEFINE out == front \o after
<1> HIDE DEF out
<1>9. \A c \in 1 .. len :
         out[c] = IF first < c /\ c <= first + m THEN e[c - first] ELSE arr[c]
  <2> SUFFICES ASSUME NEW c \in 1 .. len
               PROVE  out[c] = IF first < c /\ c <= first + m THEN e[c - first] ELSE arr[c]
    OBVIOUS
  <2>1. CASE c <= first + m BY <1>6, <1>7, <2>1 DEF front, out
  <2>2. CASE c > first + m
    <3>1. out[c] = after[c - (first + m)] BY <1>7, <2>2 DEF out
    <3>2. c - (first + m) \in 1 .. len - first - m BY <2>2
    <3> QED BY <1>5, <2>2, <3>1, <3>2
  <2> QED BY <2>1, <2>2
<1>10. IsArray(out, len)
  <2>1. out \in [1 .. len -> S] BY <1>7, LenProperties DEF out
  <2> QED BY <2>1 DEF IsArray
<1> QED BY <1>8, <1>9, <1>10 DEF out

(* A matrix of h rows of w elements, and its element in row x and column c. *)
IsMatrix(arr, h, w) == IsArray(arr, h * w)
Cell(arr, w, x, c) == arr[x * w + c]
WithRow(arr, w, y, row) == MP!Overwritten(arr, y * w, row)

(* Overwriting a row changes the elements of that row and no other. *)
LEMMA RowOverwritten ==
    ASSUME NEW h \in Nat, NEW w \in Nat, NEW arr, IsMatrix(arr, h, w),
           NEW row, IsArray(row, w), NEW y \in 0 .. h - 1
    PROVE  /\ IsMatrix(WithRow(arr, w, y, row), h, w)
           /\ \A x \in 0 .. h - 1, c \in 1 .. w :
                 Cell(WithRow(arr, w, y, row), w, x, c) =
                     IF x = y THEN row[c] ELSE Cell(arr, w, x, c)
<1>1. PICK first \in Nat, len \in Nat : first = y * w /\ len = h * w /\ first + w <= len
  BY RowInside
<1> DEFINE new == MP!Overwritten(arr, first, row)
<1>2. /\ IsArray(new, len)
      /\ \A q \in 1 .. len :
            new[q] = IF first < q /\ q <= first + w THEN row[q - first] ELSE arr[q]
  BY <1>1, OverwrittenAt DEF IsMatrix
<1> HIDE DEF new
<1>3. ASSUME NEW x \in 0 .. h - 1, NEW c \in 1 .. w
      PROVE  Cell(new, w, x, c) = IF x = y THEN row[c] ELSE Cell(arr, w, x, c)
  <2>1. PICK q \in 1 .. len : q = x * w + c
    <3>1. x * w \in Nat /\ x * w + w <= h * w BY RowInside
    <3>2. x * w + c \in 1 .. len BY <1>1, <3>1
    <3> QED BY <3>2
  <2>2. CASE x = y
    <3>1. q = first + c BY <1>1, <2>1, <2>2
    <3>2. first < q /\ q <= first + w /\ q - first = c BY <3>1
    <3> QED BY <1>2, <2>1, <2>2, <3>2 DEF Cell
  <2>3. CASE x # y
    <3>1. ~(first < q /\ q <= first + w) BY <1>1, <2>1, <2>3, RowsApart
    <3> QED BY <1>2, <2>1, <2>3, <3>1 DEF Cell
  <2> QED BY <2>2, <2>3
<1> QED BY <1>1, <1>2, <1>3 DEF new, IsMatrix, WithRow

(* A part of an array, element by element. *)
LEMMA PartAt ==
    ASSUME NEW len \in Nat, NEW arr, IsArray(arr, len), NEW nr \in Nat, NEW w \in Nat,
           nr * w + w <= len
    PROVE  MP!Part(arr, nr, w) = [c \in 1 .. w |-> arr[nr * w + c]]
<1> DEFINE S == {arr[c] : c \in 1 .. len}
           first == nr * w
<1>1. first \in Nat OBVIOUS
<1> HIDE DEF first
<1>2. \A c \in first + 1 .. first + w : arr[c] \in S BY <1>1 DEF first
<1> HIDE DEF S
<1> DEFINE out == SubSeq(arr, first + 1, first + w)
<1>3. /\ out \in Seq(S) /\ Len(out) = w
      /\ \A c \in 1 .. w : out[c] = arr[first + c]
  BY <1>1, <1>2, SubSeqProperties
<1> HIDE DEF out
<1>4. out \in [1 .. w -> S] BY <1>3, LenProperties
<1>5. out = [c \in 1 .. w |-> arr[first + c]] BY <1>3, <1>4
<1> QED BY <1>5 DEF MP!Part, out, first

--------------------------------------------------------------------------------
(* The invariant of the matrix programs. *)

(* The rows each thread has to do. *)
lr == MP!local_rows

(* The rows done in phase f, by the threads that have started their skip + 1st. *)
RowsDone(f, skip) ==
    {y \in 0 .. dim - 1 : \E t \in MP!Threads, k \in 0 .. lr - 1 :
        t < team[f] /\ skip + k < rows_done[t] /\ y = MP!start_row(t) + k}

(* All that phase f reaches. *)
RowsOf(f) == {y \in 0 .. dim - 1 : y < MP!Reached(f)}

(* The rows given hold the random numbers of the threads that own them, and the  *)
(* others are as malloc left them.                                               *)
Filled(b, matrix, rows) ==
    /\ IsMatrix(matrix, dim, dim)
    /\ \A y \in 0 .. dim - 1, c \in 1 .. dim :
          Cell(matrix, dim, y, c) =
              IF y \in rows THEN MP!Element(b, y \div lr, y * dim + c) ELSE MP!Garbage

(* The rows given hold the product of what matrix1 and col_matrixB hold now.     *)
Multiplied(rows) ==
    /\ IsMatrix(matrix3, dim, MP!Columns)
    /\ \A y \in 0 .. dim - 1, c \in 1 .. MP!Columns :
          Cell(matrix3, MP!Columns, y, c) =
              IF y \in rows THEN MP!DotProduct(matrix1, y, col_matrixB, c - 1, dim)
                            ELSE MP!Garbage

MatrixTypes ==
    /\ product \in {"pthreads", "omp", "vector"}
    /\ dim \in Nat \ {0} /\ thread_count \in Nat \ {0}
    /\ team \in [{"populate", "multiply"} -> 1 .. thread_count]
    /\ stage \in MP!Phases
    /\ rows_done \in [MP!Threads -> Nat]

(* While the threads populate, exactly the rows done are filled, of matrix2 only *)
(* after all of the thread's rows of matrix1; from then on nothing changes them. *)
Inputs ==
    IF product = "vector"
    THEN /\ stage \in {"multiply", "done"}
         /\ IsMatrix(matrix1, dim, dim)
         /\ col_matrixB = MP!Vector
    ELSE /\ stage = "populate" => /\ Filled("matrix1", matrix1, RowsDone("populate", 0))
                                  /\ Filled("matrix2", matrix2, RowsDone("populate", lr))
         /\ stage # "populate" => /\ Filled("matrix1", matrix1, RowsOf("populate"))
                                  /\ Filled("matrix2", matrix2, RowsOf("populate"))
         /\ stage \in {"multiply", "done"} => col_matrixB = MP!Transposed(matrix2, dim)

(* Nothing is multiplied before the transposition is done, and then exactly the  *)
(* rows done.                                                                    *)
Results ==
    /\ stage \in {"populate", "transpose"} => Multiplied({})
    /\ stage = "multiply" => Multiplied(RowsDone("multiply", 0))
    /\ stage = "done" => Multiplied(RowsOf("multiply"))

MatrixInv == MatrixTypes /\ Inputs /\ Results

--------------------------------------------------------------------------------

(* The threads' rows do not go past the last row of the matrix. *)
LEMMA SharesFit ==
    ASSUME MatrixTypes
    PROVE  /\ lr \in Nat
           /\ thread_count * lr <= dim
           /\ MP!Columns \in Nat \ {0}
           /\ dim * dim \in Nat /\ dim * MP!Columns \in Nat
<1>1. PICK q \in Nat, r \in 0 .. thread_count - 1 :
          q = dim \div thread_count /\ r = dim % thread_count /\ dim = q * thread_count + r
  BY Divided DEF MatrixTypes
<1>2. lr = q BY <1>1 DEF lr, MP!local_rows
<1>3. MP!Columns \in Nat \ {0} BY DEF MatrixTypes, MP!Columns
<1>4. thread_count * q = q * thread_count /\ q * thread_count \in Nat
  BY <1>1 DEF MatrixTypes
<1> QED BY <1>1, <1>2, <1>3, <1>4 DEF MatrixTypes

(* The k-th row of thread t: it is a row of the matrix, and its owner is t. *)
LEMMA OwnRow ==
    ASSUME MatrixTypes, NEW t \in MP!Threads, NEW k \in 0 .. lr - 1
    PROVE  /\ MP!start_row(t) + k \in 0 .. dim - 1
           /\ (MP!start_row(t) + k) \div lr = t
<1>1. /\ lr \in Nat \ {0} /\ t \in Nat /\ t < thread_count /\ thread_count \in Nat
      /\ dim \in Nat /\ thread_count * lr <= dim
  BY SharesFit DEF MatrixTypes, MP!Threads
<1>2. MP!start_row(t) = t * lr BY DEF MP!start_row, lr
<1>3. t * lr \in Nat /\ t * lr + lr <= thread_count * lr /\ thread_count * lr \in Nat
  BY <1>1, RowInside
<1>4. (t * lr + k) \div lr = t BY <1>1, RowAndColumn
<1> QED BY <1>1, <1>2, <1>3, <1>4

(* A thread that fills one of its rows adds it to the rows filled. *)
LEMMA FillRow ==
    ASSUME MatrixTypes, NEW b, NEW matrix, NEW rows, Filled(b, matrix, rows),
           NEW t \in MP!Threads, NEW k \in 0 .. lr - 1, NEW y, y = MP!start_row(t) + k
    PROVE  Filled(b, WithRow(matrix, dim, y, MP!RandomRow(b, t, y)), rows \cup {y})
<1>1. y \in 0 .. dim - 1 /\ y \div lr = t BY OwnRow
<1>2. dim \in Nat BY DEF MatrixTypes
<1> DEFINE row == MP!RandomRow(b, t, y)
<1>3. IsArray(row, dim) /\ \A c \in 1 .. dim : row[c] = MP!Element(b, t, y * dim + c)
  BY DEF MP!RandomRow, IsArray
<1> DEFINE new == WithRow(matrix, dim, y, row)
<1> HIDE DEF row
<1>4. /\ IsMatrix(new, dim, dim)
      /\ \A x \in 0 .. dim - 1, c \in 1 .. dim :
            Cell(new, dim, x, c) = IF x = y THEN row[c] ELSE Cell(matrix, dim, x, c)
  BY <1>1, <1>2, <1>3, RowOverwritten DEF Filled
<1> HIDE DEF new
<1>5. ASSUME NEW x \in 0 .. dim - 1, NEW c \in 1 .. dim
      PROVE  Cell(new, dim, x, c) =
                 IF x \in rows \cup {y} THEN MP!Element(b, x \div lr, x * dim + c)
                                        ELSE MP!Garbage
  <2>1. CASE x = y BY <1>1, <1>3, <1>4, <2>1
  <2>2. CASE x # y BY <1>4, <2>2 DEF Filled
  <2> QED BY <2>1, <2>2
<1> QED BY <1>4, <1>5 DEF Filled, new, row

(* A thread that multiplies one of its rows adds it to the rows multiplied. *)
LEMMA MultiplyOneRow ==
    ASSUME MatrixTypes, NEW rows, Multiplied(rows),
           NEW t \in MP!Threads, NEW k \in 0 .. lr - 1, NEW y, y = MP!start_row(t) + k,
           matrix3' = WithRow(matrix3, MP!Columns, y,
                              [c \in 1 .. MP!Columns |->
                                  MP!DotProduct(matrix1, y, col_matrixB, c - 1, dim)]),
           UNCHANGED <<product, dim, matrix1, col_matrixB>>
    PROVE  Multiplied(rows \cup {y})'
<1>1. y \in 0 .. dim - 1 BY OwnRow
<1>2. PICK w \in Nat : w = MP!Columns BY SharesFit
<1>3. dim \in Nat BY DEF MatrixTypes
<1> DEFINE row == [c \in 1 .. w |-> MP!DotProduct(matrix1, y, col_matrixB, c - 1, dim)]
<1>4. /\ IsArray(row, w)
      /\ \A c \in 1 .. w : row[c] = MP!DotProduct(matrix1, y, col_matrixB, c - 1, dim)
  BY DEF IsArray
<1>5. matrix3' = WithRow(matrix3, w, y, row) BY <1>2
<1> HIDE DEF row
<1>6. /\ IsMatrix(matrix3', dim, w)
      /\ \A x \in 0 .. dim - 1, c \in 1 .. w :
            Cell(matrix3', w, x, c) = IF x = y THEN row[c] ELSE Cell(matrix3, w, x, c)
  <2>1. IsMatrix(matrix3, dim, w) BY <1>2 DEF Multiplied
  <2>2. IsArray(row, w) BY <1>4
  <2>3. /\ IsMatrix(WithRow(matrix3, w, y, row), dim, w)
        /\ \A x \in 0 .. dim - 1, c \in 1 .. w :
              Cell(WithRow(matrix3, w, y, row), w, x, c) =
                  IF x = y THEN row[c] ELSE Cell(matrix3, w, x, c)
    BY <1>1, <1>3, <2>1, <2>2, RowOverwritten
  <2> QED BY <1>5, <2>3
<1>7. w = MP!Columns' /\ dim' = dim BY <1>2 DEF MP!Columns
<1>8. ASSUME NEW x \in 0 .. dim - 1, NEW c \in 1 .. w
      PROVE  Cell(matrix3', w, x, c) =
                 IF x \in rows \cup {y}
                 THEN MP!DotProduct(matrix1, x, col_matrixB, c - 1, dim)
                 ELSE MP!Garbage
  <2>1. CASE x = y BY <1>4, <1>6, <2>1
  <2>2. CASE x # y BY <1>2, <1>6, <2>2 DEF Multiplied
  <2> QED BY <2>1, <2>2
<1>9. \A x, j : MP!DotProduct(matrix1, x, col_matrixB, j, dim)'
                  = MP!DotProduct(matrix1, x, col_matrixB, j, dim)
  BY DEF MP!DotProduct, MP!Part
<1> QED BY <1>6, <1>7, <1>8, <1>9 DEF Multiplied, IsMatrix, IsArray, MP!Garbage, Cell

(* When all have joined, the rows done are the rows the phase reaches. *)
LEMMA JoinedRows ==
    ASSUME MatrixTypes, NEW f \in {"populate", "multiply"}, NEW skip \in Nat,
           MP!AllJoined(f), MP!RowsIn(f) \in Nat, skip + lr <= MP!RowsIn(f)
    PROVE  RowsDone(f, skip) = RowsOf(f)
<1>1. lr \in Nat /\ team[f] \in 1 .. thread_count /\ thread_count \in Nat
  BY SharesFit DEF MatrixTypes
<1>2. MP!Reached(f) = team[f] * lr BY DEF MP!Reached, lr
<1>3. ASSUME NEW y \in RowsDone(f, skip) PROVE y \in RowsOf(f)
  <2>1. PICK t \in MP!Threads, k \in 0 .. lr - 1 : t < team[f] /\ y = t * lr + k
    BY <1>3 DEF RowsDone, MP!start_row, lr
  <2>2. t * lr \in Nat /\ t * lr + lr <= team[f] * lr /\ team[f] * lr \in Nat
    BY <1>1, <2>1, RowInside DEF MP!Threads
  <2>3. y < team[f] * lr BY <1>1, <2>1, <2>2
  <2> QED BY <1>2, <1>3, <2>3 DEF RowsDone, RowsOf
<1>4. ASSUME NEW y \in RowsOf(f) PROVE y \in RowsDone(f, skip)
  <2>1. y \in Nat /\ y < team[f] * lr /\ y \in 0 .. dim - 1 /\ team[f] \in Nat
    BY <1>1, <1>2, <1>4 DEF RowsOf, MatrixTypes
  <2>2. lr # 0 BY <2>1
  <2>3. PICK t \in Nat, k \in 0 .. lr - 1 : y = t * lr + k BY <1>1, <2>1, <2>2, Divided
  <2>4. t < team[f]
    <3>1. CASE team[f] = t BY <2>1, <2>3, <3>1, <1>1
    <3>2. CASE team[f] < t
      <4>1. team[f] * lr + lr <= t * lr /\ team[f] * lr \in Nat /\ t * lr \in Nat
        BY <1>1, <2>1, <3>2, RowEnds
      <4> QED BY <1>1, <2>1, <2>3, <4>1
    <3> QED BY <2>1, <3>1, <3>2
  <2>5. t \in MP!Threads BY <1>1, <2>4 DEF MP!Threads
  <2>6. skip + k < rows_done[t] BY <1>1, <2>4, <2>5 DEF MP!AllJoined
  <2> QED BY <2>1, <2>3, <2>4, <2>5, <2>6 DEF RowsDone, MP!start_row, lr
<1> QED BY <1>3, <1>4

(* A thread that has done one more row adds it to the rows done, if it is one of *)
(* those counted.                                                                *)
LEMMA OneMoreRow ==
    ASSUME MatrixTypes, NEW f \in {"populate", "multiply"}, NEW skip \in Nat,
           NEW t \in MP!Threads, t < team[f],
           rows_done' = [rows_done EXCEPT ![t] = @ + 1],
           UNCHANGED <<dim, thread_count, team>>
    PROVE  /\ skip <= rows_done[t] /\ rows_done[t] < skip + lr =>
                RowsDone(f, skip)' =
                    RowsDone(f, skip) \cup {MP!start_row(t) + (rows_done[t] - skip)}
           /\ rows_done[t] < skip \/ rows_done[t] >= skip + lr =>
                RowsDone(f, skip)' = RowsDone(f, skip)
<1>1. /\ lr' = lr /\ MP!Threads' = MP!Threads /\ dim' = dim /\ team' = team
      /\ \A u : MP!start_row(u)' = MP!start_row(u)
  BY DEF lr, MP!local_rows, MP!Threads, MP!start_row
<1>2. lr \in Nat BY SharesFit
<1>3. /\ rows_done \in [MP!Threads -> Nat]
      /\ \A u \in MP!Threads : rows_done'[u] = IF u = t THEN rows_done[t] + 1 ELSE rows_done[u]
  BY DEF MatrixTypes
<1>4. ASSUME skip <= rows_done[t], rows_done[t] < skip + lr
      PROVE  RowsDone(f, skip)' =
                 RowsDone(f, skip) \cup {MP!start_row(t) + (rows_done[t] - skip)}
  <2>1. PICK k \in 0 .. lr - 1 : k = rows_done[t] - skip /\ rows_done[t] = skip + k
    BY <1>2, <1>3, <1>4
  <2>2. MP!start_row(t) + k \in 0 .. dim - 1 BY OwnRow
  <2>3. \A u \in MP!Threads, j \in 0 .. lr - 1 :
            skip + j < rows_done'[u] <=> (skip + j < rows_done[u] \/ (u = t /\ j = k))
    BY <1>2, <1>3, <2>1
  <2> QED BY <1>1, <2>1, <2>2, <2>3 DEF RowsDone
<1>5. ASSUME rows_done[t] < skip \/ rows_done[t] >= skip + lr
      PROVE  RowsDone(f, skip)' = RowsDone(f, skip)
  <2>1. \A u \in MP!Threads, j \in 0 .. lr - 1 :
            skip + j < rows_done'[u] <=> skip + j < rows_done[u]
    BY <1>2, <1>3, <1>5
  <2> QED BY <1>1, <2>1 DEF RowsDone
<1> QED BY <1>4, <1>5

(* At the start of a phase nothing is done. *)
LEMMA NothingDone ==
    ASSUME MatrixTypes, NEW f, NEW skip \in Nat, \A t \in MP!Threads : rows_done[t] = 0
    PROVE  RowsDone(f, skip) = {}
BY SharesFit DEF RowsDone

(* Every element of a matrix that nobody has written is garbage. *)
LEMMA UnwrittenCells ==
    ASSUME NEW h \in Nat, NEW w \in Nat
    PROVE  /\ IsMatrix(MP!Unwritten(h * w), h, w)
           /\ \A x \in 0 .. h - 1, c \in 1 .. w :
                 Cell(MP!Unwritten(h * w), w, x, c) = MP!Garbage
<1>1. PICK len \in Nat : len = h * w OBVIOUS
<1>2. ASSUME NEW x \in 0 .. h - 1, NEW c \in 1 .. w
      PROVE  Cell(MP!Unwritten(len), w, x, c) = MP!Garbage
  <2>1. x * w \in Nat /\ x * w + w <= h * w BY RowInside
  <2>2. x * w + c \in 1 .. len BY <1>1, <2>1
  <2> QED BY <2>2 DEF Cell, MP!Unwritten
<1>3. IsArray(MP!Unwritten(len), len) BY DEF IsArray, MP!Unwritten
<1> QED BY <1>1, <1>2, <1>3 DEF IsMatrix

--------------------------------------------------------------------------------
(* The inductive invariant, step by step. *)

(* The programs start with everything unwritten, or filled by main. *)
LEMMA MatrixInvInit == MP!Init => MatrixInv
<1> SUFFICES ASSUME MP!Init PROVE MatrixInv OBVIOUS
<1>1. MatrixTypes
  <2>1. dim \in Nat \ {0} /\ thread_count \in Nat \ {0}
    BY BoundsAssumption DEF MP!Init
  <2>2. rows_done \in [MP!Threads -> Nat] BY DEF MP!Init
  <2> QED BY <2>1, <2>2 DEF MP!Init, MatrixTypes, MP!Phases
<1>2. \A t \in MP!Threads : rows_done[t] = 0 BY DEF MP!Init
<1>3. /\ lr \in Nat /\ dim \in Nat /\ MP!Columns \in Nat BY <1>1, SharesFit DEF MatrixTypes
<1>4. Multiplied({})
  <2>1. matrix3 = MP!Unwritten(dim * MP!Columns) BY DEF MP!Init
  <2> QED BY <1>3, <2>1, UnwrittenCells DEF Multiplied
<1>5. /\ RowsDone("multiply", 0) = {} /\ RowsDone("populate", 0) = {}
      /\ RowsDone("populate", lr) = {}
  BY <1>1, <1>2, <1>3, NothingDone
<1>6. CASE product = "vector"
  <2>1. stage = "multiply" BY <1>6 DEF MP!Init
  <2>2. Inputs BY <1>6, <2>1 DEF MP!Init, Inputs, IsMatrix, IsArray, MP!FilledByMain
  <2> QED BY <1>1, <1>4, <1>5, <2>1, <2>2 DEF MatrixInv, Results
<1>7. CASE product # "vector"
  <2>1. /\ stage = "populate"
        /\ matrix1 = MP!Unwritten(dim * dim) /\ matrix2 = MP!Unwritten(dim * dim)
    BY <1>7 DEF MP!Init
  <2>2. \A b : Filled(b, MP!Unwritten(dim * dim), {}) BY <1>3, UnwrittenCells DEF Filled
  <2>3. Inputs BY <1>5, <1>7, <2>1, <2>2 DEF Inputs
  <2> QED BY <1>1, <1>4, <2>1, <2>3 DEF MatrixInv, Results
<1> QED BY <1>6, <1>7

(* The result stays unwritten as long as nobody writes it. *)
LEMMA NothingMultiplied ==
    ASSUME Multiplied({}), UNCHANGED <<product, dim, matrix3>>
    PROVE  Multiplied({})'
BY DEF Multiplied, MP!Columns, IsMatrix, IsArray, Cell, MP!Garbage

(* A row of matrix1, or once those are done of matrix2. *)
LEMMA PopulateStep ==
    ASSUME MatrixInv, NEW t \in MP!Threads, MP!PopulateRow(t) PROVE MatrixInv'
<1>1. /\ stage = "populate" /\ t < team["populate"] /\ rows_done[t] < 2 * lr
      /\ rows_done' = [rows_done EXCEPT ![t] = @ + 1]
      /\ UNCHANGED <<product, dim, thread_count, team, stage, col_matrixB, matrix3>>
  BY DEF MP!PopulateRow, MP!Working, MP!RowsIn, lr
<1>2. product # "vector" BY <1>1 DEF MatrixInv, Inputs
<1>3. PICK s \in Nat : s = lr /\ lr' = s BY <1>1, SharesFit DEF MatrixInv, lr, MP!local_rows
<1>4. PICK k \in Nat : k = rows_done[t] /\ k < 2 * s
  BY <1>1, <1>3 DEF MatrixInv, MatrixTypes
<1>5. MatrixTypes'
  BY <1>1, <1>4 DEF MatrixInv, MatrixTypes, MP!Threads
<1>6. Results' BY <1>1, NothingMultiplied DEF MatrixInv, Results
<1>7. /\ Filled("matrix1", matrix1, RowsDone("populate", 0))
      /\ Filled("matrix2", matrix2, RowsDone("populate", s))
  BY <1>1, <1>2, <1>3 DEF MatrixInv, Inputs
<1> SUFFICES /\ Filled("matrix1", matrix1', RowsDone("populate", 0)')
             /\ Filled("matrix2", matrix2', RowsDone("populate", s)')
  <2>1. Inputs'
    BY <1>1, <1>2, <1>3 DEF Inputs, Filled, IsMatrix, IsArray, Cell, MP!Element, MP!Garbage
  <2> QED BY <1>5, <1>6, <2>1 DEF MatrixInv
<1>8. CASE k < s
  <2> DEFINE y == MP!start_row(t) + k
  <2>1. k % s = k BY <1>3, <1>8
  <2>2. /\ matrix1' = WithRow(matrix1, dim, y, MP!RandomRow("matrix1", t, y))
        /\ matrix2' = matrix2
    BY <1>3, <1>4, <1>8, <2>1 DEF MP!PopulateRow, WithRow, lr
  <2>3. /\ RowsDone("populate", 0)' = RowsDone("populate", 0) \cup {y}
        /\ RowsDone("populate", s)' = RowsDone("populate", s)
    <3>1. RowsDone("populate", 0)'
              = RowsDone("populate", 0) \cup {MP!start_row(t) + (rows_done[t] - 0)}
      <4>1. 0 <= rows_done[t] /\ rows_done[t] < 0 + lr BY <1>3, <1>4, <1>8
      <4> QED BY <1>1, <4>1, OneMoreRow DEF MatrixInv
    <3>2. rows_done[t] - 0 = k BY <1>4
    <3>3. RowsDone("populate", s)' = RowsDone("populate", s)
      <4>1. rows_done[t] < s BY <1>4, <1>8
      <4> QED BY <1>1, <4>1, OneMoreRow DEF MatrixInv
    <3> QED BY <3>1, <3>2, <3>3
  <2>4. k \in 0 .. lr - 1 BY <1>3, <1>8
  <2>5. Filled("matrix1", matrix1', RowsDone("populate", 0) \cup {y})
    BY <1>7, <2>2, <2>4, FillRow DEF MatrixInv
  <2> QED BY <1>7, <2>2, <2>3, <2>5
<1>9. CASE k >= s
  <2> DEFINE y == MP!start_row(t) + (k - s)
  <2>1. s # 0 /\ k - s \in 0 .. s - 1 BY <1>4, <1>9
  <2>2. k % s = k - s
    <3>1. (1 * s + (k - s)) % s = k - s BY <2>1, RowAndColumn
    <3>2. 1 * s + (k - s) = k BY <1>9
    <3> QED BY <3>1, <3>2
  <2>3. /\ matrix2' = WithRow(matrix2, dim, y, MP!RandomRow("matrix2", t, y))
        /\ matrix1' = matrix1
    BY <1>3, <1>4, <1>9, <2>2 DEF MP!PopulateRow, WithRow, lr
  <2>4. /\ RowsDone("populate", s)' = RowsDone("populate", s) \cup {y}
        /\ RowsDone("populate", 0)' = RowsDone("populate", 0)
    <3>1. RowsDone("populate", s)'
              = RowsDone("populate", s) \cup {MP!start_row(t) + (rows_done[t] - s)}
      <4>1. s <= rows_done[t] /\ rows_done[t] < s + lr BY <1>3, <1>4, <1>9
      <4> QED BY <1>1, <4>1, OneMoreRow DEF MatrixInv
    <3>2. RowsDone("populate", 0)' = RowsDone("populate", 0)
      <4>1. rows_done[t] >= 0 + lr BY <1>3, <1>4, <1>9
      <4> QED BY <1>1, <4>1, OneMoreRow DEF MatrixInv
    <3> QED BY <1>4, <3>1, <3>2
  <2>5. k - s \in 0 .. lr - 1 BY <1>3, <2>1
  <2>6. Filled("matrix2", matrix2', RowsDone("populate", s) \cup {y})
    BY <1>7, <2>3, <2>5, FillRow DEF MatrixInv
  <2> QED BY <1>7, <2>3, <2>4, <2>6
<1> QED BY <1>3, <1>4, <1>8, <1>9

(* All have joined: all their rows are filled. *)
LEMMA JoinPopulateStep == ASSUME MatrixInv, MP!JoinPopulate PROVE MatrixInv'
<1>1. /\ stage = "populate" /\ stage' = "transpose" /\ MP!AllJoined("populate")
      /\ UNCHANGED <<product, dim, thread_count, team, rows_done, matrix1, matrix2,
                     col_matrixB, matrix3>>
  BY DEF MP!JoinPopulate
<1>2. product # "vector" BY <1>1 DEF MatrixInv, Inputs
<1>3. MatrixTypes' BY <1>1 DEF MatrixInv, MatrixTypes, MP!Threads, MP!Phases
<1>4. Results' BY <1>1, NothingMultiplied DEF MatrixInv, Results
<1>5. PICK s \in Nat : s = lr BY SharesFit DEF MatrixInv
<1>6. MP!RowsIn("populate") = 2 * s BY <1>5 DEF MP!RowsIn, lr
<1>7. /\ RowsDone("populate", 0) = RowsOf("populate")
      /\ RowsDone("populate", s) = RowsOf("populate")
  BY <1>1, <1>5, <1>6, JoinedRows DEF MatrixInv
<1>8. /\ Filled("matrix1", matrix1, RowsOf("populate"))
      /\ Filled("matrix2", matrix2, RowsOf("populate"))
  BY <1>1, <1>2, <1>5, <1>7 DEF MatrixInv, Inputs
<1>9. RowsOf("populate")' = RowsOf("populate") /\ lr' = lr
  BY <1>1 DEF RowsOf, MP!Reached, lr, MP!local_rows
<1>10. Inputs'
  BY <1>1, <1>2, <1>8, <1>9
     DEF Inputs, Filled, IsMatrix, IsArray, Cell, MP!Element, MP!Garbage
<1> QED BY <1>3, <1>4, <1>10 DEF MatrixInv

(* What the inputs are does not depend on what happens after the transposition. *)
LEMMA FilledKept ==
    ASSUME Filled("matrix1", matrix1, RowsOf("populate")),
           Filled("matrix2", matrix2, RowsOf("populate")),
           UNCHANGED <<dim, thread_count, team, matrix1, matrix2>>
    PROVE  /\ Filled("matrix1", matrix1, RowsOf("populate"))'
           /\ Filled("matrix2", matrix2, RowsOf("populate"))'
BY DEF Filled, RowsOf, MP!Reached, lr, MP!local_rows, IsMatrix, IsArray, Cell, MP!Element,
       MP!Garbage

(* Main transposes alone, and the threads start again from nothing. *)
LEMMA TransposeStep == ASSUME MatrixInv, MP!Transpose PROVE MatrixInv'
<1>1. /\ stage = "transpose" /\ stage' = "multiply"
      /\ col_matrixB' = MP!Transposed(matrix2, dim)
      /\ rows_done' = [t \in MP!Threads |-> 0]
      /\ UNCHANGED <<product, dim, thread_count, team, matrix1, matrix2, matrix3>>
  BY DEF MP!Transpose
<1>2. product # "vector" BY <1>1 DEF MatrixInv, Inputs
<1>3. MatrixTypes'
  BY <1>1 DEF MatrixInv, MatrixTypes, MP!Threads, MP!Phases
<1>4. RowsDone("multiply", 0)' = {}
  BY <1>1, <1>3, SharesFit DEF MatrixInv, RowsDone, MP!Threads, lr, MP!local_rows
<1>5. Multiplied({})' BY <1>1, NothingMultiplied DEF MatrixInv, Results
<1>6. Results' BY <1>1, <1>4, <1>5 DEF Results, Multiplied, MP!Columns
<1>7. /\ Filled("matrix1", matrix1, RowsOf("populate"))'
      /\ Filled("matrix2", matrix2, RowsOf("populate"))'
  BY <1>1, <1>2, FilledKept DEF MatrixInv, Inputs
<1>8. col_matrixB' = MP!Transposed(matrix2, dim)'
  BY <1>1 DEF MP!Transposed
<1>9. Inputs' BY <1>1, <1>2, <1>7, <1>8 DEF Inputs
<1> QED BY <1>3, <1>6, <1>9 DEF MatrixInv

(* The multiplication reads what no thread writes any more. *)
LEMMA InputsKept ==
    ASSUME MatrixInv, stage \in {"multiply", "done"}, stage' \in {"multiply", "done"},
           UNCHANGED <<product, dim, thread_count, team, matrix1, matrix2, col_matrixB>>
    PROVE  Inputs'
<1>1. CASE product = "vector"
  BY <1>1 DEF MatrixInv, Inputs, IsMatrix, IsArray, MP!Vector, MP!Element
<1>2. CASE product # "vector"
  <2>1. /\ Filled("matrix1", matrix1, RowsOf("populate"))'
        /\ Filled("matrix2", matrix2, RowsOf("populate"))'
    BY <1>2, FilledKept DEF MatrixInv, Inputs
  <2>2. col_matrixB' = MP!Transposed(matrix2, dim)'
    BY <1>2 DEF MatrixInv, Inputs, MP!Transposed
  <2> QED BY <1>2, <2>1, <2>2 DEF Inputs
<1> QED BY <1>1, <1>2

(* One more row of the product, of inputs nobody writes any more. *)
LEMMA MultiplyStep ==
    ASSUME MatrixInv, NEW t \in MP!Threads, MP!MultiplyRow(t) PROVE MatrixInv'
<1>1. /\ stage = "multiply" /\ t < team["multiply"] /\ rows_done[t] < lr
      /\ rows_done' = [rows_done EXCEPT ![t] = @ + 1]
      /\ UNCHANGED <<product, dim, thread_count, team, stage, matrix1, matrix2,
                     col_matrixB>>
  BY DEF MP!MultiplyRow, MP!Working, MP!RowsIn, lr
<1>2. PICK k \in 0 .. lr - 1 : k = rows_done[t]
  BY <1>1, SharesFit DEF MatrixInv, MatrixTypes
<1>3. MatrixTypes' BY <1>1 DEF MatrixInv, MatrixTypes, MP!Threads
<1>4. Inputs' BY <1>1, InputsKept
<1>5. PICK y \in Nat : y = MP!start_row(t) + k
  BY <1>2, OwnRow DEF MatrixInv
<1>6. RowsDone("multiply", 0)' = RowsDone("multiply", 0) \cup {y}
  <2>1. 0 <= rows_done[t] /\ rows_done[t] < 0 + lr /\ rows_done[t] - 0 = k
    BY <1>2, SharesFit DEF MatrixInv
  <2>2. RowsDone("multiply", 0)'
            = RowsDone("multiply", 0) \cup {MP!start_row(t) + (rows_done[t] - 0)}
    BY <1>1, <2>1, OneMoreRow DEF MatrixInv
  <2> QED BY <1>5, <2>1, <2>2
<1>7. PICK rows : rows = RowsDone("multiply", 0) /\ Multiplied(rows)
  BY <1>1 DEF MatrixInv, Results
<1>8. matrix3' = WithRow(matrix3, MP!Columns, y,
                         [c \in 1 .. MP!Columns |->
                             MP!DotProduct(matrix1, y, col_matrixB, c - 1, dim)])
  BY <1>2, <1>5 DEF MP!MultiplyRow, WithRow
<1>9. Multiplied(rows \cup {y})'
  BY <1>1, <1>2, <1>5, <1>7, <1>8, MultiplyOneRow DEF MatrixInv
<1>10. Multiplied(RowsDone("multiply", 0))'
  BY <1>6, <1>7, <1>9 DEF Multiplied
<1>11. Results' BY <1>1, <1>10 DEF Results
<1> QED BY <1>3, <1>4, <1>11 DEF MatrixInv

(* All have joined: all their rows are multiplied. *)
LEMMA JoinMultiplyStep == ASSUME MatrixInv, MP!JoinMultiply PROVE MatrixInv'
<1>1. /\ stage = "multiply" /\ stage' = "done" /\ MP!AllJoined("multiply")
      /\ UNCHANGED <<product, dim, thread_count, team, rows_done, matrix1, matrix2,
                     col_matrixB, matrix3>>
  BY DEF MP!JoinMultiply
<1>2. MatrixTypes' BY <1>1 DEF MatrixInv, MatrixTypes, MP!Threads, MP!Phases
<1>3. Inputs' BY <1>1, InputsKept
<1>4. RowsDone("multiply", 0) = RowsOf("multiply")
  <2>1. lr \in Nat BY SharesFit DEF MatrixInv
  <2>2. MP!RowsIn("multiply") \in Nat /\ 0 + lr <= MP!RowsIn("multiply")
    BY <2>1 DEF MP!RowsIn, lr
  <2> QED BY <1>1, <2>2, JoinedRows DEF MatrixInv
<1>5. Multiplied(RowsOf("multiply")) BY <1>1, <1>4 DEF MatrixInv, Results
<1>6. RowsOf("multiply")' = RowsOf("multiply")
  BY <1>1 DEF RowsOf, MP!Reached, MP!local_rows
<1>7. Multiplied(RowsOf("multiply"))'
  BY <1>1, <1>5, <1>6
     DEF Multiplied, IsMatrix, IsArray, Cell, MP!Columns, MP!DotProduct, MP!Part, MP!Garbage
<1>8. Results' BY <1>1, <1>7 DEF Results
<1> QED BY <1>2, <1>3, <1>8 DEF MatrixInv

(* The programs of the other families do not touch the matrices. *)
LEMMA MatrixInvIdle == ASSUME MatrixInv, UNCHANGED matrixVars PROVE MatrixInv'
<1>1. UNCHANGED <<product, dim, thread_count, team, stage, rows_done, matrix1, matrix2,
                  col_matrixB, matrix3>>
  BY DEF matrixVars
<1>2. MatrixTypes' BY <1>1 DEF MatrixInv, MatrixTypes, MP!Threads
<1>3. \A rows : Multiplied(rows) => Multiplied(rows)'
  BY <1>1
     DEF Multiplied, IsMatrix, IsArray, Cell, MP!Columns, MP!DotProduct, MP!Part, MP!Garbage
<1>4. /\ RowsDone("multiply", 0)' = RowsDone("multiply", 0)
      /\ RowsOf("multiply")' = RowsOf("multiply")
  <2>1. RowsDone("multiply", 0)' = RowsDone("multiply", 0)
    BY <1>1 DEF RowsDone, MP!Threads, MP!start_row, lr, MP!local_rows
  <2>2. RowsOf("multiply")' = RowsOf("multiply")
    BY <1>1 DEF RowsOf, MP!Reached, MP!local_rows
  <2> QED BY <2>1, <2>2
<1>5. Results'
  <2>1. ASSUME stage \in {"populate", "transpose"} PROVE Multiplied({})'
    BY <1>3, <2>1 DEF MatrixInv, Results
  <2>2. ASSUME stage = "multiply" PROVE Multiplied(RowsDone("multiply", 0))'
    <3>1. PICK rows : rows = RowsDone("multiply", 0) /\ Multiplied(rows)
      BY <2>2 DEF MatrixInv, Results
    <3>2. Multiplied(rows)' BY <1>3, <3>1
    <3> QED BY <1>4, <3>1, <3>2 DEF Multiplied
  <2>3. ASSUME stage = "done" PROVE Multiplied(RowsOf("multiply"))'
    <3>1. PICK rows : rows = RowsOf("multiply") /\ Multiplied(rows)
      BY <2>3 DEF MatrixInv, Results
    <3>2. Multiplied(rows)' BY <1>3, <3>1
    <3> QED BY <1>4, <3>1, <3>2 DEF Multiplied
  <2> QED BY <1>1, <2>1, <2>2, <2>3 DEF Results
<1>6. Inputs'
  <2>1. CASE stage = "populate"
    <3>1. product # "vector" BY <2>1 DEF MatrixInv, Inputs
    <3>2. /\ RowsDone("populate", 0)' = RowsDone("populate", 0)
          /\ RowsDone("populate", lr)' = RowsDone("populate", lr)
          /\ lr' = lr
      BY <1>1 DEF RowsDone, MP!Threads, MP!start_row, lr, MP!local_rows
    <3>3. /\ Filled("matrix1", matrix1, RowsDone("populate", 0))
          /\ Filled("matrix2", matrix2, RowsDone("populate", lr))
      BY <2>1, <3>1 DEF MatrixInv, Inputs
    <3>4. /\ Filled("matrix1", matrix1, RowsDone("populate", 0))'
          /\ Filled("matrix2", matrix2, RowsDone("populate", lr))'
      BY <1>1, <3>2, <3>3 DEF Filled, IsMatrix, IsArray, Cell, MP!Element, MP!Garbage
    <3> QED BY <1>1, <2>1, <3>1, <3>4 DEF Inputs
  <2>2. CASE stage = "transpose"
    <3>1. product # "vector" BY <2>2 DEF MatrixInv, Inputs
    <3>2. /\ Filled("matrix1", matrix1, RowsOf("populate"))'
          /\ Filled("matrix2", matrix2, RowsOf("populate"))'
      BY <1>1, <2>2, <3>1, FilledKept DEF MatrixInv, Inputs
    <3> QED BY <1>1, <2>2, <3>1, <3>2 DEF Inputs
  <2>3. CASE stage \in {"multiply", "done"} BY <1>1, <2>3, InputsKept
  <2> QED BY <2>1, <2>2, <2>3 DEF MatrixInv, MatrixTypes, MP!Phases
<1> QED BY <1>2, <1>5, <1>6 DEF MatrixInv

(* Every step keeps the invariant. *)
LEMMA MatrixInvStep ==
    ASSUME MatrixInv, [Next]_vars PROVE MatrixInv'
<1>1. ASSUME MP!Next PROVE MatrixInv'
  <2>1. ASSUME NEW t \in MP!Threads, MP!ThreadStep(t) PROVE MatrixInv'
    BY <2>1, PopulateStep, MultiplyStep DEF MP!ThreadStep
  <2>2. CASE MP!MainStep
    BY <2>2, JoinPopulateStep, TransposeStep, JoinMultiplyStep DEF MP!MainStep
  <2>3. CASE UNCHANGED MP!vars
    BY <2>3, MatrixInvIdle DEF MP!vars, matrixVars
  <2> QED BY <1>1, <2>1, <2>2, <2>3 DEF MP!Next
<1>2. CASE UNCHANGED vars BY <1>2, MatrixInvIdle DEF vars
<1>3. CASE Next
  BY <1>1, <1>3, MatrixInvIdle DEF Next, ShareStep, SortStep, KernelStep, MatrixStep
<1> QED BY <1>2, <1>3

--------------------------------------------------------------------------------
(* What the invariant says at the end. *)

(* A row of the transposed matrix is a column of the matrix. *)
LEMMA TransposedRow ==
    ASSUME NEW side \in Nat \ {0}, NEW matrix, IsMatrix(matrix, side, side),
           NEW c \in 0 .. side - 1
    PROVE  MP!Part(MP!Transposed(matrix, side), c, side) =
               [k \in 1 .. side |-> matrix[(k - 1) * side + c + 1]]
<1> DEFINE turned == MP!Transposed(matrix, side)
<1>1. PICK len \in Nat : len = side * side OBVIOUS
<1>2. IsArray(turned, len)
      /\ \A q \in 1 .. len :
            turned[q] = matrix[((q - 1) \div side) + ((q - 1) % side) * side + 1]
  BY <1>1 DEF MP!Transposed, IsArray
<1> HIDE DEF turned
<1>3. PICK first \in Nat : first = c * side /\ first + side <= len
  BY <1>1, RowInside
<1>4. MP!Part(turned, c, side) = [k \in 1 .. side |-> turned[c * side + k]]
  BY <1>1, <1>2, <1>3, PartAt
<1>5. ASSUME NEW k \in 1 .. side
      PROVE  turned[first + k] = matrix[(k - 1) * side + c + 1]
  <2>1. (c * side + (k - 1)) \div side = c /\ (c * side + (k - 1)) % side = k - 1
    <3>1. PICK j \in 0 .. side - 1 : j = k - 1 OBVIOUS
    <3>2. (c * side + j) \div side = c /\ (c * side + j) % side = j BY RowAndColumn
    <3> QED BY <3>1, <3>2
  <2>2. PICK q \in 1 .. len : q = first + k BY <1>3
  <2>3. q - 1 = c * side + (k - 1) BY <1>3, <2>2
  <2>4. turned[q] = matrix[((q - 1) \div side) + ((q - 1) % side) * side + 1]
    BY <1>2
  <2>5. turned[q] = matrix[c + (k - 1) * side + 1] BY <2>1, <2>3, <2>4
  <2>6. PICK before \in Nat : before = (k - 1) * side OBVIOUS
  <2>7. c + before + 1 = before + c + 1 OBVIOUS
  <2> QED BY <2>2, <2>5, <2>6, <2>7
<1>6. [k \in 1 .. side |-> turned[first + k]]
          = [k \in 1 .. side |-> matrix[(k - 1) * side + c + 1]]
  BY <1>5
<1> QED BY <1>3, <1>4, <1>6 DEF turned

(* Element by element or row by row, the owners have filled their rows. *)
LEMMA FilledRows ==
    ASSUME MatrixTypes, NEW b, NEW matrix, Filled(b, matrix, RowsOf("populate"))
    PROVE  MP!FilledByOwners(b, matrix)
<1>1. PICK len \in Nat : len = dim * dim BY SharesFit
<1>2. dim \in Nat \ {0} BY DEF MatrixTypes
<1>3. ASSUME NEW y \in 0 .. dim - 1
      PROVE  MP!Part(matrix, y, dim) =
                 IF y < MP!Reached("populate") THEN MP!RandomRow(b, y \div lr, y)
                                               ELSE MP!Unwritten(dim)
  <2>1. PICK first \in Nat : first = y * dim /\ first + dim <= len
    BY <1>1, <1>2, RowInside
  <2>2. MP!Part(matrix, y, dim) = [c \in 1 .. dim |-> matrix[y * dim + c]]
    BY <1>1, <1>2, <2>1, PartAt DEF Filled, IsMatrix
  <2>3. \A c \in 1 .. dim :
           matrix[y * dim + c] =
               IF y < MP!Reached("populate") THEN MP!Element(b, y \div lr, y * dim + c)
                                             ELSE MP!Garbage
    BY DEF Filled, Cell, RowsOf
  <2>4. CASE y < MP!Reached("populate") BY <2>2, <2>3, <2>4 DEF MP!RandomRow
  <2>5. CASE ~(y < MP!Reached("populate")) BY <2>2, <2>3, <2>5 DEF MP!Unwritten
  <2> QED BY <2>4, <2>5
<1> QED BY <1>3 DEF MP!FilledByOwners, lr

(* Once main has joined everybody, the product is the reference product. *)
LEMMA InvariantAtTheEnd == MatrixInv => ProductExact
<1> SUFFICES ASSUME MatrixInv, stage = "done" PROVE ProductExact
  BY DEF ProductExact, MP!ProductExact, MP!AllDone
<1>1. PICK w \in Nat : w = MP!Columns BY SharesFit DEF MatrixInv
<1>2. dim \in Nat \ {0} BY DEF MatrixInv, MatrixTypes
<1>3. ASSUME product # "vector"
      PROVE  /\ MP!FilledByOwners("matrix1", matrix1)
             /\ MP!FilledByOwners("matrix2", matrix2)
  BY <1>3, FilledRows DEF MatrixInv, Inputs
<1>4. IsMatrix(matrix1, dim, dim) BY DEF MatrixInv, Inputs, Filled
<1>5. ASSUME NEW y \in 0 .. dim - 1, NEW c \in 0 .. w - 1
      PROVE  MP!DotProduct(matrix1, y, col_matrixB, c, dim) = MP!RightProduct(y, c)
  <2>1. PICK len \in Nat, first \in Nat :
            len = dim * dim /\ first = y * dim /\ first + dim <= len
    BY <1>2, RowInside
  <2>2. CASE product = "vector"
    <3>1. c = 0 BY <1>1, <2>2 DEF MP!Columns
    <3>2. col_matrixB = MP!Vector /\ IsArray(MP!Vector, dim)
      BY <2>2 DEF MatrixInv, Inputs, IsArray, MP!Vector
    <3>3. 0 * dim = 0 /\ 0 * dim + dim <= dim BY <1>2
    <3>4. MP!Part(MP!Vector, 0, dim) = [k \in 1 .. dim |-> MP!Vector[0 * dim + k]]
      BY <1>2, <3>2, <3>3, PartAt
    <3>5. \A k \in 1 .. dim : 0 * dim + k = k BY <1>2
    <3>6. MP!Part(MP!Vector, 0, dim) = MP!Vector BY <3>2, <3>4, <3>5 DEF IsArray
    <3> QED BY <2>2, <3>1, <3>2, <3>6 DEF MP!DotProduct, MP!RightProduct
  <2>3. CASE product # "vector"
    <3>1. col_matrixB = MP!Transposed(matrix2, dim) /\ IsMatrix(matrix2, dim, dim)
      BY <2>3 DEF MatrixInv, Inputs, Filled
    <3>2. c \in 0 .. dim - 1 BY <1>1, <2>3 DEF MP!Columns
    <3>3. MP!Part(col_matrixB, c, dim)
              = [k \in 1 .. dim |-> matrix2[(k - 1) * dim + c + 1]]
      BY <1>2, <3>1, <3>2, TransposedRow
    <3>4. MP!Part(matrix1, y, dim) = [k \in 1 .. dim |-> matrix1[y * dim + k]]
      BY <1>2, <1>4, <2>1, PartAt DEF IsMatrix
    <3> QED BY <2>3, <3>3, <3>4 DEF MP!DotProduct, MP!RightProduct, MP!RowByColumn
  <2> QED BY <2>2, <2>3
<1>6. ASSUME NEW y \in 0 .. dim - 1, NEW c \in 0 .. w - 1
      PROVE  matrix3[y * w + c + 1] =
                 IF y < MP!Reached("multiply") THEN MP!RightProduct(y, c) ELSE MP!Garbage
  <2>1. Multiplied(RowsOf("multiply")) BY DEF MatrixInv, Results
  <2>2. c + 1 \in 1 .. w /\ (c + 1) - 1 = c BY <1>1
  <2>3. Cell(matrix3, w, y, c + 1) =
            IF y \in RowsOf("multiply") THEN MP!DotProduct(matrix1, y, col_matrixB, c, dim)
                                        ELSE MP!Garbage
    BY <1>1, <2>1, <2>2 DEF Multiplied
  <2>4. PICK first \in Nat : first = y * w BY <1>1, <1>2
  <2>5. first + c + 1 = first + (c + 1) BY <1>1, <2>4
  <2>6. Cell(matrix3, w, y, c + 1) = matrix3[y * w + c + 1] BY <2>4, <2>5 DEF Cell
  <2> QED BY <1>5, <2>3, <2>6 DEF RowsOf
<1> QED BY <1>1, <1>3, <1>6 DEF ProductExact, MP!ProductExact

--------------------------------------------------------------------------------

(* In every reachable state the rows done, and no others, are filled and         *)
(* multiplied, and nobody multiplies before main has joined and transposed       *)
(* (pthreads.c:39-73, omp.c:33-55).                                             *)
THEOREM MatrixInvariant == Spec => []MatrixInv
<1>1. Init => MatrixInv BY MatrixInvInit DEF Init
<1>2. MatrixInv /\ [Next]_vars => MatrixInv' BY MatrixInvStep
<1> QED BY <1>1, <1>2, PTL DEF Spec

(* The program of any number of threads and any dimension prints the right       *)
(* product, of the matrices as their owners have filled them, as far as the rows *)
(* of the threads reach; what no thread reaches stays unwritten.                 *)
THEOREM ProductAlwaysExact == Spec => []ProductExact
BY MatrixInvariant, InvariantAtTheEnd, PTL

--------------------------------------------------------------------------------
(* Sorting: how many places hold v or more, and how they move. *)

(* The places from x on that hold v or more. *)
OnesFrom(f, len, v, x) == {k \in 0 .. len - 1 : x <= k /\ f[k] >= v}
Ones(f, len, v, x) == Cardinality(OnesFrom(f, len, v, x))

Arr(len) == [0 .. len - 1 -> Int]

LEMMA OnesType ==
    ASSUME NEW len \in Nat, NEW f, NEW v, NEW x
    PROVE  IsFiniteSet(OnesFrom(f, len, v, x)) /\ Ones(f, len, v, x) \in Nat
<1>1. IsFiniteSet(0 .. len - 1) BY FS_Interval
<1>2. OnesFrom(f, len, v, x) \subseteq 0 .. len - 1 BY DEF OnesFrom
<1>3. IsFiniteSet(OnesFrom(f, len, v, x)) BY <1>1, <1>2, FS_Subset
<1> QED BY <1>3, FS_CardinalityType DEF Ones

(* The sizes of two parts add up. *)
LEMMA PartsAddUp ==
    ASSUME NEW A, NEW B, IsFiniteSet(A), IsFiniteSet(B), A \cap B = {}
    PROVE  /\ IsFiniteSet(A \cup B) /\ Cardinality(A) \in Nat /\ Cardinality(B) \in Nat
           /\ Cardinality(A \cup B) = Cardinality(A) + Cardinality(B)
<1>1. Cardinality(A) \in Nat /\ Cardinality(B) \in Nat BY FS_CardinalityType
<1>2. Cardinality(A \cap B) = 0 BY FS_EmptySet
<1>3. /\ IsFiniteSet(A \cup B)
      /\ Cardinality(A \cup B) = Cardinality(A) + Cardinality(B) - Cardinality(A \cap B)
  BY FS_Union
<1> QED BY <1>1, <1>2, <1>3

(* One place less. *)
LEMMA OnesStep ==
    ASSUME NEW len \in Nat, NEW f \in Arr(len), NEW v \in Int, NEW x \in 0 .. len - 1
    PROVE  Ones(f, len, v, x) = Ones(f, len, v, x + 1) + IF f[x] >= v THEN 1 ELSE 0
<1> DEFINE rest == OnesFrom(f, len, v, x + 1)
<1>1. IsFiniteSet(rest) /\ Cardinality(rest) \in Nat BY OnesType, FS_CardinalityType
<1>2. x \notin rest BY DEF OnesFrom
<1>3. CASE f[x] >= v
  <2>1. OnesFrom(f, len, v, x) = rest \cup {x} BY <1>3 DEF OnesFrom
  <2> HIDE DEF rest
  <2>2. Cardinality(rest \cup {x}) = Cardinality(rest) + 1 BY <1>1, <1>2, FS_AddElement
  <2> QED BY <1>3, <2>1, <2>2 DEF Ones, rest
<1>4. CASE ~(f[x] >= v)
  <2>1. OnesFrom(f, len, v, x) = rest BY <1>4 DEF OnesFrom
  <2> QED BY <1>1, <1>4, <2>1 DEF Ones
<1> QED BY <1>3, <1>4

(* The further to the right, the fewer; and no more than there are places. *)
LEMMA OnesFewer ==
    ASSUME NEW len \in Nat, NEW f, NEW v, NEW x \in Int, NEW y \in Int, x <= y
    PROVE  Ones(f, len, v, y) <= Ones(f, len, v, x)
<1>1. OnesFrom(f, len, v, y) \subseteq OnesFrom(f, len, v, x) BY DEF OnesFrom
<1> QED BY <1>1, OnesType, FS_Subset DEF Ones

LEMMA OnesBounded ==
    ASSUME NEW len \in Nat, NEW f, NEW v, NEW x \in 0 .. len
    PROVE  Ones(f, len, v, x) <= len - x
<1>1. OnesFrom(f, len, v, x) \subseteq x .. len - 1 BY DEF OnesFrom
<1>2. IsFiniteSet(x .. len - 1) /\ Cardinality(x .. len - 1) = len - x
  <2>1. x \in Int /\ len - 1 \in Int OBVIOUS
  <2>2. /\ IsFiniteSet(x .. len - 1)
        /\ Cardinality(x .. len - 1) = IF x > len - 1 THEN 0 ELSE (len - 1) - x + 1
    BY <2>1, FS_Interval
  <2> QED BY <2>2
<1>3. Cardinality(OnesFrom(f, len, v, x)) <= Cardinality(x .. len - 1)
  BY <1>1, <1>2, FS_Subset
<1> QED BY <1>2, <1>3 DEF Ones

(* At most x of them are to the left of x. *)
LEMMA OnesLost ==
    ASSUME NEW len \in Nat, NEW f, NEW v, NEW x \in Nat
    PROVE  Ones(f, len, v, 0) <= Ones(f, len, v, x) + x
<1> DEFINE left == {k \in 0 .. len - 1 : k < x /\ f[k] >= v}
           right == OnesFrom(f, len, v, x)
<1>1. left \subseteq 0 .. x - 1 OBVIOUS
<1>2. IsFiniteSet(0 .. x - 1) /\ Cardinality(0 .. x - 1) = x BY FS_Interval
<1>3. OnesFrom(f, len, v, 0) = left \cup right /\ left \cap right = {} BY DEF OnesFrom
<1>4. IsFiniteSet(right) BY OnesType
<1>5. Ones(f, len, v, 0) = Cardinality(left \cup right)
      /\ Ones(f, len, v, x) = Cardinality(right)
  BY <1>3 DEF Ones
<1> HIDE DEF left, right
<1>6. IsFiniteSet(left) /\ Cardinality(left) <= x BY <1>1, <1>2, FS_Subset
<1>7. /\ Cardinality(left) \in Nat /\ Cardinality(right) \in Nat
      /\ Cardinality(left \cup right) = Cardinality(left) + Cardinality(right)
  BY <1>3, <1>4, <1>6, PartsAddUp
<1> QED BY <1>5, <1>6, <1>7

(* The exchange of neighbours. *)
Exchanged(f, q) == [f EXCEPT ![q] = f[q + 1], ![q + 1] = f[q]]

LEMMA ExchangedAt ==
    ASSUME NEW len \in Nat, NEW f, f = [k \in 0 .. len - 1 |-> f[k]],
           NEW q \in 0 .. len - 2
    PROVE  Exchanged(f, q) =
               [k \in 0 .. len - 1 |->
                   IF k = q THEN f[q + 1] ELSE IF k = q + 1 THEN f[q] ELSE f[k]]
<1>1. q \in 0 .. len - 1 /\ q + 1 \in 0 .. len - 1 /\ q # q + 1 OBVIOUS
<1> QED BY <1>1 DEF Exchanged

(* An exchange of neighbours out of order moves the larger to the right. *)
LEMMA OnesExchanged ==
    ASSUME NEW len \in Nat, NEW f \in Arr(len), NEW q \in 0 .. len - 2, f[q] > f[q + 1],
           NEW v \in Int, NEW x \in Int
    PROVE  /\ Exchanged(f, q) \in Arr(len)
           /\ Ones(Exchanged(f, q), len, v, x) >= Ones(f, len, v, x)
           /\ x <= q => Ones(Exchanged(f, q), len, v, x) = Ones(f, len, v, x)
<1> DEFINE g == Exchanged(f, q)
<1>1. /\ g \in Arr(len)
      /\ g[q] = f[q + 1] /\ g[q + 1] = f[q]
      /\ \A k \in (0 .. len - 1) \ {q, q + 1} : g[k] = f[k]
  <2>1. f = [k \in 0 .. len - 1 |-> f[k]] /\ \A k \in 0 .. len - 1 : f[k] \in Int
    BY DEF Arr
  <2>2. g = [k \in 0 .. len - 1 |->
                IF k = q THEN f[q + 1] ELSE IF k = q + 1 THEN f[q] ELSE f[k]]
    BY <2>1, ExchangedAt
  <2>3. q \in 0 .. len - 1 /\ q + 1 \in 0 .. len - 1 OBVIOUS
  <2> HIDE DEF g
  <2> QED BY <2>1, <2>2, <2>3 DEF Arr
<1> HIDE DEF g
<1>2. q \in 0 .. len - 1 /\ q + 1 \in 0 .. len - 1 /\ f[q] \in Int /\ f[q + 1] \in Int
  BY DEF Arr
<1>3. \A y \in Int : y >= q + 2 => Ones(g, len, v, y) = Ones(f, len, v, y)
  <2> TAKE y \in Int
  <2> HAVE y >= q + 2
  <2>1. \A k \in 0 .. len - 1 : y <= k => k \notin {q, q + 1} OBVIOUS
  <2>2. OnesFrom(g, len, v, y) = OnesFrom(f, len, v, y) BY <1>1, <2>1 DEF OnesFrom
  <2> QED BY <2>2 DEF Ones
<1>4. PICK r \in Nat : r = Ones(f, len, v, q + 2) /\ r = Ones(g, len, v, q + 2)
  BY <1>3, OnesType
<1>5. /\ Ones(f, len, v, q + 1) = r + (IF f[q + 1] >= v THEN 1 ELSE 0)
      /\ Ones(g, len, v, q + 1) = r + (IF f[q] >= v THEN 1 ELSE 0)
  <2>1. (q + 1) + 1 = q + 2 OBVIOUS
  <2> QED BY <1>1, <1>2, <1>4, <2>1, OnesStep
<1>6. PICK e \in 0 .. 1, d \in 0 .. 1 :
          /\ e = (IF f[q] >= v THEN 1 ELSE 0) /\ d = (IF f[q + 1] >= v THEN 1 ELSE 0)
          /\ d <= e
  BY <1>2
<1>7. Ones(f, len, v, q + 1) = r + d /\ Ones(g, len, v, q + 1) = r + e BY <1>5, <1>6
<1>8. Ones(f, len, v, q) = r + d + e /\ Ones(g, len, v, q) = r + e + d
  BY <1>1, <1>2, <1>6, <1>7, OnesStep
<1>9. ASSUME x < q PROVE Ones(g, len, v, x) = Ones(f, len, v, x)
  <2> DEFINE left == {k \in 0 .. len - 1 : x <= k /\ k < q /\ f[k] >= v}
  <2>1. left = {k \in 0 .. len - 1 : x <= k /\ k < q /\ g[k] >= v} BY <1>1
  <2>2. OnesFrom(f, len, v, x) = left \cup OnesFrom(f, len, v, q) BY <1>9 DEF OnesFrom
  <2>3. OnesFrom(g, len, v, x) = left \cup OnesFrom(g, len, v, q)
    BY <1>9, <2>1 DEF OnesFrom
  <2>4. left \cap OnesFrom(f, len, v, q) = {} /\ left \cap OnesFrom(g, len, v, q) = {}
    BY DEF OnesFrom
  <2>5. IsFiniteSet(left)
    <3>1. IsFiniteSet(0 .. len - 1) BY FS_Interval
    <3> QED BY <3>1, FS_Subset
  <2> HIDE DEF left
  <2>6. \A h : left \cap OnesFrom(h, len, v, q) = {} =>
            Cardinality(left \cup OnesFrom(h, len, v, q))
                = Cardinality(left) + Cardinality(OnesFrom(h, len, v, q))
    BY <2>5, OnesType, PartsAddUp
  <2> QED BY <1>6, <1>8, <2>2, <2>3, <2>4, <2>6 DEF Ones
<1>10. Ones(f, len, v, x) \in Nat /\ Ones(g, len, v, x) \in Nat BY OnesType
<1>11. CASE x < q BY <1>1, <1>9, <1>10, <1>11 DEF g
<1>12. CASE x = q BY <1>1, <1>8, <1>10, <1>12 DEF g
<1>13. CASE x = q + 1 BY <1>1, <1>6, <1>7, <1>10, <1>13 DEF g
<1>14. CASE x >= q + 2 BY <1>1, <1>3, <1>10, <1>14 DEF g
<1> QED BY <1>11, <1>12, <1>13, <1>14


--------------------------------------------------------------------------------

(* The earlier of two places. *)
First(x, y) == IF x <= y THEN x ELSE y

(* Before phase ph the j-th of the v's or more, counted from the right, has come *)
(* to its place or moved with every phase but the first j.  M is their number,   *)
(* rounded up to an even one.                                                    *)
Moved(f, len, ph) ==
    \A v \in Int, j \in Nat \ {0}, M \in Nat :
        /\ M % 2 = 0
        /\ Ones(f, len, v, 0) <= M /\ M <= Ones(f, len, v, 0) + 1
        /\ j <= Ones(f, len, v, 0)
        => Ones(f, len, v, First(len - j, M - 2 * j + ph)) >= j

LEMMA AllAreFromTheStart ==
    ASSUME NEW len, NEW f, NEW v, NEW x \in Int, x <= 0
    PROVE  Ones(f, len, v, x) = Ones(f, len, v, 0)
<1>1. OnesFrom(f, len, v, x) = OnesFrom(f, len, v, 0) BY DEF OnesFrom
<1> QED BY <1>1 DEF Ones

(* Before the first phase nothing has to have moved. *)
LEMMA NothingMovedYet == ASSUME NEW len \in Nat, NEW f PROVE Moved(f, len, 0)
<1> SUFFICES ASSUME NEW v \in Int, NEW j \in Nat \ {0}, NEW M \in Nat,
                    Ones(f, len, v, 0) <= M, M <= Ones(f, len, v, 0) + 1,
                    j <= Ones(f, len, v, 0)
             PROVE  Ones(f, len, v, First(len - j, M - 2 * j + 0)) >= j
  BY DEF Moved
<1>1. PICK x \in Int : x = First(len - j, M - 2 * j + 0) /\ x <= M - 2 * j
  <2>1. PICK y \in Int, z \in Int : y = len - j /\ z = M - 2 * j OBVIOUS
  <2>2. First(y, z) \in Int /\ First(y, z) <= z BY DEF First
  <2>3. M - 2 * j + 0 = z BY <2>1
  <2> QED BY <2>1, <2>2, <2>3
<1>2. Ones(f, len, v, 0) \in Nat /\ Ones(f, len, v, x) \in Nat BY OnesType
<1>3. CASE x <= 0 BY <1>1, <1>2, <1>3, AllAreFromTheStart
<1>4. CASE x > 0
  <2>1. Ones(f, len, v, 0) <= Ones(f, len, v, x) + x BY <1>4, OnesLost
  <2> QED BY <1>1, <1>2, <1>4, <2>1
<1> QED BY <1>1, <1>3, <1>4

(* An exchange moves nothing back. *)
LEMMA MovedExchanged ==
    ASSUME NEW len \in Nat, NEW f \in Arr(len), NEW q \in 0 .. len - 2, f[q] > f[q + 1],
           NEW ph \in Nat, Moved(f, len, ph)
    PROVE  Moved(Exchanged(f, q), len, ph)
<1> DEFINE g == Exchanged(f, q)
<1> SUFFICES ASSUME NEW v \in Int, NEW j \in Nat \ {0}, NEW M \in Nat, M % 2 = 0,
                    Ones(g, len, v, 0) <= M, M <= Ones(g, len, v, 0) + 1,
                    j <= Ones(g, len, v, 0)
             PROVE  Ones(g, len, v, First(len - j, M - 2 * j + ph)) >= j
  BY DEF Moved
<1>1. PICK x \in Int : x = First(len - j, M - 2 * j + ph)
  <2>1. len - j \in Int /\ M - 2 * j + ph \in Int OBVIOUS
  <2> QED BY <2>1 DEF First
<1>2. Ones(g, len, v, 0) = Ones(f, len, v, 0) BY OnesExchanged
<1>3. Ones(f, len, v, x) >= j BY <1>1, <1>2 DEF Moved
<1>4. Ones(g, len, v, x) >= Ones(f, len, v, x) BY OnesExchanged
<1>5. Ones(g, len, v, x) \in Nat /\ Ones(f, len, v, x) \in Nat BY OnesType
<1> QED BY <1>1, <1>3, <1>4, <1>5

(* The left place of a pair that phase ph compares. *)
Left(len, ph) == {q \in 0 .. len - 2 : q % 2 = ph % 2}

(* When all pairs of a phase are in order everything has moved one place more.   *)
LEMMA PhaseMoves ==
    ASSUME NEW len \in Nat, NEW f \in Arr(len), NEW ph \in Nat, Moved(f, len, ph),
           \A q \in Left(len, ph) : f[q] <= f[q + 1]
    PROVE  Moved(f, len, ph + 1)
<1> SUFFICES ASSUME NEW v \in Int, NEW j \in Nat \ {0}, NEW M \in Nat, M % 2 = 0,
                    Ones(f, len, v, 0) <= M, M <= Ones(f, len, v, 0) + 1,
                    j <= Ones(f, len, v, 0)
             PROVE  Ones(f, len, v, First(len - j, M - 2 * j + (ph + 1))) >= j
  BY DEF Moved
<1>1. PICK q \in Int : q = M - 2 * j + ph OBVIOUS
<1>2. Ones(f, len, v, First(len - j, q)) >= j BY <1>1 DEF Moved
<1>3. \A x \in Int : Ones(f, len, v, x) \in Nat BY OnesType
<1>4. CASE q >= len - j BY <1>1, <1>2, <1>4 DEF First
<1>5. CASE q < len - j /\ q < 0
  <2>1. First(len - j, M - 2 * j + (ph + 1)) = q + 1 BY <1>1, <1>5 DEF First
  <2>2. Ones(f, len, v, q + 1) = Ones(f, len, v, 0) BY <1>5, AllAreFromTheStart
  <2> QED BY <2>1, <2>2
<1>6. CASE q < len - j /\ q >= 0
  <2>1. First(len - j, M - 2 * j + (ph + 1)) = q + 1 /\ First(len - j, q) = q
    BY <1>1, <1>6 DEF First
  <2>2. q \in Left(len, ph)
    <3>1. q \in 0 .. len - 2 BY <1>6
    <3>2. q % 2 = ph % 2 BY <1>1
    <3> QED BY <3>1, <3>2 DEF Left
  <2>3. /\ q \in 0 .. len - 1 /\ q + 1 \in 0 .. len - 1
        /\ f[q] \in Int /\ f[q + 1] \in Int /\ f[q] <= f[q + 1]
    BY <1>6, <2>2 DEF Left, Arr
  <2>4. Ones(f, len, v, q) >= j BY <1>2, <2>1
  <2>5. Ones(f, len, v, q) = Ones(f, len, v, q + 1) + IF f[q] >= v THEN 1 ELSE 0
    BY <2>3, OnesStep
  <2>6. Ones(f, len, v, q + 1) = Ones(f, len, v, q + 2) + IF f[q + 1] >= v THEN 1 ELSE 0
    <3>1. (q + 1) + 1 = q + 2 OBVIOUS
    <3> QED BY <2>3, <3>1, OnesStep
  <2>7. Ones(f, len, v, q + 2) >= j - 1
    <3>1. CASE j = 1 BY <1>3, <3>1
    <3>2. CASE j # 1
      <4>1. PICK k \in Nat \ {0} : k = j - 1 BY <3>2
      <4>2. Ones(f, len, v, First(len - k, M - 2 * k + ph)) >= k
        <5>1. k <= Ones(f, len, v, 0) BY <1>3, <4>1
        <5> QED BY <5>1 DEF Moved
      <4>3. First(len - k, M - 2 * k + ph) = q + 2 BY <1>1, <1>6, <4>1 DEF First
      <4> QED BY <4>1, <4>2, <4>3
    <3> QED BY <3>1, <3>2
  <2>8. PICK s \in Nat : s = Ones(f, len, v, q + 2) BY <1>3
  <2>9. PICK r \in Nat : r = Ones(f, len, v, q + 1) BY <1>3
  <2>10. r >= j
    <3>1. CASE f[q] >= v
      <4>1. f[q + 1] >= v BY <2>3, <3>1
      <4> QED BY <2>6, <2>7, <2>8, <2>9, <4>1
    <3>2. CASE ~(f[q] >= v) BY <2>4, <2>5, <2>9, <3>2
    <3> QED BY <3>1, <3>2
  <2> QED BY <2>1, <2>9, <2>10
<1> QED BY <1>4, <1>5, <1>6

(* An even number of its size. *)
LEMMA RoundedUp == ASSUME NEW m \in Nat PROVE \E M \in Nat : M % 2 = 0 /\ m <= M /\ M <= m + 1
<1>1. CASE m % 2 = 0 BY <1>1
<1>2. CASE m % 2 # 0
  <2>1. (m + 1) % 2 = 0 BY <1>2
  <2> QED BY <2>1
<1> QED BY <1>1, <1>2

(* After len phases everything is in its place. *)
LEMMA MovedIsSorted ==
    ASSUME NEW len \in Nat, NEW f \in Arr(len), Moved(f, len, len), NEW q \in 0 .. len - 2
    PROVE  f[q] <= f[q + 1]
<1> SUFFICES ASSUME f[q] > f[q + 1] PROVE FALSE
  <2>1. f[q] \in Int /\ f[q + 1] \in Int BY DEF Arr
  <2> QED BY <2>1
<1>1. q \in 0 .. len - 1 /\ q + 1 \in 0 .. len - 1 /\ f[q] \in Int /\ f[q + 1] \in Int
  BY DEF Arr
<1>2. PICK v \in Int : v = f[q] BY <1>1
<1>3. \A x \in Int : Ones(f, len, v, x) \in Nat BY OnesType
<1>4. PICK r \in Nat : r = Ones(f, len, v, q + 2) /\ r <= len - (q + 2)
  <2>1. q + 2 \in 0 .. len OBVIOUS
  <2> QED BY <1>3, <2>1, OnesBounded
<1>5. Ones(f, len, v, q + 1) = r
  <2>1. (q + 1) + 1 = q + 2 OBVIOUS
  <2> QED BY <1>1, <1>2, <1>4, <2>1, OnesStep
<1>6. Ones(f, len, v, q) = r + 1 BY <1>1, <1>2, <1>5, OnesStep
<1>7. PICK j \in Nat \ {0} : j = r + 1 OBVIOUS
<1>8. j <= Ones(f, len, v, 0) BY <1>3, <1>6, <1>7, OnesFewer
<1>9. PICK M \in Nat : M % 2 = 0 /\ Ones(f, len, v, 0) <= M /\ M <= Ones(f, len, v, 0) + 1
  BY <1>3, RoundedUp
<1>10. Ones(f, len, v, First(len - j, M - 2 * j + len)) >= j
  BY <1>8, <1>9 DEF Moved
<1>11. First(len - j, M - 2 * j + len) = len - j
  BY <1>3, <1>8, <1>9 DEF First
<1>12. Ones(f, len, v, len - j) <= Ones(f, len, v, q + 1)
  <2>1. q + 1 <= len - j BY <1>4, <1>7
  <2> QED BY <2>1, OnesFewer
<1> QED BY <1>3, <1>5, <1>7, <1>10, <1>11, <1>12

--------------------------------------------------------------------------------
(* Sorting: the state of the threads. *)

Occurs(f, v) == Cardinality({k \in OE!Indexes : f[k] = v})

Busy(t) == sort_pc[t] \in {"first", "second"}

(* The threads are in phase cur or, those that have not seen yet that all have   *)
(* arrived, at the end of the one before; the exchanges under way are of         *)
(* different pairs of phase cur, which nobody else takes any more.               *)
InPhase(cur) ==
    /\ cur \in 0 .. OE!n
    /\ \A t \in Workers :
          /\ phase[t] = cur \/ (phase[t] = cur - 1 /\ sort_pc[t] = "barrier")
          /\ sort_pc[t] = "done" <=> phase[t] = OE!n
          /\ Busy(t) => /\ phase[t] = cur /\ cur < OE!n
                        /\ i[t] \in OE!Iterations(cur) \ todo[cur]
          /\ cur < OE!n /\ phase[t] = cur /\ sort_pc[t] = "barrier" => todo[cur] = {}
    /\ \A t, u \in Workers : t # u /\ Busy(t) /\ Busy(u) => i[t] # i[u]
    /\ \A ph \in 0 .. OE!n - 1 : /\ todo[ph] \subseteq OE!Iterations(ph)
                                 /\ ph < cur => todo[ph] = {}
                                 /\ ph > cur => todo[ph] = OE!Iterations(ph)

(* The array as if the second write of an exchange came together with the first. *)
Logical(cur, f) ==
    /\ f \in [OE!Indexes -> OE!Values]
    /\ \A k \in OE!Indexes :
          (\A t \in Workers : sort_pc[t] = "second" => i[t] # k) => a[k] = f[k]
    /\ \A t \in Workers : sort_pc[t] = "second" => temp[t] = f[i[t]]

(* It holds the elements of the input; an exchange that starts is of a pair out  *)
(* of order, and one that is over has left its pair in order.                    *)
Progress(cur, f) ==
    /\ \A v \in OE!Values : Occurs(f, v) = Occurs(input, v)
    /\ \A t \in Workers : sort_pc[t] = "first" =>
          /\ temp[t] = f[OE!Kept(cur, i[t])]
          /\ f[OE!Lower(cur, i[t])] > f[OE!Lower(cur, i[t]) + 1]
    /\ Moved(f, OE!n, cur)
    /\ cur < OE!n => \A k \in OE!Iterations(cur) \ todo[cur] :
          (\A t \in Workers : sort_pc[t] = "first" => i[t] # k) =>
              f[OE!Lower(cur, k)] <= f[OE!Lower(cur, k) + 1]

--------------------------------------------------------------------------------
(* Arrays and pairs. *)

LEMMA ArrayShape ==
    ASSUME input \in OE!Arrays
    PROVE  \E len \in Nat \ {0} : /\ OE!Indexes = 0 .. len - 1 /\ OE!n = len
                                  /\ OE!Values \subseteq Int
                                  /\ input \in [0 .. len - 1 -> OE!Values]
<1>1. PICK len \in Nat \ {0} : input \in [0 .. len - 1 -> Int]
  <2>1. CASE input = OE!ProgramArray
    <3>1. PICK t : t = <<6, 9, 1, 5, 8, 10, 2, 4, 7, 3>> OBVIOUS
    <3>2. \A k \in 1 .. 10 : t[k] \in Int BY <3>1
    <3>3. \A k \in 0 .. 9 : k + 1 \in 1 .. 10 OBVIOUS
    <3>4. OE!ProgramArray = [k \in 0 .. 9 |-> t[k + 1]] BY <3>1 DEF OE!ProgramArray
    <3>5. OE!ProgramArray \in [0 .. 9 -> Int] BY <3>2, <3>3, <3>4
    <3>6. 10 - 1 = 9 /\ 10 \in Nat \ {0} OBVIOUS
    <3> QED BY <2>1, <3>5, <3>6
  <2>2. CASE input \in UNION {[0 .. m - 1 -> TestValues] : m \in 1 .. MaxLength}
    <3>1. PICK m \in 1 .. MaxLength : input \in [0 .. m - 1 -> TestValues] BY <2>2
    <3>2. TestValues \subseteq Int /\ m \in Nat \ {0} BY BoundsAssumption
    <3>3. input \in [0 .. m - 1 -> Int] BY <3>1, <3>2
    <3> QED BY <3>3
  <2> QED BY <2>1, <2>2 DEF OE!Arrays
<1>2. OE!Indexes = 0 .. len - 1 BY <1>1 DEF OE!Indexes
<1>3. OE!n = len
  <2>1. 0 \in Int /\ len - 1 \in Int OBVIOUS
  <2>2. Cardinality(0 .. len - 1) = IF 0 > len - 1 THEN 0 ELSE (len - 1) - 0 + 1
    BY <2>1, FS_Interval
  <2> QED BY <1>2, <2>2 DEF OE!n, OE!Cardinality, OE!IsFiniteSet, Cardinality
<1>4. OE!Values \subseteq Int /\ input \in [0 .. len - 1 -> OE!Values]
  BY <1>1, <1>2 DEF OE!Values
<1> QED BY <1>2, <1>3, <1>4

(* The pair of an iteration. *)
LEMMA PairOf ==
    ASSUME NEW len \in Nat \ {0}, OE!Indexes = 0 .. len - 1, OE!n = len,
           NEW cur \in Nat, NEW k \in OE!Iterations(cur)
    PROVE  /\ k \in 0 .. len - 1 /\ OE!Kept(cur, k) \in 0 .. len - 1
           /\ OE!Lower(cur, k) \in Left(len, cur)
           /\ k % 2 = 1 /\ OE!Kept(cur, k) % 2 = 0
           /\ \/ OE!Lower(cur, k) = k /\ OE!Kept(cur, k) = k + 1
              \/ OE!Lower(cur, k) + 1 = k /\ OE!Kept(cur, k) = OE!Lower(cur, k)
<1>1. k \in 0 .. len - 1 /\ k % 2 = 1 BY DEF OE!Iterations
<1>2. CASE cur % 2 = 0
  <2>1. k # 0 BY <1>1
  <2>2. (k - 1) % 2 = 0 /\ k - 1 \in 0 .. len - 2 BY <1>1, <2>1
  <2> QED BY <1>1, <1>2, <2>2 DEF OE!Kept, OE!Lower, Left
<1>3. CASE cur % 2 # 0
  <2>1. k < len - 1 BY <1>3 DEF OE!Iterations
  <2>2. (k + 1) % 2 = 0 /\ k \in 0 .. len - 2 /\ cur % 2 = 1 BY <1>1, <1>3, <2>1
  <2> QED BY <1>1, <1>3, <2>2 DEF OE!Kept, OE!Lower, Left
<1> QED BY <1>2, <1>3

(* Different iterations of a phase have no place in common. *)
LEMMA PairsApart ==
    ASSUME NEW len \in Nat \ {0}, OE!Indexes = 0 .. len - 1, OE!n = len,
           NEW cur \in Nat, NEW k \in OE!Iterations(cur), NEW m \in OE!Iterations(cur),
           k # m
    PROVE  /\ OE!Lower(cur, k) # OE!Lower(cur, m)
           /\ OE!Lower(cur, k) # OE!Lower(cur, m) + 1
           /\ OE!Lower(cur, m) # OE!Lower(cur, k) + 1
           /\ OE!Kept(cur, k) # OE!Kept(cur, m) /\ OE!Kept(cur, k) # m
<1>1. /\ k \in 0 .. len - 1 /\ k % 2 = 1 /\ m \in 0 .. len - 1 /\ m % 2 = 1
      /\ OE!Kept(cur, k) % 2 = 0
  BY PairOf
<1>2. CASE cur % 2 = 0 BY <1>1, <1>2 DEF OE!Kept, OE!Lower
<1>3. CASE cur % 2 # 0 BY <1>1, <1>3 DEF OE!Kept, OE!Lower
<1> QED BY <1>2, <1>3

(* Every pair of neighbours of a phase is the pair of an iteration. *)
LEMMA EveryPair ==
    ASSUME NEW len \in Nat \ {0}, OE!Indexes = 0 .. len - 1, OE!n = len,
           NEW cur \in Nat, NEW q \in Left(len, cur)
    PROVE  \E k \in OE!Iterations(cur) : OE!Lower(cur, k) = q
<1>1. q \in 0 .. len - 2 /\ q % 2 = cur % 2 BY DEF Left
<1>2. CASE cur % 2 = 0
  <2>1. q + 1 \in 0 .. len - 1 /\ (q + 1) % 2 = 1 /\ (q + 1) - 1 = q BY <1>1, <1>2
  <2> QED BY <1>2, <2>1 DEF OE!Iterations, OE!Lower
<1>3. CASE cur % 2 # 0
  <2>1. q % 2 = 1 /\ q < len - 1 BY <1>1, <1>3
  <2> QED BY <1>1, <1>3, <2>1 DEF OE!Iterations, OE!Lower
<1> QED BY <1>2, <1>3

(* An exchange keeps the elements. *)
LEMMA OccursExchanged ==
    ASSUME NEW len \in Nat \ {0}, OE!Indexes = 0 .. len - 1,
           NEW f, f = [k \in 0 .. len - 1 |-> f[k]], NEW q \in 0 .. len - 2, NEW v
    PROVE  Occurs(Exchanged(f, q), v) = Occurs(f, v)
<1>0. PICK g : g = Exchanged(f, q) OBVIOUS
<1>a. g = [k \in 0 .. len - 1 |->
              IF k = q THEN f[q + 1] ELSE IF k = q + 1 THEN f[q] ELSE f[k]]
  BY <1>0, ExchangedAt
<1> DEFINE I == 0 .. len - 1
           turn == [k \in I |-> IF k = q THEN q + 1 ELSE IF k = q + 1 THEN q ELSE k]
           A == {k \in I : f[k] = v}
           B == {k \in I : g[k] = v}
           h == [k \in A |-> turn[k]]
<1>1. /\ g[q] = f[q + 1] /\ g[q + 1] = f[q]
      /\ \A k \in I \ {q, q + 1} : g[k] = f[k]
  BY <1>a, <1>0
<1>2. q \in I /\ q + 1 \in I /\ q # q + 1 OBVIOUS
<1>3. /\ \A k \in I : turn[k] \in I /\ turn[turn[k]] = k /\ g[turn[k]] = f[k]
      /\ \A k \in I : f[turn[k]] = g[k]
  BY <1>1, <1>2
<1> HIDE DEF turn
<1>4. h \in Bijection(A, B)
  <2>1. h \in [A -> B] BY <1>3
  <2>2. \A x, y \in A : h[x] = h[y] => x = y BY <1>3
  <2>3. \A y \in B : \E x \in A : h[x] = y
    <3> TAKE y \in B
    <3>1. turn[y] \in A /\ h[turn[y]] = y BY <1>3
    <3> QED BY <3>1
  <2> QED BY <2>1, <2>2, <2>3 DEF Bijection, Injection, Surjection, IsInjective
<1>5. IsFiniteSet(A)
  <2>1. 0 \in Int /\ len - 1 \in Int OBVIOUS
  <2>2. IsFiniteSet(I) BY <2>1, FS_Interval
  <2> QED BY <2>2, FS_Subset
<1>6. Cardinality(B) = Cardinality(A)
  <2>1. ExistsBijection(A, B) BY <1>4 DEF ExistsBijection
  <2> QED BY <1>5, <2>1, FS_Bijection
<1> QED BY <1>0, <1>6 DEF Occurs

--------------------------------------------------------------------------------
(* What depends only on the input stays. *)
LEMMA SameShape ==
    ASSUME input' = input
    PROVE  /\ OE!Indexes' = OE!Indexes /\ OE!n' = OE!n /\ OE!Values' = OE!Values
           /\ \A ph : OE!Iterations(ph)' = OE!Iterations(ph)
           /\ \A f, v : Occurs(f, v)' = Occurs(f, v)
           /\ \A v : Occurs(input, v)' = Occurs(input, v)
<1>1. OE!Indexes' = OE!Indexes BY DEF OE!Indexes
<1>2. OE!n' = OE!n BY <1>1 DEF OE!n, OE!Cardinality
<1>3. OE!Values' = OE!Values BY <1>1 DEF OE!Values
<1>4. \A ph : OE!Iterations(ph)' = OE!Iterations(ph) BY <1>1, <1>2 DEF OE!Iterations
<1>5. \A f, v : Occurs(f, v)' = Occurs(f, v) BY <1>1 DEF Occurs
<1>6. \A v : Occurs(input, v)' = Occurs(input, v) BY <1>1 DEF Occurs
<1> QED BY <1>1, <1>2, <1>3, <1>4, <1>5, <1>6

(* The types, with the length of the array. *)
SortTypes(len) ==
    /\ len \in Nat \ {0}
    /\ OE!Indexes = 0 .. len - 1 /\ OE!n = len /\ OE!Values \subseteq Int
    /\ input \in OE!Arrays /\ input \in [0 .. len - 1 -> OE!Values]
    /\ a \in [0 .. len - 1 -> OE!Values]
    /\ phase \in [Workers -> 0 .. len]
    /\ todo \in [0 .. len - 1 -> SUBSET (0 .. len - 1)]
    /\ i \in [Workers -> 0 .. len - 1]
    /\ temp \in [Workers -> OE!Values]
    /\ sort_pc \in [Workers -> OE!Locations]

(* The invariant, of a length, a phase and an array. *)
SortView(len, cur, f) ==
    SortTypes(len) /\ InPhase(cur) /\ Logical(cur, f) /\ Progress(cur, f)

SortInv == \E len, cur, f : SortView(len, cur, f)

LEMMA SortInvTypes == SortInv => OE!TypeOK
<1> SUFFICES ASSUME NEW len, SortTypes(len) PROVE OE!TypeOK BY DEF SortInv, SortView
<1>1. OE!Indexes \cup {0} = 0 .. len - 1 BY DEF SortTypes
<1> QED BY <1>1 DEF OE!TypeOK, SortTypes

LEMMA SortInvInit == OE!Init => SortInv
<1> SUFFICES ASSUME OE!Init PROVE SortInv OBVIOUS
<1>1. PICK len \in Nat \ {0} : /\ OE!Indexes = 0 .. len - 1 /\ OE!n = len
                               /\ OE!Values \subseteq Int
                               /\ input \in [0 .. len - 1 -> OE!Values]
  BY ArrayShape DEF OE!Init
<1>2. 0 \in 0 .. len - 1 /\ \A ph : OE!Iterations(ph) \subseteq 0 .. len - 1
  BY <1>1 DEF OE!Iterations
<1>3. SortTypes(len) BY <1>1, <1>2 DEF OE!Init, SortTypes, OE!Locations
<1>4. InPhase(0) BY <1>1 DEF OE!Init, InPhase, Busy
<1>5. Logical(0, input) BY <1>1 DEF OE!Init, Logical
<1>6. Moved(input, OE!n, 0) BY <1>1, NothingMovedYet
<1>7. Progress(0, input) BY <1>1, <1>6 DEF OE!Init, Progress
<1> QED BY <1>3, <1>4, <1>5, <1>7 DEF SortInv, SortView

(* In a pair whose exchange is not half done, the array is what it seems. *)
LEMMA PairAsItIs ==
    ASSUME NEW len, NEW cur, NEW f, SortView(len, cur, f), NEW k \in OE!Iterations(cur),
           \A u \in Workers : sort_pc[u] = "second" => i[u] # k
    PROVE  /\ a[OE!Lower(cur, k)] = f[OE!Lower(cur, k)]
           /\ a[OE!Lower(cur, k) + 1] = f[OE!Lower(cur, k) + 1]
<1>1. /\ len \in Nat \ {0} /\ OE!Indexes = 0 .. len - 1 /\ OE!n = len /\ cur \in Nat
  BY DEF SortView, SortTypes, InPhase
<1>2. PICK q \in 0 .. len - 2 : q = OE!Lower(cur, k) BY <1>1, PairOf DEF Left
<1>3. ASSUME NEW u \in Workers, sort_pc[u] = "second" PROVE i[u] # q /\ i[u] # q + 1
  <2>1. i[u] \in OE!Iterations(cur) /\ i[u] # k BY <1>3 DEF SortView, InPhase, Busy
  <2>2. PICK m \in OE!Iterations(cur) : m = i[u] /\ m # k BY <2>1
  <2>3. /\ q # OE!Lower(cur, m) /\ q # OE!Lower(cur, m) + 1 /\ OE!Lower(cur, m) # q + 1
    BY <1>1, <1>2, <2>2, PairsApart
  <2>4. OE!Lower(cur, m) \in Int /\ (m = OE!Lower(cur, m) \/ m = OE!Lower(cur, m) + 1)
    BY <1>1, PairOf DEF Left
  <2> QED BY <2>2, <2>3, <2>4
<1>4. q \in OE!Indexes /\ q + 1 \in OE!Indexes BY <1>1
<1> QED BY <1>2, <1>3, <1>4 DEF SortView, Logical

LEMMA TestStep ==
    ASSUME SortInv, NEW t \in Workers, OE!TestPair(t) PROVE SortInv'
<1>1. PICK len, cur, f : SortView(len, cur, f) BY DEF SortInv
<1>2. /\ len \in Nat \ {0} /\ OE!Indexes = 0 .. len - 1 /\ OE!n = len /\ cur \in Nat
  BY <1>1 DEF SortView, SortTypes, InPhase
<1>3. PICK k \in todo[phase[t]] :
          /\ todo' = [todo EXCEPT ![phase[t]] = @ \ {k}]
          /\ IF a[OE!Lower(phase[t], k)] > a[OE!Lower(phase[t], k) + 1]
             THEN /\ sort_pc' = [sort_pc EXCEPT ![t] = "first"]
                  /\ i' = [i EXCEPT ![t] = k]
                  /\ temp' = [temp EXCEPT ![t] = a[OE!Kept(phase[t], k)]]
             ELSE UNCHANGED <<sort_pc, i, temp>>
  BY DEF OE!TestPair
<1>4. sort_pc[t] = "for" /\ UNCHANGED <<input, a, phase>> BY DEF OE!TestPair
<1>5. phase[t] = cur /\ cur < len /\ cur \in 0 .. len - 1
  BY <1>1, <1>2, <1>4 DEF SortView, InPhase, SortTypes
<1>6. /\ k \in todo[cur] /\ k \in OE!Iterations(cur)
      /\ k \in 0 .. len - 1 /\ OE!Kept(cur, k) \in 0 .. len - 1
  BY <1>1, <1>2, <1>3, <1>5, PairOf DEF SortView, InPhase
<1>7. PICK q \in 0 .. len - 2 : q = OE!Lower(cur, k) BY <1>2, <1>6, PairOf DEF Left
<1>8. \A u \in Workers : Busy(u) => i[u] # k
  BY <1>1, <1>6 DEF SortView, InPhase
<1>9. a[q] = f[q] /\ a[q + 1] = f[q + 1]
  BY <1>1, <1>6, <1>7, <1>8, PairAsItIs DEF Busy
<1>10. OE!Kept(cur, k) \in {q, q + 1} BY <1>2, <1>6, <1>7, PairOf
<1>11. /\ f \in [0 .. len - 1 -> OE!Values] /\ OE!Values \subseteq Int
       /\ f[q] \in Int /\ f[q + 1] \in Int
  <2>1. q \in 0 .. len - 1 /\ q + 1 \in 0 .. len - 1 BY <1>2
  <2>2. f \in [0 .. len - 1 -> OE!Values] /\ OE!Values \subseteq Int
    BY <1>1, <1>2 DEF SortView, Logical, SortTypes
  <2> QED BY <2>1, <2>2
<1>12. /\ OE!Indexes' = OE!Indexes /\ OE!n' = OE!n /\ OE!Values' = OE!Values
       /\ \A ph : OE!Iterations(ph)' = OE!Iterations(ph)
       /\ \A v : Occurs(f, v)' = Occurs(f, v) /\ Occurs(input, v)' = Occurs(input, v)
  BY <1>4, SameShape
<1>13. /\ todo \in [0 .. len - 1 -> SUBSET (0 .. len - 1)]
       /\ todo' = [todo EXCEPT ![cur] = todo[cur] \ {k}]
       /\ todo'[cur] = todo[cur] \ {k}
       /\ \A ph \in 0 .. len - 1 : ph # cur => todo'[ph] = todo[ph]
  BY <1>1, <1>3, <1>5 DEF SortView, SortTypes
<1>14. SortTypes(len) /\ InPhase(cur) /\ Logical(cur, f) /\ Progress(cur, f)
  BY <1>1 DEF SortView
<1>15. CASE a[q] > a[q + 1]
  <2>1. /\ sort_pc' = [sort_pc EXCEPT ![t] = "first"]
        /\ i' = [i EXCEPT ![t] = k]
        /\ temp' = [temp EXCEPT ![t] = a[OE!Kept(cur, k)]]
    BY <1>3, <1>5, <1>7, <1>15
  <2>2. \A u \in Workers :
            /\ sort_pc'[u] = IF u = t THEN "first" ELSE sort_pc[u]
            /\ i'[u] = IF u = t THEN k ELSE i[u]
            /\ temp'[u] = IF u = t THEN f[OE!Kept(cur, k)] ELSE temp[u]
    BY <1>9, <1>10, <1>14, <2>1 DEF SortTypes
  <2>3. SortTypes(len)'
    BY <1>4, <1>6, <1>12, <1>13, <1>14, <2>1 DEF SortTypes, OE!Locations, OE!Arrays
  <2>4. InPhase(cur)'
    BY <1>2, <1>4, <1>5, <1>6, <1>8, <1>12, <1>13, <1>14, <2>2 DEF InPhase, Busy
  <2>5. Logical(cur, f)'
    BY <1>4, <1>12, <1>14, <2>2 DEF Logical
  <2>6. Progress(cur, f)'
    <3>1. \A m \in OE!Iterations(cur) \ todo'[cur] :
             (\A u \in Workers : sort_pc'[u] = "first" => i'[u] # m) =>
                 /\ m \in OE!Iterations(cur) \ todo[cur]
                 /\ \A u \in Workers : sort_pc[u] = "first" => i[u] # m
      BY <1>4, <1>8, <1>13, <2>2 DEF Busy
    <3>2. \A m \in OE!Iterations(cur) \ todo'[cur] :
             (\A u \in Workers : sort_pc'[u] = "first" => i'[u] # m) =>
                 f[OE!Lower(cur, m)] <= f[OE!Lower(cur, m) + 1]
      BY <1>2, <1>5, <1>14, <3>1 DEF Progress
    <3>3. \A u \in Workers : sort_pc'[u] = "first" =>
              /\ temp'[u] = f[OE!Kept(cur, i'[u])]
              /\ f[OE!Lower(cur, i'[u])] > f[OE!Lower(cur, i'[u]) + 1]
      BY <1>7, <1>9, <1>14, <1>15, <2>2 DEF Progress
    <3>4. Moved(f, OE!n', cur) BY <1>12, <1>14 DEF Progress
    <3>5. \A v \in OE!Values' : Occurs(f, v)' = Occurs(input, v)'
      BY <1>12, <1>14 DEF Progress
    <3> QED BY <1>12, <3>2, <3>3, <3>4, <3>5 DEF Progress
  <2> QED BY <2>3, <2>4, <2>5, <2>6 DEF SortInv, SortView
<1>16. CASE ~(a[q] > a[q + 1])
  <2>1. UNCHANGED <<sort_pc, i, temp>> BY <1>3, <1>5, <1>7, <1>16
  <2>2. SortTypes(len)'
    BY <1>4, <1>12, <1>13, <1>14, <2>1 DEF SortTypes
  <2>3. InPhase(cur)'
    BY <1>2, <1>4, <1>5, <1>6, <1>8, <1>12, <1>13, <1>14, <2>1 DEF InPhase, Busy
  <2>4. Logical(cur, f)' BY <1>4, <1>12, <1>14, <2>1 DEF Logical
  <2>5. Progress(cur, f)'
    <3>1. f[q] <= f[q + 1] BY <1>9, <1>11, <1>16
    <3>2. \A m \in OE!Iterations(cur) \ todo'[cur] :
             (\A u \in Workers : sort_pc'[u] = "first" => i'[u] # m) =>
                 f[OE!Lower(cur, m)] <= f[OE!Lower(cur, m) + 1]
      BY <1>2, <1>5, <1>7, <1>13, <1>14, <2>1, <3>1 DEF Progress
    <3>3. Moved(f, OE!n', cur) BY <1>12, <1>14 DEF Progress
    <3>4. \A v \in OE!Values' : Occurs(f, v)' = Occurs(input, v)'
      BY <1>12, <1>14 DEF Progress
    <3> QED BY <1>12, <1>14, <2>1, <3>2, <3>3, <3>4 DEF Progress
  <2> QED BY <2>2, <2>3, <2>4, <2>5 DEF SortInv, SortView
<1> QED BY <1>15, <1>16

--------------------------------------------------------------------------------
(* The first write: from here on the exchange counts as done. *)
LEMMA FirstWriteStep ==
    ASSUME SortInv, NEW t \in Workers, OE!FirstWrite(t) PROVE SortInv'
<1>1. PICK len, cur, f : SortView(len, cur, f) BY DEF SortInv
<1>2. SortTypes(len) /\ InPhase(cur) /\ Logical(cur, f) /\ Progress(cur, f)
  BY <1>1 DEF SortView
<1>3. /\ len \in Nat \ {0} /\ OE!Indexes = 0 .. len - 1 /\ OE!n = len /\ cur \in Nat
      /\ f \in [0 .. len - 1 -> OE!Values] /\ OE!Values \subseteq Int
  BY <1>2 DEF SortTypes, InPhase, Logical
<1>4. /\ sort_pc[t] = "first" /\ sort_pc' = [sort_pc EXCEPT ![t] = "second"]
      /\ a' = [a EXCEPT ![OE!Kept(phase[t], i[t])] = a[i[t]]]
      /\ UNCHANGED <<input, phase, todo, i, temp>>
  BY DEF OE!FirstWrite, OE!Goto
<1>5. PICK k \in OE!Iterations(cur) \ todo[cur] : k = i[t] /\ phase[t] = cur /\ cur < len
  BY <1>2, <1>3, <1>4 DEF InPhase, Busy
<1>6. PICK q \in 0 .. len - 2, m \in 0 .. len - 1 :
          /\ q = OE!Lower(cur, k) /\ m = OE!Kept(cur, k) /\ k \in 0 .. len - 1
          /\ \/ q = k /\ m = k + 1
             \/ q + 1 = k /\ m = q
  <2>1. /\ k \in 0 .. len - 1 /\ OE!Kept(cur, k) \in 0 .. len - 1
        /\ OE!Lower(cur, k) \in Left(len, cur)
        /\ \/ OE!Lower(cur, k) = k /\ OE!Kept(cur, k) = k + 1
           \/ OE!Lower(cur, k) + 1 = k /\ OE!Kept(cur, k) = OE!Lower(cur, k)
    BY <1>3, <1>5, PairOf
  <2>2. OE!Lower(cur, k) \in 0 .. len - 2
    BY <2>1 DEF Left
  <2> QED
    BY <2>1, <2>2
<1>7. \A u \in Workers : u # t /\ Busy(u) => i[u] \in OE!Iterations(cur) /\ i[u] # k
  BY <1>2, <1>4, <1>5 DEF InPhase, Busy
<1>8. a[k] = f[k]
  <2>1. a[q] = f[q] /\ a[q + 1] = f[q + 1]
    BY <1>1, <1>4, <1>5, <1>6, <1>7, PairAsItIs DEF Busy
  <2> QED BY <1>6, <2>1
<1>9. temp[t] = f[m] /\ f[q] > f[q + 1]
  BY <1>2, <1>4, <1>5, <1>6 DEF Progress
<1>10. PICK g : g = Exchanged(f, q) OBVIOUS
<1>11. f = [x \in 0 .. len - 1 |-> f[x]] /\ f \in Arr(len) BY <1>3 DEF Arr
<1>12. g = [x \in 0 .. len - 1 |->
               IF x = q THEN f[q + 1] ELSE IF x = q + 1 THEN f[q] ELSE f[x]]
  <2>1. len \in Nat BY <1>3
  <2>2. f = [x \in 0 .. len - 1 |-> f[x]] BY <1>11
  <2> QED BY <1>10, <2>1, <2>2, ExchangedAt
<1>13. /\ q \in 0 .. len - 1 /\ q + 1 \in 0 .. len - 1
       /\ g[q] = f[q + 1] /\ g[q + 1] = f[q]
       /\ g \in [0 .. len - 1 -> OE!Values]
       /\ \A x \in 0 .. len - 1 : x # q /\ x # q + 1 => g[x] = f[x]
  BY <1>3, <1>12
<1>14. ASSUME NEW j \in OE!Iterations(cur), j # k
       PROVE  /\ g[j] = f[j] /\ g[OE!Kept(cur, j)] = f[OE!Kept(cur, j)]
              /\ g[OE!Lower(cur, j)] = f[OE!Lower(cur, j)]
              /\ g[OE!Lower(cur, j) + 1] = f[OE!Lower(cur, j) + 1]
  <2>1. PICK x \in 0 .. len - 2, y \in 0 .. len - 1 :
            /\ x = OE!Lower(cur, j) /\ y = OE!Kept(cur, j)
            /\ \/ x = j /\ y = j + 1
               \/ x + 1 = j /\ y = x
    <3>1. /\ OE!Kept(cur, j) \in 0 .. len - 1 /\ OE!Lower(cur, j) \in 0 .. len - 2
          /\ \/ OE!Lower(cur, j) = j /\ OE!Kept(cur, j) = j + 1
             \/ OE!Lower(cur, j) + 1 = j /\ OE!Kept(cur, j) = OE!Lower(cur, j)
      BY <1>3, PairOf DEF Left
    <3> QED BY <3>1
  <2>2. x # q /\ x # q + 1 /\ x + 1 # q
    BY <1>3, <1>5, <1>6, <1>14, <2>1, PairsApart
  <2>3. x \in 0 .. len - 1 /\ x + 1 \in 0 .. len - 1 BY <1>3
  <2>4. g[x] = f[x] /\ g[x + 1] = f[x + 1] BY <1>13, <2>2, <2>3
  <2> QED BY <2>1, <2>4
<1>15. /\ OE!Indexes' = OE!Indexes /\ OE!n' = OE!n /\ OE!Values' = OE!Values
       /\ \A ph : OE!Iterations(ph)' = OE!Iterations(ph)
       /\ \A h, v : Occurs(h, v)' = Occurs(h, v)
       /\ \A v : Occurs(input, v)' = Occurs(input, v)
  BY <1>4, SameShape
<1>16. /\ sort_pc'[t] = "second"
       /\ \A u \in Workers : u # t => sort_pc'[u] = sort_pc[u]
       /\ a' = [a EXCEPT ![m] = f[k]]
       /\ \A x \in 0 .. len - 1 : a'[x] = IF x = m THEN f[k] ELSE a[x]
  BY <1>2, <1>4, <1>5, <1>6, <1>8 DEF SortTypes
<1>17. f[k] \in OE!Values BY <1>3, <1>6
<1>18. SortTypes(len)'
  BY <1>2, <1>4, <1>15, <1>16, <1>17 DEF SortTypes, OE!Locations
<1>19. InPhase(cur)'
  BY <1>2, <1>4, <1>15, <1>16 DEF InPhase, Busy
<1>20. Logical(cur, g)'
  <2>1. ASSUME NEW x \in 0 .. len - 1, \A u \in Workers : sort_pc'[u] = "second" => i[u] # x
        PROVE  a'[x] = g[x]
    <3>1. x # k BY <1>5, <1>16, <2>1
    <3>2. CASE x = m BY <1>6, <1>13, <1>16, <3>1, <3>2
    <3>3. CASE x # m
      <4>1. x # q /\ x # q + 1 BY <1>6, <3>1, <3>3
      <4>2. \A u \in Workers : sort_pc[u] = "second" => i[u] # x BY <1>4, <1>16, <2>1
      <4>3. a[x] = f[x] BY <1>2, <1>3, <4>2 DEF Logical
      <4> QED BY <1>13, <1>16, <3>3, <4>1, <4>3
    <3> QED BY <3>2, <3>3
  <2>2. ASSUME NEW u \in Workers, sort_pc'[u] = "second" PROVE temp[u] = g[i[u]]
    <3>1. CASE u = t
      <4>1. f[m] = g[k] BY <1>6, <1>13
      <4> QED BY <1>5, <1>9, <3>1, <4>1
    <3>2. CASE u # t
      <4>1. sort_pc[u] = "second" BY <1>16, <2>2, <3>2
      <4>2. i[u] \in OE!Iterations(cur) /\ i[u] # k BY <1>7, <3>2, <4>1 DEF Busy
      <4> QED BY <1>2, <1>14, <4>1, <4>2 DEF Logical
    <3> QED BY <3>1, <3>2
  <2> QED BY <1>3, <1>4, <1>13, <1>15, <2>1, <2>2 DEF Logical
<1>21. Progress(cur, g)'
  <2>1. \A v \in OE!Values : Occurs(g, v) = Occurs(input, v)
    <3>1. f = [x \in 0 .. len - 1 |-> f[x]] BY <1>11
    <3>2. \A v : Occurs(g, v) = Occurs(f, v) BY <1>3, <1>10, <3>1, OccursExchanged
    <3> QED BY <1>2, <3>2 DEF Progress
  <2>2. ASSUME NEW u \in Workers, sort_pc'[u] = "first"
        PROVE  /\ temp[u] = g[OE!Kept(cur, i[u])]
               /\ g[OE!Lower(cur, i[u])] > g[OE!Lower(cur, i[u]) + 1]
    <3>1. u # t /\ sort_pc[u] = "first" BY <1>16, <2>2
    <3>2. i[u] \in OE!Iterations(cur) /\ i[u] # k BY <1>7, <3>1 DEF Busy
    <3> QED BY <1>2, <1>14, <3>1, <3>2 DEF Progress
  <2>3. Moved(g, len, cur)
    BY <1>2, <1>3, <1>9, <1>10, <1>11, MovedExchanged DEF Progress
  <2>4. ASSUME NEW j \in OE!Iterations(cur) \ todo[cur],
               \A u \in Workers : sort_pc'[u] = "first" => i[u] # j
        PROVE  g[OE!Lower(cur, j)] <= g[OE!Lower(cur, j) + 1]
    <3>1. CASE j = k
      <4>1. f[q] \in Int /\ f[q + 1] \in Int BY <1>3, <1>13
      <4> QED BY <1>6, <1>9, <1>13, <3>1, <4>1
    <3>2. CASE j # k
      <4>1. \A u \in Workers : sort_pc[u] = "first" => i[u] # j
        BY <1>5, <1>16, <2>4, <3>2
      <4> QED BY <1>2, <1>3, <1>5, <1>14, <3>2, <4>1 DEF Progress
    <3> QED BY <3>1, <3>2
  <2> QED BY <1>3, <1>4, <1>15, <2>1, <2>2, <2>3, <2>4 DEF Progress
<1> QED BY <1>18, <1>19, <1>20, <1>21 DEF SortInv, SortView

(* The second write changes nothing that counts. *)
LEMMA SecondWriteStep ==
    ASSUME SortInv, NEW t \in Workers, OE!SecondWrite(t) PROVE SortInv'
<1>1. PICK len, cur, f : SortView(len, cur, f) BY DEF SortInv
<1>2. SortTypes(len) /\ InPhase(cur) /\ Logical(cur, f) /\ Progress(cur, f)
  BY <1>1 DEF SortView
<1>3. /\ len \in Nat \ {0} /\ OE!Indexes = 0 .. len - 1 /\ OE!n = len /\ cur \in Nat
      /\ f \in [0 .. len - 1 -> OE!Values] /\ OE!Values \subseteq Int
  BY <1>2 DEF SortTypes, InPhase, Logical
<1>4. /\ sort_pc[t] = "second" /\ sort_pc' = [sort_pc EXCEPT ![t] = "for"]
      /\ a' = [a EXCEPT ![i[t]] = temp[t]]
      /\ i' = [i EXCEPT ![t] = 0] /\ temp' = [temp EXCEPT ![t] = input[0]]
      /\ UNCHANGED <<input, phase, todo>>
  BY DEF OE!SecondWrite, OE!Goto
<1>5. PICK k \in 0 .. len - 1 : k = i[t] /\ temp[t] = f[k] /\ f[k] \in OE!Values
  BY <1>2, <1>3, <1>4 DEF SortTypes, Logical
<1>6. input[0] \in OE!Values /\ 0 \in 0 .. len - 1 BY <1>2, <1>3 DEF SortTypes
<1>7. /\ sort_pc'[t] = "for" /\ phase[t] = cur /\ cur < len
      /\ \A u \in Workers :
            u # t => sort_pc'[u] = sort_pc[u] /\ i'[u] = i[u] /\ temp'[u] = temp[u]
      /\ a' = [a EXCEPT ![k] = f[k]]
      /\ \A x \in 0 .. len - 1 : a'[x] = IF x = k THEN f[k] ELSE a[x]
  BY <1>2, <1>3, <1>4, <1>5 DEF SortTypes, InPhase, Busy
<1>8. /\ OE!Indexes' = OE!Indexes /\ OE!n' = OE!n /\ OE!Values' = OE!Values
      /\ \A ph : OE!Iterations(ph)' = OE!Iterations(ph)
      /\ \A h, v : Occurs(h, v)' = Occurs(h, v)
      /\ \A v : Occurs(input, v)' = Occurs(input, v)
  BY <1>4, SameShape
<1>9. SortTypes(len)'
  BY <1>2, <1>4, <1>5, <1>6, <1>7, <1>8 DEF SortTypes, OE!Locations
<1>10. InPhase(cur)'
  <2>1. /\ cur \in 0 .. OE!n' /\ phase' = phase /\ todo' = todo
        /\ \A u \in Workers : Busy(u)' => Busy(u) /\ i'[u] = i[u]
        /\ \A u \in Workers : sort_pc'[u] = "barrier" <=> sort_pc[u] = "barrier"
        /\ \A u \in Workers : sort_pc'[u] = "done" <=> sort_pc[u] = "done"
    BY <1>2, <1>4, <1>7, <1>8 DEF InPhase, Busy
  <2> QED
    BY <1>2, <1>8, <2>1 DEF InPhase
<1>11. Logical(cur, f)'
  <2>1. ASSUME NEW x \in 0 .. len - 1, \A u \in Workers : sort_pc'[u] = "second" => i'[u] # x
        PROVE  a'[x] = f[x]
    <3>1. CASE x = k BY <1>7, <3>1
    <3>2. CASE x # k
      <4>1. \A u \in Workers : sort_pc[u] = "second" => i[u] # x
        BY <1>4, <1>5, <1>7, <2>1, <3>2
      <4> QED BY <1>2, <1>3, <1>7, <3>2, <4>1 DEF Logical
    <3> QED BY <3>1, <3>2
  <2> QED BY <1>2, <1>3, <1>4, <1>7, <1>8, <2>1 DEF Logical
<1>12. Progress(cur, f)'
  <2>1. \A u \in Workers : (sort_pc'[u] = "first" <=> sort_pc[u] = "first")
                           /\ (sort_pc[u] = "first" => i'[u] = i[u] /\ temp'[u] = temp[u])
    BY <1>4, <1>7
  <2> QED BY <1>2, <1>4, <1>8, <2>1 DEF Progress
<1> QED BY <1>9, <1>10, <1>11, <1>12 DEF SortInv, SortView

(* A thread that finds no iteration left waits. *)
LEMMA ArriveStep ==
    ASSUME SortInv, NEW t \in Workers, OE!Arrive(t) PROVE SortInv'
<1>1. PICK len, cur, f : SortView(len, cur, f) BY DEF SortInv
<1>2. SortTypes(len) /\ InPhase(cur) /\ Logical(cur, f) /\ Progress(cur, f)
  BY <1>1 DEF SortView
<1>3. /\ sort_pc[t] = "for" /\ sort_pc' = [sort_pc EXCEPT ![t] = "barrier"]
      /\ todo[phase[t]] = {}
      /\ UNCHANGED <<input, a, phase, todo, i, temp>>
  BY DEF OE!Arrive, OE!Goto
<1>4. /\ sort_pc'[t] = "barrier"
      /\ \A u \in Workers : u # t => sort_pc'[u] = sort_pc[u]
  BY <1>2, <1>3 DEF SortTypes
<1>5. /\ OE!Indexes' = OE!Indexes /\ OE!n' = OE!n /\ OE!Values' = OE!Values
      /\ \A ph : OE!Iterations(ph)' = OE!Iterations(ph)
      /\ \A h, v : Occurs(h, v)' = Occurs(h, v)
      /\ \A v : Occurs(input, v)' = Occurs(input, v)
  BY <1>3, SameShape
<1>6. SortTypes(len)' BY <1>2, <1>3, <1>5 DEF SortTypes, OE!Locations
<1>7. InPhase(cur)' BY <1>2, <1>3, <1>4, <1>5 DEF InPhase, Busy
<1>8. Logical(cur, f)' BY <1>2, <1>3, <1>4, <1>5 DEF Logical
<1>9. Progress(cur, f)' BY <1>2, <1>3, <1>4, <1>5 DEF Progress
<1> QED BY <1>6, <1>7, <1>8, <1>9 DEF SortInv, SortView

--------------------------------------------------------------------------------
(* A thread goes on to the phase that others have begun, or begins it: then all  *)
(* pairs of the phase are in order.                                              *)
LEMMA NextPhaseStep ==
    ASSUME SortInv, NEW t \in Workers, OE!NextPhase(t) PROVE SortInv'
<1>1. PICK len, cur, f : SortView(len, cur, f) BY DEF SortInv
<1>2. SortTypes(len) /\ InPhase(cur) /\ Logical(cur, f) /\ Progress(cur, f)
  BY <1>1 DEF SortView
<1>3. /\ len \in Nat \ {0} /\ OE!Indexes = 0 .. len - 1 /\ OE!n = len /\ cur \in 0 .. len
      /\ f \in [0 .. len - 1 -> OE!Values] /\ OE!Values \subseteq Int
  BY <1>2 DEF SortTypes, InPhase, Logical
<1>4. /\ sort_pc[t] = "barrier" /\ phase[t] < len
      /\ sort_pc' = [sort_pc EXCEPT ![t] = IF phase[t] + 1 < len THEN "for" ELSE "done"]
      /\ phase' = [phase EXCEPT ![t] = phase[t] + 1]
      /\ UNCHANGED <<input, a, todo, i, temp>>
      /\ OE!AllArrived(t)
  BY <1>2, <1>3 DEF OE!NextPhase, OE!Goto, OE!MorePhases, SortTypes, InPhase
<1>5. /\ sort_pc'[t] = IF phase[t] + 1 < len THEN "for" ELSE "done"
      /\ phase'[t] = phase[t] + 1
      /\ \A u \in Workers : u # t => sort_pc'[u] = sort_pc[u] /\ phase'[u] = phase[u]
      /\ \A u \in Workers : phase[u] \in 0 .. len
  BY <1>2, <1>4 DEF SortTypes
<1>6. /\ OE!Indexes' = OE!Indexes /\ OE!n' = OE!n /\ OE!Values' = OE!Values
      /\ \A ph : OE!Iterations(ph)' = OE!Iterations(ph)
      /\ \A h, v : Occurs(h, v)' = Occurs(h, v)
      /\ \A v : Occurs(input, v)' = Occurs(input, v)
  BY <1>4, SameShape
<1>7. SortTypes(len)' BY <1>2, <1>4, <1>5, <1>6 DEF SortTypes, OE!Locations
<1>8. Logical(cur, f)' BY <1>2, <1>4, <1>5, <1>6 DEF Logical
<1>9. CASE phase[t] # cur
  <2>1. phase[t] + 1 = cur BY <1>2, <1>3, <1>5, <1>9 DEF InPhase
  <2>2. InPhase(cur)'
    BY <1>2, <1>3, <1>4, <1>5, <1>6, <2>1 DEF InPhase, Busy
  <2>3. Progress(cur, f)' BY <1>2, <1>4, <1>5, <1>6 DEF Progress
  <2> QED BY <1>7, <1>8, <2>2, <2>3 DEF SortInv, SortView
<1>10. CASE phase[t] = cur
  <2>1. \A u \in Workers : phase[u] = cur /\ sort_pc[u] = "barrier"
    BY <1>2, <1>3, <1>4, <1>5, <1>10 DEF OE!AllArrived, InPhase
  <2>2. cur < len /\ cur \in 0 .. len - 1 /\ todo[cur] = {}
    BY <1>2, <1>3, <1>4, <1>10 DEF InPhase
  <2>3. PICK up \in 1 .. len : up = cur + 1 /\ up - 1 = cur BY <1>3, <2>2
  <2>4. InPhase(up)'
    <3>1. \A ph \in 0 .. len - 1 : ph < up => ph < cur \/ ph = cur BY <1>3, <2>3
    <3>2. \A ph \in 0 .. len - 1 : ph > up => ph > cur BY <1>3, <2>3
    <3>3. \A u \in Workers : ~Busy(u)' BY <1>5, <2>1 DEF Busy
    <3>4. \A ph \in 0 .. len - 1 : /\ todo'[ph] \subseteq OE!Iterations(ph)
                                   /\ ph < up => todo'[ph] = {}
                                   /\ ph > up => todo'[ph] = OE!Iterations(ph)
      BY <1>2, <1>3, <1>4, <2>2, <3>1, <3>2 DEF InPhase
    <3>5. ASSUME NEW u \in Workers
          PROVE  /\ phase'[u] = up \/ (phase'[u] = up - 1 /\ sort_pc'[u] = "barrier")
                 /\ sort_pc'[u] = "done" <=> phase'[u] = len
                 /\ ~(phase'[u] = up /\ sort_pc'[u] = "barrier")
      <4>1. CASE u = t BY <1>5, <1>10, <2>3, <4>1, <1>3
      <4>2. CASE u # t BY <1>5, <2>1, <2>2, <2>3, <4>2
      <4> QED BY <4>1, <4>2
    <3> QED BY <1>3, <1>6, <2>3, <3>3, <3>4, <3>5 DEF InPhase
  <2>5. Moved(f, len, up)
    <3>1. \A q \in Left(len, cur) : f[q] <= f[q + 1]
      <4> SUFFICES ASSUME NEW q \in Left(len, cur) PROVE f[q] <= f[q + 1] OBVIOUS
      <4>1. PICK k \in OE!Iterations(cur) : OE!Lower(cur, k) = q BY <1>3, EveryPair
      <4> QED BY <1>2, <1>3, <2>1, <2>2, <4>1 DEF Progress
    <3>2. f \in Arr(len) BY <1>3 DEF Arr
    <3>3. Moved(f, len, cur) BY <1>2, <1>3 DEF Progress
    <3> QED BY <1>3, <2>3, <3>1, <3>2, <3>3, PhaseMoves
  <2>6. up < len => todo[up] = OE!Iterations(up)
    BY <1>2, <1>3, <2>3 DEF InPhase
  <2>7. Progress(up, f)'
    <3>1. \A u \in Workers : sort_pc'[u] # "first" BY <1>5, <2>1
    <3>2. \A v \in OE!Values : Occurs(f, v) = Occurs(input, v) BY <1>2 DEF Progress
    <3> QED BY <1>3, <1>4, <1>6, <2>5, <2>6, <3>1, <3>2 DEF Progress
  <2>8. Logical(up, f)' BY <1>8 DEF Logical
  <2> QED BY <1>7, <2>4, <2>7, <2>8 DEF SortInv, SortView
<1> QED BY <1>9, <1>10

(* The programs of the other families do not touch the array. *)
LEMMA SortInvIdle == ASSUME SortInv, UNCHANGED sortVars PROVE SortInv'
<1>1. PICK len, cur, f : SortView(len, cur, f) BY DEF SortInv
<1>2. SortTypes(len) /\ InPhase(cur) /\ Logical(cur, f) /\ Progress(cur, f)
  BY <1>1 DEF SortView
<1>3. UNCHANGED <<input, a, phase, todo, i, temp, sort_pc>> BY DEF sortVars
<1>4. /\ OE!Indexes' = OE!Indexes /\ OE!n' = OE!n /\ OE!Values' = OE!Values
      /\ \A ph : OE!Iterations(ph)' = OE!Iterations(ph)
      /\ \A h, v : Occurs(h, v)' = Occurs(h, v)
      /\ \A v : Occurs(input, v)' = Occurs(input, v)
  BY <1>3, SameShape
<1>5. SortTypes(len)' BY <1>2, <1>3, <1>4 DEF SortTypes
<1>6. InPhase(cur)' BY <1>2, <1>3, <1>4 DEF InPhase, Busy
<1>7. Logical(cur, f)' BY <1>2, <1>3, <1>4 DEF Logical
<1>8. Progress(cur, f)' BY <1>2, <1>3, <1>4 DEF Progress
<1> QED BY <1>5, <1>6, <1>7, <1>8 DEF SortInv, SortView

LEMMA SortInvStep == ASSUME SortInv, [Next]_vars PROVE SortInv'
<1>1. ASSUME OE!Next PROVE SortInv'
  <2>1. ASSUME NEW t \in Workers, OE!ThreadStep(t) PROVE SortInv'
    BY <2>1, TestStep, FirstWriteStep, SecondWriteStep, ArriveStep, NextPhaseStep
       DEF OE!ThreadStep
  <2>2. CASE UNCHANGED OE!vars BY <2>2, SortInvIdle DEF OE!vars, sortVars
  <2> QED BY <1>1, <2>1, <2>2 DEF OE!Next, OE!Printed
<1>2. CASE UNCHANGED vars BY <1>2, SortInvIdle DEF vars
<1>3. CASE Next
  BY <1>1, <1>3, SortInvIdle DEF Next, ShareStep, SortStep, KernelStep, MatrixStep
<1> QED BY <1>2, <1>3

--------------------------------------------------------------------------------

(* Of the threads between their two writes, each overwrites one place: what      *)
(* Occurrences counts is what is in the array once they have.                    *)
LEMMA OccurrencesAre ==
    ASSUME NEW len, NEW cur, NEW f, SortView(len, cur, f), NEW v
    PROVE  OE!Occurrences(v) = Occurs(f, v)
<1> DEFINE half == {t \in Workers : sort_pc[t] = "second"}
           I == 0 .. len - 1
           open == {k \in I : \E t \in half : i[t] = k}
           kept == {k \in I \ open : a[k] = v}
           old == {k \in open : a[k] = v}
           new == {k \in open : f[k] = v}
           readers == {t \in half : a[i[t]] = v}
           writers == {t \in half : temp[t] = v}
<1>1. /\ len \in Nat \ {0} /\ OE!Indexes = I
      /\ i \in [Workers -> I]
      /\ \A k \in I \ open : a[k] = f[k]
      /\ \A t \in half : temp[t] = f[i[t]]
      /\ \A t, u \in half : i[t] = i[u] => t = u
  BY DEF SortView, SortTypes, InPhase, Logical, Busy
<1>2. /\ {k \in I : a[k] = v} = kept \cup old /\ kept \cap old = {}
      /\ {k \in I : f[k] = v} = kept \cup new /\ kept \cap new = {}
  BY <1>1
<1>3. IsFiniteSet(I)
  <2>1. 0 \in Int /\ len - 1 \in Int BY <1>1
  <2> QED BY <2>1, FS_Interval
<1>4. IsFiniteSet(kept) /\ IsFiniteSet(old) /\ IsFiniteSet(new) BY <1>3, FS_Subset
<1>5. /\ IsFiniteSet(readers) /\ Cardinality(readers) = Cardinality(old)
      /\ IsFiniteSet(writers) /\ Cardinality(writers) = Cardinality(new)
  <2> DEFINE r == [k \in old |-> CHOOSE t \in half : i[t] = k]
             w == [k \in new |-> CHOOSE t \in half : i[t] = k]
  <2>1. \A k \in open : LET t == CHOOSE t \in half : i[t] = k IN t \in half /\ i[t] = k
    OBVIOUS
  <2>2. r \in Bijection(old, readers)
    <3>1. \A k \in old : r[k] \in readers /\ i[r[k]] = k BY <2>1
    <3>2. \A t \in readers : i[t] \in old /\ r[i[t]] = t BY <1>1, <2>1
    <3> HIDE DEF old, readers
    <3>3. r \in [old -> readers] BY <3>1
    <3> HIDE DEF r
    <3> QED BY <3>1, <3>2, <3>3 DEF Bijection, Injection, Surjection, IsInjective
  <2>3. w \in Bijection(new, writers)
    <3>1. \A k \in new : w[k] \in writers /\ i[w[k]] = k BY <1>1, <2>1
    <3>2. \A t \in writers : i[t] \in new /\ w[i[t]] = t BY <1>1, <2>1
    <3> HIDE DEF new, writers
    <3>3. w \in [new -> writers] BY <3>1
    <3> HIDE DEF w
    <3> QED BY <3>1, <3>2, <3>3 DEF Bijection, Injection, Surjection, IsInjective
  <2> HIDE DEF r, w, old, new, readers, writers
  <2>4. ExistsBijection(old, readers) /\ ExistsBijection(new, writers)
    BY <2>2, <2>3 DEF ExistsBijection
  <2> QED BY <1>4, <2>4, FS_Bijection
<1> HIDE DEF kept, old, new
<1>6. /\ Cardinality(kept \cup old) = Cardinality(kept) + Cardinality(old)
      /\ Cardinality(kept \cup new) = Cardinality(kept) + Cardinality(new)
      /\ Cardinality(kept) \in Nat /\ Cardinality(old) \in Nat /\ Cardinality(new) \in Nat
  BY <1>2, <1>4, PartsAddUp
<1>7. Occurs(f, v) = Cardinality(kept) + Cardinality(new)
  BY <1>1, <1>2, <1>6 DEF Occurs
<1>8. OE!Occurrences(v)
          = Cardinality({k \in I : a[k] = v}) + Cardinality(writers) - Cardinality(readers)
  BY <1>1 DEF OE!Occurrences, OE!Cardinality, Cardinality
<1>9. PICK x \in Nat, y \in Nat, z \in Nat :
          x = Cardinality(kept) /\ y = Cardinality(old) /\ z = Cardinality(new)
  BY <1>6
<1>10. /\ Cardinality({k \in I : a[k] = v}) = x + y /\ Occurs(f, v) = x + z
       /\ Cardinality(writers) = z /\ Cardinality(readers) = y
  BY <1>2, <1>5, <1>6, <1>7, <1>9
<1>11. x + y + z - y = x + z OBVIOUS
<1> HIDE DEF readers, writers
<1> QED BY <1>8, <1>10, <1>11

(* When all threads are done the array is sorted. *)
LEMMA SortInvSorted == SortInv => Sorted
<1> SUFFICES ASSUME NEW len, NEW cur, NEW f, SortView(len, cur, f) PROVE OE!Sorted
  BY DEF SortInv, Sorted
<1>1. /\ len \in Nat \ {0} /\ OE!Indexes = 0 .. len - 1 /\ OE!n = len
      /\ f \in [0 .. len - 1 -> OE!Values] /\ OE!Values \subseteq Int
  BY DEF SortView, SortTypes, Logical
<1>2. ASSUME NEW v \in OE!Values
      PROVE  OE!Occurrences(v) = OE!Cardinality({k \in OE!Indexes : input[k] = v})
  <2>1. OE!Occurrences(v) = Occurs(f, v) BY OccurrencesAre
  <2>2. Occurs(f, v) = Occurs(input, v) BY DEF SortView, Progress
  <2> QED BY <2>1, <2>2 DEF Occurs, OE!Cardinality, Cardinality
<1>3. ASSUME OE!AllDone, NEW k \in OE!Indexes \ {0} PROVE a[k - 1] <= a[k]
  <2>1. PICK t \in Workers : sort_pc[t] = "done" BY <1>3, BoundsAssumption DEF OE!AllDone
  <2>2. phase[t] = len /\ cur = len BY <1>1, <2>1 DEF SortView, InPhase
  <2>3. \A x \in 0 .. len - 1 : a[x] = f[x]
    BY <1>1, <1>3 DEF OE!AllDone, SortView, Logical
  <2>4. Moved(f, len, len) BY <1>1, <2>2 DEF SortView, Progress
  <2>5. PICK q \in 0 .. len - 2 : q = k - 1 /\ q + 1 = k BY <1>1
  <2>6. f \in Arr(len) BY <1>1 DEF Arr
  <2>7. f[q] <= f[q + 1] BY <1>1, <2>4, <2>6, MovedIsSorted
  <2>8. a[q] = f[q] /\ a[q + 1] = f[q + 1] BY <1>1, <2>3
  <2> QED BY <2>5, <2>7, <2>8
<1> QED BY <1>2, <1>3 DEF OE!Sorted

(* Whatever the number of threads, the order of their reads and writes and the   *)
(* integers in the array, no element is lost or doubled, and n phases leave the  *)
(* array sorted (sort_sol2.c:15-44).                                             *)
THEOREM AlwaysSorted == Spec => []Sorted
<1>1. Init => SortInv BY SortInvInit DEF Init
<1>2. SortInv /\ [Next]_vars => SortInv' BY SortInvStep
<1> QED BY <1>1, <1>2, SortInvSorted, PTL DEF Spec

--------------------------------------------------------------------------------
(* Kernels. *)

(* A set of numbers has a least one, and if it is bounded a greatest one. *)
LEMMA LeastOf ==
    ASSUME NEW S \in SUBSET Nat, S # {}
    PROVE  \E x \in S : \A y \in S : x <= y
<1>1. PICK R : R = OpToRel(<, Nat) /\ IsWellFoundedOn(R, Nat) BY NatLessThanWellFounded
<1>2. PICK x \in S : \A y \in S : ~(<<y, x>> \in R) BY <1>1, WFMin
<1>3. \A y \in S : x <= y
  <2> TAKE y \in S
  <2>1. y \in Nat /\ x \in Nat OBVIOUS
  <2>2. y < x => <<y, x>> \in R BY <1>1, <2>1 DEF OpToRel
  <2> QED BY <1>2, <2>1, <2>2
<1> QED BY <1>3

LEMMA GreatestOf ==
    ASSUME NEW S \in SUBSET Nat, S # {}, NEW bound \in Nat, \A y \in S : y <= bound
    PROVE  \E x \in S : \A y \in S : y <= x
<1> DEFINE T == {bound - y : y \in S}
<1>1. T \in SUBSET Nat /\ T # {}
  <2>1. \A y \in S : bound - y \in Nat OBVIOUS
  <2> QED BY <2>1
<1> HIDE DEF T
<1>2. PICK z \in T : \A y \in T : z <= y BY <1>1, LeastOf
<1>3. PICK x \in S : z = bound - x BY <1>2 DEF T
<1>4. \A y \in S : y <= x
  <2> TAKE y \in S
  <2>1. bound - y \in T BY DEF T
  <2>2. bound - x <= bound - y BY <1>2, <1>3, <2>1
  <2> QED BY <2>2
<1> QED BY <1>4

(* The square root exists, and it is not 0. *)
LEMMA SquareRoot ==
    ASSUME NEW m \in Nat \ {0} PROVE KN!isqrt(m) \in Nat \ {0} /\ KN!isqrt(m) <= m
<1> DEFINE S == {s \in Nat : m < (s + 1) * (s + 1)}
<1>1. m \in S
  <2>1. (m + 1) * (m + 1) = m * m + m + m + 1 /\ m * m \in Nat OBVIOUS
  <2> QED BY <2>1
<1>2. S \in SUBSET Nat /\ S # {} BY <1>1
<1>3. PICK s \in S : \A y \in S : s <= y BY <1>2, LeastOf
<1>4. s \in 0 .. m BY <1>1, <1>3
<1>5. s * s <= m
  <2>1. CASE s = 0 BY <2>1
  <2>2. CASE s # 0
    <3>1. PICK r \in Nat : s = r + 1 BY <1>4, <2>2
    <3>2. r \notin S BY <1>3, <3>1
    <3> QED BY <3>1, <3>2
  <2> QED BY <2>1, <2>2
<1>6. KN!isqrt(m) \in 0 .. m /\ m < (KN!isqrt(m) + 1) * (KN!isqrt(m) + 1)
  BY <1>3, <1>4, <1>5 DEF KN!isqrt
<1>7. KN!isqrt(m) # 0 BY <1>6
<1> QED BY <1>6, <1>7

(* As many blocks as hold all the work, and a single one if that is enough. *)
LEMMA Blocks ==
    ASSUME NEW w \in Nat \ {0}, NEW b \in Nat \ {0}
    PROVE  LET nb == (w + b - 1) \div b IN
           /\ nb \in Nat \ {0} /\ w <= nb * b /\ nb * b <= w + b - 1
           /\ w <= b => nb = 1
<1>1. w + b - 1 \in Nat OBVIOUS
<1>2. PICK nb \in Nat, r \in 0 .. b - 1 :
          nb = (w + b - 1) \div b /\ w + b - 1 = nb * b + r
  BY <1>1, Divided
<1>3. nb * b \in Nat OBVIOUS
<1>4. w <= nb * b BY <1>2, <1>3
<1>5. nb # 0 BY <1>4
<1>6. ASSUME w <= b, nb # 1 PROVE FALSE
  <2>1. 1 < nb BY <1>5, <1>6
  <2>2. 1 * b + b <= nb * b BY <2>1, RowEnds
  <2> QED BY <1>2, <1>3, <1>6, <2>2
<1> QED BY <1>2, <1>3, <1>4, <1>5, <1>6

(* The larger the sides, the larger the rectangle. *)
LEMMA ProductGrows ==
    ASSUME NEW x \in Nat, NEW y \in Nat, NEW w \in Nat, x <= y
    PROVE  x * w <= y * w /\ x * w \in Nat /\ y * w \in Nat /\ w * x = x * w
<1>1. x * w \in Nat /\ y * w \in Nat /\ w * x = x * w OBVIOUS
<1>2. CASE x = y BY <1>1, <1>2
<1>3. CASE x < y
  <2>1. x * w + w <= y * w BY <1>3, RowEnds
  <2> QED BY <1>1, <2>1
<1> QED BY <1>2, <1>3

LEMMA SmallerSquare ==
    ASSUME NEW x \in Nat, NEW y \in Nat
    PROVE  /\ x <= y => x * x <= y * y
           /\ x > y => x * x > y * y
<1>1. x * x \in Nat /\ y * y \in Nat /\ x * y \in Nat OBVIOUS
<1>2. CASE x <= y BY <1>1, <1>2, ProductGrows
<1>3. CASE x > y
  <2>1. y * y + y <= x * y BY <1>3, RowEnds
  <2>2. y * x + x <= x * x BY <1>3, RowEnds
  <2>3. y * x = x * y OBVIOUS
  <2> QED BY <1>1, <1>3, <2>1, <2>2, <2>3
<1> QED BY <1>2, <1>3

--------------------------------------------------------------------------------

KernelInv ==
    /\ kernel \in KN!Kernels /\ N \in 1 .. MaxWork
    /\ KN!Work <= MaxWork /\ element \in KN!Before .. KN!Work
    /\ launched \in BOOLEAN
    /\ ~launched => computed = {} /\ result = KN!NoThread
    /\ launched => /\ computed = KN!ComputedBy
                   /\ IF KN!ComputedBy = {} THEN result = KN!NoThread
                      ELSE \E t \in KN!ComputedBy : result = KN!Stored(t)

LEMMA KernelInvInit == KN!Init => KernelInv
BY DEF KN!Init, KernelInv

LEMMA KernelInvIdle == ASSUME KernelInv, UNCHANGED kernelVars PROVE KernelInv'
<1>1. UNCHANGED <<kernel, N, element, launched, computed, result>> BY DEF kernelVars
<1>2. KN!Work' = KN!Work BY <1>1 DEF KN!Work
<1>3. KN!ComputedBy' = KN!ComputedBy
  BY <1>1, <1>2
     DEF KN!ComputedBy, KN!Rows, KN!Columns, KN!num_blocks, KN!BlockSide, KN!InBounds,
         KN!Place, KN!idx, KN!wrapped
<1>4. \A t : KN!Stored(t)' = KN!Stored(t) BY <1>1 DEF KN!Stored
<1> QED BY <1>1, <1>2, <1>3, <1>4 DEF KernelInv

LEMMA LaunchStep == ASSUME KernelInv, KN!Launch PROVE KernelInv'
<1>1. /\ launched' = TRUE /\ computed' = KN!ComputedBy
      /\ result' \in IF KN!ComputedBy = {} THEN {KN!NoThread}
                     ELSE {KN!Stored(t) : t \in KN!ComputedBy}
      /\ UNCHANGED <<kernel, N, element>>
  BY DEF KN!Launch
<1>2. KN!Work' = KN!Work BY <1>1 DEF KN!Work
<1>3. KN!ComputedBy' = KN!ComputedBy
  BY <1>1, <1>2
     DEF KN!ComputedBy, KN!Rows, KN!Columns, KN!num_blocks, KN!BlockSide, KN!InBounds,
         KN!Place, KN!idx, KN!wrapped
<1>4. \A t : KN!Stored(t)' = KN!Stored(t) BY <1>1 DEF KN!Stored
<1> QED BY <1>1, <1>2, <1>3, <1>4 DEF KernelInv

LEMMA KernelInvStep == ASSUME KernelInv, [Next]_vars PROVE KernelInv'
<1>1. ASSUME KN!Next PROVE KernelInv'
  <2>1. CASE KN!Launch BY <2>1, LaunchStep
  <2>2. CASE UNCHANGED KN!vars BY <2>2, KernelInvIdle DEF KN!vars, kernelVars
  <2> QED BY <1>1, <2>1, <2>2 DEF KN!Next, KN!Copied
<1>2. CASE UNCHANGED vars BY <1>2, KernelInvIdle DEF vars
<1>3. CASE Next
  BY <1>1, <1>3, KernelInvIdle DEF Next, ShareStep, SortStep, KernelStep, MatrixStep
<1> QED BY <1>2, <1>3

(* The grid: it is not empty, its sizes fit in an int, it has a column and a row  *)
(* for every column of a matrix, no more if one block is enough, and more if it  *)
(* is not.                                                                       *)
LEMMA GridIs ==
    ASSUME KernelInv
    PROVE  /\ N \in Nat \ {0} /\ KN!Work \in Nat \ {0} /\ element \in -1 .. KN!Work
           /\ KN!Work = IF kernel = "compute_pi" THEN N ELSE N * N
           /\ KN!Rows \in Nat \ {0} /\ KN!Columns \in Nat \ {0}
           /\ kernel # "compute_pi" => /\ KN!Rows = KN!Columns /\ N <= KN!Columns
                                       /\ N <= Side => KN!Columns = N
                                       /\ N > Side => N < KN!Columns
           /\ IntMax \in Nat /\ KN!Work <= IntMax /\ N <= IntMax /\ KN!Columns <= IntMax
<1>1. N \in Nat \ {0} /\ Side \in Nat \ {0} /\ IntMax \in Nat /\ MaxWork \in Nat
      /\ MaxWork + Side * Side - 1 <= IntMax
  BY BoundsAssumption DEF KernelInv
<1>2. KN!Work = IF kernel = "compute_pi" THEN N ELSE N * N BY DEF KN!Work
<1>3. PICK w \in Nat \ {0}, b \in Nat \ {0} : w = KN!Work /\ b = Side * Side
  <2>1. N * N \in Nat \ {0} /\ Side * Side \in Nat \ {0} BY <1>1
  <2> QED BY <1>1, <1>2, <2>1
<1>4. PICK nb \in Nat \ {0} : /\ nb = KN!num_blocks /\ w <= nb * b
                              /\ w <= b => nb = 1
                              /\ nb * b <= w + b - 1
  BY <1>3, Blocks DEF KN!num_blocks
<1>5. PICK s \in Nat \ {0} : /\ s = KN!BlockSide
                             /\ s = IF w > b THEN Side
                                    ELSE IF kernel = "compute_pi" THEN KN!isqrt(N) ELSE N
  BY <1>1, <1>3, SquareRoot DEF KN!BlockSide
<1>6. PICK c \in Nat \ {0} : c = KN!Columns /\ c = nb * s
  <2>1. nb * s \in Nat \ {0} OBVIOUS
  <2> QED BY <1>4, <1>5, <2>1 DEF KN!Columns
<1>7. KN!Rows \in Nat \ {0} BY <1>5, <1>6 DEF KN!Rows
<1>8. ASSUME kernel # "compute_pi"
      PROVE  /\ KN!Rows = KN!Columns /\ N <= KN!Columns
             /\ N <= Side => KN!Columns = N
             /\ N > Side => N < KN!Columns
  <2>1. w = N * N BY <1>2, <1>3, <1>8
  <2>2. CASE N <= Side
    <3>1. w <= b BY <1>1, <1>3, <2>1, <2>2, SmallerSquare
    <3>2. nb = 1 /\ s = N BY <1>3, <1>4, <1>5, <1>8, <3>1
    <3> QED BY <1>1, <1>6, <1>8, <2>2, <3>2 DEF KN!Rows
  <2>3. CASE N > Side
    <3>1. w > b BY <1>1, <1>3, <2>1, <2>3, SmallerSquare
    <3>2. s = Side BY <1>3, <1>5, <3>1
    <3>3. ASSUME c <= N PROVE FALSE
      <4>1. c * s <= N * s BY <1>1, <3>3, ProductGrows
      <4>2. s * N + N <= N * N BY <1>1, <2>3, <3>2, RowEnds
      <4>3. c * s = nb * b
        <5>1. (nb * s) * s = nb * (s * s) OBVIOUS
        <5> QED BY <1>3, <1>6, <3>2, <5>1
      <4>4. N * s = s * N /\ N * s \in Nat /\ c * s \in Nat /\ N * N \in Nat BY <1>1
      <4> QED BY <1>1, <1>3, <1>4, <2>1, <4>1, <4>2, <4>3, <4>4
    <3> QED BY <1>1, <1>6, <1>8, <2>3, <3>3 DEF KN!Rows
  <2> QED BY <1>1, <2>2, <2>3
<1>9. w <= IntMax /\ N <= IntMax
  <2>1. w <= MaxWork /\ N <= MaxWork BY <1>1, <1>3 DEF KernelInv
  <2> QED BY <1>1, <1>3, <2>1
<1>10. c <= IntMax
  <2>1. CASE w > b
    <3>1. s = Side BY <1>5, <2>1
    <3>2. nb * b = c * s
      <4>1. (nb * s) * s = nb * (s * s) OBVIOUS
      <4> QED BY <1>3, <1>6, <3>1, <4>1
    <3>3. 1 * c <= s * c /\ s * c = c * s /\ 1 * c = c /\ c * s \in Nat
      BY ProductGrows
    <3>4. w <= MaxWork BY <1>3 DEF KernelInv
    <3> QED BY <1>1, <1>3, <1>4, <3>2, <3>3, <3>4
  <2>2. CASE w <= b
    <3>1. c = s /\ s <= N
      <4>1. KN!isqrt(N) <= N BY <1>1, SquareRoot
      <4> QED BY <1>1, <1>4, <1>5, <1>6, <2>2, <4>1
    <3> QED BY <1>1, <1>9, <3>1
  <2> QED BY <2>1, <2>2
<1> QED BY <1>1, <1>2, <1>3, <1>6, <1>7, <1>8, <1>9, <1>10 DEF KernelInv, KN!Before

--------------------------------------------------------------------------------
(* An int holds what is not larger than IntMax, and of twice that what is larger *)
(* becomes negative.                                                             *)
LEMMA WrappedIs ==
    ASSUME NEW x \in Nat, IntMax \in Nat
    PROVE  /\ KN!wrapped(x) \in Int
           /\ x <= IntMax => KN!wrapped(x) = x
           /\ IntMax < x /\ x <= 2 * IntMax + 1 => KN!wrapped(x) < 0
<1>1. PICK w \in Nat \ {0}, d \in Nat \ {0} :
          w = IntMax + 1 /\ d = 2 * (IntMax + 1) /\ d = w + w
  <2>1. IntMax + 1 \in Nat \ {0} /\ 2 * (IntMax + 1) \in Nat \ {0}
        /\ 2 * (IntMax + 1) = (IntMax + 1) + (IntMax + 1)
    OBVIOUS
  <2> QED BY <2>1
<1>2. KN!wrapped(x) = ((x + w) % d) - w
  <2>1. x + IntMax + 1 = x + w BY <1>1
  <2> QED BY <1>1, <2>1 DEF KN!wrapped
<1>3. PICK q \in Nat, y \in 0 .. d - 1 : y = (x + w) % d /\ x + w = q * d + y
  <2>1. x + w \in Nat OBVIOUS
  <2> QED BY <2>1, Divided
<1>4. q * d \in Nat /\ (q = 0 => q * d = 0) /\ (q = 1 => q * d = d) OBVIOUS
<1>5. q >= 1 => q * d >= d
  <2>1. q >= 1 => 1 * d <= q * d BY ProductGrows
  <2> QED BY <2>1
<1>6. q >= 2 => q * d >= d + d
  <2>1. q >= 2 => 1 * d + d <= q * d BY RowEnds
  <2> QED BY <2>1
<1>7. x <= IntMax => q = 0 /\ y = x + w BY <1>1, <1>3, <1>4, <1>5
<1>8. IntMax < x /\ x <= 2 * IntMax + 1 => y = x - w /\ y < w
  <2> SUFFICES ASSUME IntMax < x, x <= 2 * IntMax + 1 PROVE y = x - w /\ y < w
    OBVIOUS
  <2>1. d <= x + w /\ x + w < d + w /\ w < d BY <1>1
  <2>2. q = 1 BY <1>3, <1>4, <1>6, <2>1
  <2> QED BY <1>1, <1>3, <1>4, <2>1, <2>2
<1> QED BY <1>1, <1>2, <1>3, <1>7, <1>8

LEMMA ComputedByIs ==
    ASSUME NEW t
    PROVE  t \in KN!ComputedBy <=>
               /\ t \in (0 .. KN!Rows - 1) \X (0 .. KN!Columns - 1)
               /\ KN!idx(t) < KN!Work
               /\ element = IF KN!idx(t) < 0 THEN -1 ELSE KN!idx(t)
BY DEF KN!ComputedBy, KN!InBounds, KN!Place, KN!Before

(* The index of a thread of the grid. *)
LEMMA ThreadIs ==
    ASSUME KernelInv, NEW x \in 0 .. KN!Rows - 1, NEW y \in 0 .. KN!Columns - 1
    PROVE  /\ <<x, y>> \in (0 .. KN!Rows - 1) \X (0 .. KN!Columns - 1)
           /\ x * N + y \in Nat /\ x * N + y <= KN!Largest /\ KN!Largest \in Nat
           /\ KN!idx(<<x, y>>) \in Int
           /\ x * N + y <= IntMax => KN!idx(<<x, y>>) = x * N + y
           /\ IntMax < x * N + y /\ x * N + y <= 2 * IntMax + 1 => KN!idx(<<x, y>>) < 0
<1>1. PICK h \in Nat, c \in Nat \ {0} : KN!Rows = h + 1 /\ KN!Columns = c
  <2>1. KN!Rows \in Nat \ {0} /\ KN!Columns \in Nat \ {0} BY GridIs
  <2>2. KN!Rows - 1 \in Nat /\ KN!Rows = (KN!Rows - 1) + 1 BY <2>1
  <2> QED BY <2>1, <2>2
<1>2. N \in Nat /\ x \in Nat /\ y \in Nat /\ x <= h /\ y <= c - 1 /\ IntMax \in Nat
  BY <1>1, GridIs
<1>3. x * N <= h * N /\ x * N \in Nat /\ h * N \in Nat BY <1>2, ProductGrows
<1>4. KN!Largest = h * N + c - 1
  <2>1. (h + 1) - 1 = h OBVIOUS
  <2> QED BY <1>1, <2>1 DEF KN!Largest
<1>5. PICK d \in Nat : d = x * N + y BY <1>2, <1>3
<1>6. KN!idx(<<x, y>>) = KN!wrapped(d) BY <1>5 DEF KN!idx
<1>7. /\ KN!wrapped(d) \in Int
      /\ d <= IntMax => KN!wrapped(d) = d
      /\ IntMax < d /\ d <= 2 * IntMax + 1 => KN!wrapped(d) < 0
  BY <1>2, WrappedIs
<1> QED BY <1>1, <1>2, <1>3, <1>4, <1>5, <1>6, <1>7

LEMMA KernelTypes == KernelInv => KN!TypeOK
<1> SUFFICES ASSUME KernelInv PROVE KN!TypeOK OBVIOUS
<1>1. /\ N \in Nat \ {0} /\ KN!Rows \in Nat /\ KN!Columns \in Nat /\ element \in Int
  BY GridIs
<1>2. KN!ComputedBy \subseteq Nat \X Nat BY <1>1 DEF KN!ComputedBy
<1>3. element \div N \in Int /\ element % N \in Int BY <1>1
<1>4. \A t \in KN!ComputedBy : KN!Stored(t) \in Int \X Int
  BY <1>2, <1>3 DEF KN!Stored
<1>5. computed \subseteq Nat \X Nat BY <1>2 DEF KernelInv
<1>6. result \in Int \X Int BY <1>4 DEF KernelInv, KN!NoThread
<1> QED BY <1>5, <1>6 DEF KernelInv, KN!TypeOK

(* The element's own thread computes it. *)
LEMMA OwnThread ==
    ASSUME KernelInv, kernel # "compute_pi", element \in 0 .. KN!Work - 1
    PROVE  /\ KN!Own \in KN!ComputedBy
           /\ element \div N \in 0 .. N - 1 /\ element % N \in 0 .. N - 1
           /\ (element \div N) * N + (element % N) = element
<1>1. /\ N \in Nat \ {0} /\ element \in Nat /\ element < N * N /\ KN!Work = N * N
      /\ KN!Rows = KN!Columns /\ KN!Columns \in Nat /\ N <= KN!Columns
      /\ IntMax \in Nat /\ KN!Work <= IntMax
  BY GridIs
<1>2. PICK x \in Nat, y \in 0 .. N - 1 :
          x = element \div N /\ y = element % N /\ element = x * N + y
  BY <1>1, Divided
<1>3. x < N
  <2>1. CASE x >= N
    <3>1. N * N <= x * N /\ N * N \in Nat /\ x * N \in Nat BY <1>1, <2>1, ProductGrows
    <3> QED BY <1>1, <1>2, <3>1
  <2> QED BY <1>1, <2>1
<1>4. x \in 0 .. KN!Rows - 1 /\ y \in 0 .. KN!Columns - 1 BY <1>1, <1>2, <1>3
<1>5. element <= IntMax /\ ~(element < 0)
  <2>1. N * N \in Nat BY <1>1
  <2> QED BY <1>1, <2>1
<1>6. KN!idx(<<x, y>>) = element BY <1>2, <1>4, <1>5, ThreadIs
<1>7. PICK t : t = <<x, y>> OBVIOUS
<1>8. t \in KN!ComputedBy
  <2>1. t \in (0 .. KN!Rows - 1) \X (0 .. KN!Columns - 1) BY <1>4, <1>7
  <2>2. KN!idx(t) = element /\ element < KN!Work BY <1>1, <1>6, <1>7
  <2> QED BY <1>5, <2>1, <2>2, ComputedByIs
<1> QED BY <1>1, <1>2, <1>3, <1>7, <1>8 DEF KN!Own

(* One block, and no other thread does. *)
LEMMA OwnThreadOnly ==
    ASSUME KernelInv, kernel # "compute_pi", element \in 0 .. KN!Work - 1, N <= Side,
           NEW t \in KN!ComputedBy
    PROVE  t = KN!Own /\ KN!ReadsInside(t)
<1>1. /\ N \in Nat \ {0} /\ KN!Columns = N /\ KN!Rows = N /\ KN!Work = N * N
      /\ IntMax \in Nat /\ KN!Work <= IntMax /\ N * N \in Nat
  <2>1. N \in Nat => N * N \in Nat OBVIOUS
  <2> QED BY <2>1, GridIs
<1>2. PICK x \in 0 .. N - 1, y \in 0 .. N - 1 :
          t = <<x, y>> /\ x * N + y = element
  <2>1. PICK x \in 0 .. N - 1, y \in 0 .. N - 1 : t = <<x, y>>
    <3>1. t \in (0 .. N - 1) \X (0 .. N - 1) BY <1>1, ComputedByIs
    <3> QED BY <3>1
  <2>2. x \in 0 .. KN!Rows - 1 /\ y \in 0 .. KN!Columns - 1 BY <1>1
  <2>3. x * N + y < N * N
    <3>1. x \in Nat /\ y \in Nat /\ x < N /\ y < N BY <1>1
    <3>2. x * N + N <= N * N BY <1>1, <3>1, RowEnds
    <3>3. x * N \in Nat BY <1>1, <3>1
    <3> QED BY <1>1, <3>1, <3>2, <3>3
  <2>4. PICK d \in Nat : d = x * N + y BY <2>2, ThreadIs
  <2>5. KN!idx(t) = d
    <3>1. d <= IntMax BY <1>1, <2>3, <2>4
    <3> QED BY <2>1, <2>2, <2>4, <3>1, ThreadIs
  <2>6. element = d
    <3>1. element = IF KN!idx(t) < 0 THEN -1 ELSE KN!idx(t) BY ComputedByIs
    <3>2. ~(d < 0) OBVIOUS
    <3> QED BY <2>5, <3>1, <3>2
  <2> QED BY <2>1, <2>4, <2>6
<1>3. PICK u \in 0 .. N - 1, v \in 0 .. N - 1 :
          u = element \div N /\ v = element % N /\ u * N + v = element
  BY OwnThread
<1>4. x = u /\ y = v
  <2>1. x \in Nat /\ u \in Nat /\ x * N + y = u * N + v BY <1>1, <1>2, <1>3
  <2> QED BY <1>1, <2>1, OneRowAndColumn
<1>5. x < N /\ (N - 1) * N + y < N * N
  <2>1. (N - 1) * N = N * N - N /\ N * N \in Nat BY <1>1
  <2> QED BY <1>1, <1>2, <2>1
<1> QED BY <1>1, <1>2, <1>3, <1>4, <1>5 DEF KN!Own, KN!ReadsInside

(* More than one block: the thread right of the end of the first row computes    *)
(* the first element of the second one, of a column that does not exist.         *)
LEMMA ReadsOutside ==
    ASSUME KernelInv, kernel # "compute_pi", N > Side, element = N
    PROVE  \E t \in KN!ComputedBy : ~KN!ReadsInside(t)
<1>1. /\ N \in Nat \ {0} /\ KN!Columns \in Nat /\ N < KN!Columns /\ KN!Work = N * N
      /\ KN!Rows \in Nat \ {0} /\ IntMax \in Nat /\ N <= IntMax /\ 1 < N
  <2>1. Side \in Nat \ {0} BY BoundsAssumption
  <2> QED BY <2>1, GridIs
<1>2. 0 \in 0 .. KN!Rows - 1 /\ N \in 0 .. KN!Columns - 1 BY <1>1
<1>3. 0 * N + N = N BY <1>1
<1>4. PICK x : x = 0 OBVIOUS
<1>5. KN!idx(<<x, N>>) = N
  <2>1. x \in 0 .. KN!Rows - 1 /\ x * N + N = N BY <1>2, <1>3, <1>4
  <2> QED BY <1>1, <1>2, <2>1, ThreadIs
<1>6. PICK t : t = <<x, N>> OBVIOUS
<1>7. N < N * N /\ N * N \in Nat
  <2>1. 1 * N + N <= N * N BY <1>1, RowEnds
  <2> QED BY <1>1, <2>1
<1>8. t \in KN!ComputedBy
  <2>1. t \in (0 .. KN!Rows - 1) \X (0 .. KN!Columns - 1) BY <1>2, <1>4, <1>6
  <2>2. KN!idx(t) = N /\ ~(N < 0) /\ N < KN!Work BY <1>1, <1>5, <1>6, <1>7
  <2> QED BY <2>1, <2>2, ComputedByIs
<1>9. ~KN!ReadsInside(t)
  <2>1. t[2] = N BY <1>6
  <2>2. (N - 1) * N + N = N * N BY <1>1
  <2>3. ~((N - 1) * N + t[2] < KN!Work) BY <1>1, <1>7, <2>1, <2>2
  <2> QED BY <2>3 DEF KN!ReadsInside
<1> QED BY <1>8, <1>9

(* compute_pi: a thread of a row other than the first is past the last term. *)
LEMMA FirstRowOnly ==
    ASSUME KernelInv, kernel = "compute_pi", element \in 0 .. KN!Work - 1,
           KN!Largest <= IntMax
    PROVE  KN!ComputedBy = IF element < KN!Columns THEN {<<0, element>>} ELSE {}
<1>1. /\ N \in Nat \ {0} /\ element \in Nat /\ KN!Work = N
      /\ KN!Rows \in Nat \ {0} /\ KN!Columns \in Nat
      /\ IntMax \in Nat /\ N <= IntMax /\ element < N
  BY GridIs
<1>2. ASSUME NEW t \in KN!ComputedBy PROVE t = <<0, element>> /\ element < KN!Columns
  <2>1. PICK x \in 0 .. KN!Rows - 1, y \in 0 .. KN!Columns - 1 : t = <<x, y>>
    <3>1. t \in (0 .. KN!Rows - 1) \X (0 .. KN!Columns - 1) BY ComputedByIs
    <3> QED BY <3>1
  <2>2. PICK d \in Nat : d = x * N + y BY <2>1, ThreadIs
  <2>3. KN!idx(t) = d
    <3>1. d <= KN!Largest /\ KN!Largest \in Nat BY <2>2, ThreadIs
    <3>2. d <= IntMax BY <1>1, <3>1
    <3> QED BY <2>1, <2>2, <3>2, ThreadIs
  <2>4. element = d /\ d < N
    <3>1. KN!idx(t) < KN!Work /\ element = IF KN!idx(t) < 0 THEN -1 ELSE KN!idx(t)
      BY ComputedByIs
    <3>2. ~(d < 0) OBVIOUS
    <3> QED BY <1>1, <2>3, <3>1, <3>2
  <2>5. x = 0
    <3>1. CASE x >= 1
      <4>1. 1 * N <= x * N /\ x * N \in Nat BY <1>1, <2>1, <3>1, ProductGrows
      <4> QED BY <1>1, <2>1, <2>2, <2>4, <4>1
    <3> QED BY <1>1, <2>1, <3>1
  <2>6. 0 * N + y = y BY <1>1
  <2> QED BY <1>1, <2>1, <2>2, <2>4, <2>5, <2>6
<1>3. ASSUME element < KN!Columns PROVE <<0, element>> \in KN!ComputedBy
  <2>1. 0 \in 0 .. KN!Rows - 1 /\ element \in 0 .. KN!Columns - 1 BY <1>1, <1>3
  <2>2. PICK x : x = 0 OBVIOUS
  <2>3. KN!idx(<<x, element>>) = element
    <3>1. x * N + element = element /\ element <= IntMax BY <1>1, <2>2
    <3> QED BY <2>1, <2>2, <3>1, ThreadIs
  <2>4. PICK t : t = <<x, element>> OBVIOUS
  <2>5. t \in (0 .. KN!Rows - 1) \X (0 .. KN!Columns - 1) BY <2>1, <2>2, <2>4
  <2>6. KN!idx(t) = element /\ ~(element < 0) /\ element < KN!Work BY <1>1, <2>3, <2>4
  <2>7. t \in KN!ComputedBy BY <2>5, <2>6, ComputedByIs
  <2> QED BY <2>2, <2>4, <2>7
<1> QED BY <1>2, <1>3

(* Only an index that overflows is negative, and if the largest overflows so     *)
(* does one by less than a row, or than all of the last row.                     *)
LEMMA OverflowOnly ==
    ASSUME KernelInv, element = -1
    PROVE  KN!ComputedBy = {} <=> KN!Largest <= IntMax
<1>1. /\ N \in Nat \ {0} /\ KN!Rows \in Nat \ {0} /\ KN!Columns \in Nat \ {0}
      /\ IntMax \in Nat /\ N <= IntMax /\ KN!Columns <= IntMax /\ KN!Work \in Nat
  BY GridIs
<1>2. ASSUME KN!Largest <= IntMax, NEW t \in KN!ComputedBy PROVE FALSE
  <2>1. PICK x \in 0 .. KN!Rows - 1, y \in 0 .. KN!Columns - 1 : t = <<x, y>>
    <3>1. t \in (0 .. KN!Rows - 1) \X (0 .. KN!Columns - 1) BY ComputedByIs
    <3> QED BY <3>1
  <2>2. PICK d \in Nat : d = x * N + y BY <2>1, ThreadIs
  <2>3. d <= KN!Largest /\ KN!Largest \in Nat BY <2>2, ThreadIs
  <2>4. d <= IntMax BY <1>1, <1>2, <2>3
  <2>5. KN!idx(t) = d BY <2>1, <2>2, <2>4, ThreadIs
  <2>6. element = IF KN!idx(t) < 0 THEN -1 ELSE KN!idx(t) BY ComputedByIs
  <2> QED BY <2>5, <2>6
<1>3. ASSUME ~(KN!Largest <= IntMax) PROVE KN!ComputedBy # {}
  <2>1. PICK q \in Nat, z \in 0 .. N - 1 : IntMax = q * N + z
    BY <1>1, Divided
  <2>2. PICK h \in Nat : KN!Rows = h + 1 /\ KN!Rows - 1 = h
    <3>1. KN!Rows - 1 \in Nat /\ KN!Rows = (KN!Rows - 1) + 1 BY <1>1
    <3> QED BY <3>1
  <2>3. PICK c \in Nat : KN!Columns = c + 1 /\ KN!Columns - 1 = c
    <3>1. KN!Columns - 1 \in Nat /\ KN!Columns = (KN!Columns - 1) + 1 BY <1>1
    <3> QED BY <3>1
  <2>4. h * N \in Nat /\ q * N \in Nat /\ (q + 1) * N = q * N + N BY <1>1
  <2>5. KN!Largest = h * N + c
    <3>1. h * N + (c + 1) - 1 = h * N + c BY <2>4
    <3> QED BY <2>2, <2>3, <3>1 DEF KN!Largest
  <2>6. \E x \in 0 .. h, y \in 0 .. c : IntMax < x * N + y /\ x * N + y <= 2 * IntMax + 1
    <3>1. CASE h <= q
      <4>1. h * N <= q * N BY <1>1, <3>1, ProductGrows
      <4>2. IntMax < h * N + c BY <1>1, <1>3, <2>4, <2>5
      <4>3. h * N + c <= 2 * IntMax + 1 BY <1>1, <2>1, <2>3, <2>4, <4>1
      <4> QED BY <4>2, <4>3
    <3>2. CASE h > q
      <4>1. IntMax < (q + 1) * N + 0 /\ (q + 1) * N + 0 <= 2 * IntMax + 1
        BY <1>1, <2>1, <2>4
      <4>2. q + 1 \in 0 .. h /\ 0 \in 0 .. c BY <3>2
      <4> QED BY <4>1, <4>2
    <3> QED BY <3>1, <3>2
  <2>7. PICK x \in 0 .. h, y \in 0 .. c :
            IntMax < x * N + y /\ x * N + y <= 2 * IntMax + 1
    BY <2>6
  <2>8. x \in 0 .. KN!Rows - 1 /\ y \in 0 .. KN!Columns - 1 BY <2>2, <2>3
  <2>9. KN!idx(<<x, y>>) < 0 /\ KN!idx(<<x, y>>) \in Int BY <2>7, <2>8, ThreadIs
  <2>10. PICK t : t = <<x, y>> OBVIOUS
  <2>11. t \in (0 .. KN!Rows - 1) \X (0 .. KN!Columns - 1) BY <2>8, <2>10
  <2>12. KN!idx(t) < 0 /\ KN!idx(t) < KN!Work BY <1>1, <2>9, <2>10
  <2>13. t \in KN!ComputedBy BY <2>11, <2>12, ComputedByIs
  <2> QED BY <2>13
<1> QED BY <1>2, <1>3

LEMMA KernelInvExact == KernelInv => KN!EachElementOnce
<1> SUFFICES ASSUME KernelInv, launched PROVE KN!EachElementOnce
  BY DEF KN!EachElementOnce
<1>1. /\ computed = KN!ComputedBy
      /\ IF KN!ComputedBy = {} THEN result = KN!NoThread
         ELSE \E t \in KN!ComputedBy : result = KN!Stored(t)
  BY DEF KernelInv
<1>2. element = KN!Work => computed = {}
  <2> SUFFICES ASSUME element = KN!Work, NEW t \in KN!ComputedBy PROVE FALSE
    BY <1>1
  <2>1. PICK w \in Nat : w = KN!Work BY GridIs
  <2>2. KN!idx(t) < w /\ w = IF KN!idx(t) < 0 THEN -1 ELSE KN!idx(t)
    BY <2>1, ComputedByIs
  <2>3. w # -1 /\ ~(w < w) BY <2>1
  <2> QED BY <2>2, <2>3
<1>3. element = KN!Before => (computed = {} <=> KN!Largest <= IntMax)
  BY <1>1, OverflowOnly DEF KN!Before
<1>4. element \in 0 .. KN!Work - 1 /\ kernel = "compute_pi" /\ KN!Largest <= IntMax
          => KN!Cardinality(computed) = IF element < KN!Columns THEN 1 ELSE 0
  <2>1. Cardinality({<<0, element>>}) = 1 /\ Cardinality({}) = 0
    BY FS_Singleton, FS_EmptySet
  <2>2. \A S : KN!Cardinality(S) = Cardinality(S) BY DEF KN!Cardinality, Cardinality
  <2> QED BY <1>1, <2>1, <2>2, FirstRowOnly
<1>5. element \in 0 .. KN!Work - 1 /\ kernel = "populate_matrix" => result = KN!Own
  BY <1>1, OwnThread DEF KN!Stored, KN!Own
<1>6. element \in 0 .. KN!Work - 1 /\ kernel = "MatrixMulKernel"
          => /\ KN!Own \in computed
             /\ N <= Side => result = KN!Own /\ \A t \in computed : KN!ReadsInside(t)
             /\ N > Side /\ element = N => \E t \in computed : ~KN!ReadsInside(t)
  BY <1>1, OwnThread, OwnThreadOnly, ReadsOutside DEF KN!Stored
<1> QED BY <1>2, <1>3, <1>4, <1>5, <1>6 DEF KN!EachElementOnce

(* What the CUDA programs do to each element, to the place after the last one    *)
(* and to those before the first is what EachElementOnce says, for every N, every *)
(* side of a block and every width of int: the thread of its own row and column  *)
(* computes each element of a product, alone and with reads inside the matrices  *)
(* in one block, and not in more; places before the first element are written    *)
(* just when an index overflows.                                                 *)
THEOREM KernelsExact == Spec => [](KN!TypeOK /\ KN!EachElementOnce)
<1>1. Init => KernelInv BY KernelInvInit DEF Init
<1>2. KernelInv /\ [Next]_vars => KernelInv' BY KernelInvStep
<1>3. KernelInv => KN!TypeOK /\ KN!EachElementOnce BY KernelTypes, KernelInvExact
<1> QED BY <1>1, <1>2, <1>3, PTL DEF Spec

--------------------------------------------------------------------------------
(* Matrices: the types. *)

(* What the types need and the product does not. *)
MatrixSizes ==
    /\ dim \in 1 .. MaxSide /\ thread_count \in 1 .. MaxThreads
    /\ \A t \in MP!Threads : rows_done[t] <= 2 * lr
    /\ product = "vector" => IsMatrix(matrix2, dim, dim)

LEMMA MatrixSizesInit == MP!Init => MatrixSizes
<1> SUFFICES ASSUME MP!Init PROVE MatrixSizes OBVIOUS
<1>1. MatrixTypes BY MatrixInvInit DEF MatrixInv
<1>2. lr \in Nat /\ dim \in Nat BY <1>1, SharesFit DEF MatrixTypes
<1>3. IsMatrix(matrix2, dim, dim) BY <1>2, UnwrittenCells DEF MP!Init
<1> QED BY <1>2, <1>3 DEF MP!Init, MatrixSizes

LEMMA MatrixSizesIdle ==
    ASSUME MatrixSizes, UNCHANGED <<product, dim, thread_count, rows_done, matrix2>>
    PROVE  MatrixSizes'
BY DEF MatrixSizes, MP!Threads, lr, MP!local_rows, IsMatrix, IsArray

(* A thread that works has rows left, of the number its phase has. *)
LEMMA OneMoreDone ==
    ASSUME MatrixInv, MatrixSizes, NEW t \in MP!Threads, NEW f, MP!Working(t, f),
           rows_done' = [rows_done EXCEPT ![t] = @ + 1], UNCHANGED <<dim, thread_count>>
    PROVE  \A u \in MP!Threads' : rows_done'[u] <= 2 * lr'
<1>1. MP!Threads' = MP!Threads /\ lr' = lr BY DEF MP!Threads, lr, MP!local_rows
<1>2. PICK s \in Nat : s = lr BY SharesFit DEF MatrixInv
<1>3. rows_done \in [MP!Threads -> Nat] BY DEF MatrixInv, MatrixTypes
<1>4. rows_done[t] < 2 * s
  BY <1>2, <1>3 DEF MP!Working, MP!RowsIn, lr
<1> QED BY <1>1, <1>2, <1>3, <1>4 DEF MatrixSizes

LEMMA MatrixSizesStep == ASSUME MatrixInv, MatrixSizes, [Next]_vars PROVE MatrixSizes'
<1>1. ASSUME MP!Next PROVE MatrixSizes'
  <2>1. ASSUME NEW t \in MP!Threads, MP!PopulateRow(t) PROVE MatrixSizes'
    <3>1. /\ MP!Working(t, "populate")
          /\ rows_done' = [rows_done EXCEPT ![t] = @ + 1]
          /\ UNCHANGED <<product, dim, thread_count>>
      BY <2>1 DEF MP!PopulateRow
    <3>2. product # "vector" BY <3>1 DEF MP!Working, MatrixInv, Inputs
    <3>3. \A u \in MP!Threads' : rows_done'[u] <= 2 * lr' BY <3>1, OneMoreDone
    <3> QED BY <3>1, <3>2, <3>3 DEF MatrixSizes
  <2>2. ASSUME NEW t \in MP!Threads, MP!MultiplyRow(t) PROVE MatrixSizes'
    <3>1. /\ MP!Working(t, "multiply")
          /\ rows_done' = [rows_done EXCEPT ![t] = @ + 1]
          /\ UNCHANGED <<product, dim, thread_count, matrix2>>
      BY <2>2 DEF MP!MultiplyRow
    <3>2. \A u \in MP!Threads' : rows_done'[u] <= 2 * lr' BY <3>1, OneMoreDone
    <3> QED BY <3>1, <3>2 DEF MatrixSizes, IsMatrix, IsArray
  <2>3. CASE MP!Transpose
    <3>1. /\ rows_done' = [t \in MP!Threads |-> 0]
          /\ UNCHANGED <<product, dim, thread_count, matrix2>>
      BY <2>3 DEF MP!Transpose
    <3>2. MP!Threads' = MP!Threads /\ lr' = lr
      BY <3>1 DEF MP!Threads, lr, MP!local_rows
    <3>3. lr \in Nat BY SharesFit DEF MatrixInv
    <3>4. \A u \in MP!Threads' : rows_done'[u] <= 2 * lr' BY <3>1, <3>2, <3>3
    <3> QED BY <3>1, <3>4 DEF MatrixSizes, IsMatrix, IsArray
  <2>4. CASE MP!JoinPopulate BY <2>4, MatrixSizesIdle DEF MP!JoinPopulate
  <2>5. CASE MP!JoinMultiply BY <2>5, MatrixSizesIdle DEF MP!JoinMultiply
  <2>6. CASE UNCHANGED MP!vars BY <2>6, MatrixSizesIdle DEF MP!vars
  <2> QED BY <1>1, <2>1, <2>2, <2>3, <2>4, <2>5, <2>6
          DEF MP!Next, MP!ThreadStep, MP!MainStep
<1>2. CASE UNCHANGED matrixVars BY <1>2, MatrixSizesIdle DEF matrixVars
<1>3. CASE UNCHANGED vars BY <1>2, <1>3 DEF vars
<1>4. CASE Next
  BY <1>1, <1>2, <1>4 DEF Next, ShareStep, SortStep, KernelStep, MatrixStep
<1> QED BY <1>3, <1>4

LEMMA ArrayLength ==
    ASSUME NEW len \in Nat, NEW arr, IsArray(arr, len) PROVE Len(arr) = len
<1> DEFINE S == {arr[c] : c \in 1 .. len}
<1>1. arr \in [1 .. len -> S] BY DEF IsArray
<1>2. arr \in Seq(S) BY <1>1, SeqDef
<1>3. DOMAIN arr = 1 .. len BY <1>1
<1> HIDE DEF S
<1>4. DOMAIN arr = 1 .. Len(arr) /\ Len(arr) \in Nat BY <1>2, LenProperties
<1> QED BY <1>3, <1>4

LEMMA MatrixTypesOK == MatrixInv /\ MatrixSizes => MP!TypeOK
<1> SUFFICES ASSUME MatrixInv, MatrixSizes PROVE MP!TypeOK OBVIOUS
<1>1. MatrixTypes /\ Inputs /\ Results BY DEF MatrixInv
<1>2. PICK s \in Nat : s = lr BY <1>1, SharesFit
<1>3. rows_done \in [MP!Threads -> 0 .. 2 * MP!local_rows]
  <2>1. \A t \in MP!Threads : rows_done[t] \in 0 .. 2 * s
    BY <1>1, <1>2 DEF MatrixTypes, MatrixSizes
  <2> QED BY <1>1, <1>2, <2>1 DEF MatrixTypes, lr
<1>4. PICK len \in Nat, wide \in Nat : len = dim * dim /\ wide = dim * MP!Columns
  BY <1>1, SharesFit
<1>5. IsArray(matrix1, len) /\ IsArray(matrix2, len)
  <2>1. CASE product = "vector" BY <1>1, <1>4, <2>1 DEF Inputs, MatrixSizes, IsMatrix
  <2>2. CASE product # "vector" BY <1>1, <1>4, <2>2 DEF Inputs, Filled, IsMatrix
  <2> QED BY <2>1, <2>2
<1>6. IsArray(matrix3, wide)
  BY <1>1, <1>4 DEF Results, Multiplied, IsMatrix, MatrixTypes, MP!Phases
<1>7. Len(matrix1) = dim * dim /\ Len(matrix2) = dim * dim
      /\ Len(matrix3) = dim * MP!Columns
  BY <1>4, <1>5, <1>6, ArrayLength
<1> QED BY <1>1, <1>3, <1>7 DEF MP!TypeOK, MatrixTypes, MatrixSizes

--------------------------------------------------------------------------------
(* Shares: sums over a set of ranks. *)

(* A sum of weights of at most two is a number of tokens, g[x] of them for each  *)
(* x of the set.                                                                 *)
Tokens(g, S) == {x \in S \X (0 .. 1) : x[2] < g[x[1]]}
SumOf(g, S) == Cardinality(Tokens(g, S))

LEMMA TokensFinite ==
    ASSUME NEW T, IsFiniteSet(T), NEW g, NEW S \in SUBSET T
    PROVE  IsFiniteSet(Tokens(g, S)) /\ SumOf(g, S) \in Nat
<1>1. S \subseteq T /\ IsFiniteSet(T) OBVIOUS
<1>6. IsFiniteSet(S) BY <1>1, FS_Subset
<1>2. IsFiniteSet(0 .. 1)
  <2>1. 0 \in Int /\ 1 \in Int OBVIOUS
  <2> QED BY <2>1, FS_Interval
<1>3. IsFiniteSet(S \X (0 .. 1)) BY <1>2, <1>6, FS_Product
<1>4. Tokens(g, S) \subseteq S \X (0 .. 1) BY DEF Tokens
<1>5. IsFiniteSet(Tokens(g, S)) BY <1>3, <1>4, FS_Subset
<1> QED BY <1>5, FS_CardinalityType DEF SumOf

LEMMA SumOfNone == ASSUME NEW g PROVE SumOf(g, {}) = 0
<1>1. Tokens(g, {}) = {} BY DEF Tokens
<1> QED BY <1>1, FS_EmptySet DEF SumOf

(* One more to add. *)
LEMMA SumOfOneMore ==
    ASSUME NEW T, IsFiniteSet(T), NEW g, NEW S \in SUBSET T, NEW x \in T \ S,
           g[x] \in 0 .. 2
    PROVE  SumOf(g, S \cup {x}) = SumOf(g, S) + g[x]
<1> DEFINE own == {x} \X (0 .. g[x] - 1)
<1>1. IsFiniteSet({x}) /\ Cardinality({x}) = 1 BY FS_Singleton
<1>2. IsFiniteSet(0 .. g[x] - 1) /\ Cardinality(0 .. g[x] - 1) = g[x]
  <2>1. PICK m \in 0 .. 2 : m = g[x] OBVIOUS
  <2>2. 0 \in Int /\ m - 1 \in Int OBVIOUS
  <2>3. IsFiniteSet(0 .. m - 1)
        /\ Cardinality(0 .. m - 1) = IF 0 > m - 1 THEN 0 ELSE (m - 1) - 0 + 1
    BY <2>2, FS_Interval
  <2> QED BY <2>1, <2>3
<1>3. IsFiniteSet(own) /\ Cardinality(own) = g[x]
  <2>1. /\ IsFiniteSet(own)
        /\ Cardinality(own) = Cardinality({x}) * Cardinality(0 .. g[x] - 1)
    BY <1>1, <1>2, FS_Product
  <2> QED BY <1>1, <1>2, <2>1
<1>4. Tokens(g, S \cup {x}) = Tokens(g, S) \cup own
  <2>1. \A j \in 0 .. 1 : j < g[x] <=> j \in 0 .. g[x] - 1 OBVIOUS
  <2>2. 0 .. g[x] - 1 \subseteq 0 .. 1 OBVIOUS
  <2> QED BY <2>1, <2>2 DEF Tokens
<1>5. Tokens(g, S) \cap own = {} BY DEF Tokens
<1>6. IsFiniteSet(Tokens(g, S)) BY TokensFinite
<1> HIDE DEF own
<1>7. Cardinality(Tokens(g, S) \cup own) = Cardinality(Tokens(g, S)) + Cardinality(own)
  BY <1>3, <1>5, <1>6, PartsAddUp
<1> QED BY <1>3, <1>4, <1>7 DEF SumOf

LEMMA SumOfFewer ==
    ASSUME NEW T, IsFiniteSet(T), NEW g, NEW S \in SUBSET T
    PROVE  SumOf(g, S) <= SumOf(g, T)
<1>1. Tokens(g, S) \subseteq Tokens(g, T) BY DEF Tokens
<1>2. IsFiniteSet(Tokens(g, T)) BY TokensFinite
<1> QED BY <1>1, <1>2, FS_Subset DEF SumOf

(* A set of subsets of a finite set has a minimal member. *)
LEMMA MinimalSubset ==
    ASSUME NEW T, IsFiniteSet(T), NEW D \in SUBSET SUBSET T, D # {}
    PROVE  \E S \in D : \A R \in D : R \subseteq S => R = S
<1>1. D \subseteq FiniteSubsetsOf(T)
  BY FS_Subset DEF FiniteSubsetsOf
<1>2. PICK S \in D : \A R \in D : ~(<<R, S>> \in StrictSubsetOrdering(T))
  BY <1>1, FS_StrictSubsetOrderingWellFounded, WFMin
<1> QED
  BY <1>2 DEF StrictSubsetOrdering

(* What MapThenSumSet says of itself, which only the sums do. *)
Adds(f, g, T) ==
    f = [s \in SUBSET T |->
            IF s = {} THEN 0
            ELSE g[CHOOSE x \in s : TRUE] + f[s \ {CHOOSE x \in s : TRUE}]]

LEMMA SumsAdd ==
    ASSUME NEW T, IsFiniteSet(T), NEW g \in [T -> 0 .. 2]
    PROVE  Adds([s \in SUBSET T |-> SumOf(g, s)], g, T)
<1> DEFINE f == [s \in SUBSET T |-> SumOf(g, s)]
<1>1. ASSUME NEW s \in SUBSET T, s # {}
      PROVE  f[s] = g[CHOOSE x \in s : TRUE] + f[s \ {CHOOSE x \in s : TRUE}]
  <2>1. PICK y : y = CHOOSE x \in s : TRUE OBVIOUS
  <2>0. y \in s BY <1>1, <2>1
  <2>9. PICK r : r = s \ {y} OBVIOUS
  <2>2. r = s \ {y} /\ r \in SUBSET T /\ y \in T \ r /\ r \cup {y} = s BY <2>0, <2>9
  <2>3. SumOf(g, r \cup {y}) = SumOf(g, r) + g[y] BY <2>2, SumOfOneMore
  <2>4. SumOf(g, r) \in Nat /\ g[y] \in 0 .. 2 BY <2>2, TokensFinite
  <2>6. f[s] = SumOf(g, s) /\ f[r] = SumOf(g, r) BY <2>2
  <2>7. SumOf(g, s) = SumOf(g, r) + g[y] BY <2>2, <2>3
  <2>8. PICK e, d \in Int : e = SumOf(g, r) /\ d = g[y] BY <2>4
  <2>5. f[s] = g[y] + f[r]
    <3> HIDE DEF f
    <3> QED BY <2>6, <2>7, <2>8
  <2> QED BY <2>1, <2>2, <2>5
<1> QED BY <1>1, SumOfNone DEF Adds

LEMMA SumsUnique ==
    ASSUME NEW T, IsFiniteSet(T), NEW g, NEW f, NEW h, Adds(f, g, T), Adds(h, g, T)
    PROVE  f = h
<1> DEFINE D == {s \in SUBSET T : f[s] # h[s]}
<1>1. D = {}
  <2> SUFFICES ASSUME D # {} PROVE FALSE
    OBVIOUS
  <2>1. PICK S \in D : \A R \in D : R \subseteq S => R = S
    <3>1. D \in SUBSET SUBSET T
      OBVIOUS
    <3> HIDE DEF D
    <3> QED
      BY <3>1, MinimalSubset
  <2>2. PICK y : y = CHOOSE x \in S : TRUE
    OBVIOUS
  <2>3. S # {} => y \in S /\ S \ {y} \in SUBSET T /\ S \ {y} \notin D
    BY <2>1, <2>2
  <2>4. /\ f[S] = IF S = {} THEN 0 ELSE g[y] + f[S \ {y}]
        /\ h[S] = IF S = {} THEN 0 ELSE g[y] + h[S \ {y}]
    BY <2>2 DEF Adds
  <2> QED
    BY <2>3, <2>4
<1> QED
  BY <1>1 DEF Adds

--------------------------------------------------------------------------------
(* Shares: the programs and their divisions of the work. *)

(* What is known of the program that runs, and of its sizes. *)
ShareKinds ==
    /\ program.how \in {"lock", "turn", "receive", "reduce", "loop"}
    /\ program.how = "loop" <=> program.share = "any"
    /\ program.how = "loop" => program.adds \in {"terms", "trapezoids"}
    /\ program = SH!parallel_for <=> program.how = "loop" /\ program.adds = "trapezoids"
    /\ program = SH!pi_reduction <=> program.how = "loop" /\ program.adds = "terms"
    /\ program.share \in {"any", "even", "last_takes_rest", "last_asked_takes_rest",
                         "one_more", "one_each"}
    /\ program.share = "last_asked_takes_rest" <=> program = SH!task2_omp
    /\ program.share = "last_asked_takes_rest" => program.how = "lock"
    /\ program = SH!collective => program.how = "reduce" /\ program.adds = "ends"
    /\ program.adds \in {"terms", "trapezoids", "ends"}
    /\ program.adds = "ends" => program.share = "even"
    /\ program.adds = "trapezoids" => program.share \in {"any", "even", "one_more"}

LEMMA ProgramKinds == ASSUME program \in SH!Programs PROVE ShareKinds
<1> DEFINE Kind(share, adds, how) ==
               program.share = share /\ program.adds = adds /\ program.how = how
<1>1. \/ Kind("even", "terms", "turn") \/ Kind("even", "terms", "lock")
      \/ Kind("even", "trapezoids", "lock") \/ Kind("last_takes_rest", "terms", "lock")
      \/ Kind("last_takes_rest", "terms", "reduce")
      \/ Kind("last_asked_takes_rest", "terms", "lock") /\ program = SH!task2_omp
      \/ Kind("one_more", "trapezoids", "receive") \/ Kind("even", "ends", "receive")
      \/ Kind("even", "ends", "reduce") \/ Kind("even", "terms", "reduce")
      \/ Kind("one_each", "terms", "receive")
      \/ Kind("any", "terms", "loop") /\ program = SH!pi_reduction
      \/ Kind("any", "trapezoids", "loop") /\ program = SH!parallel_for
  <2>1. CASE program = SH!pi_busy_waiting
    BY <2>1 DEF SH!pi_busy_waiting
  <2>2. CASE program = SH!pi_mutex_lock
    BY <2>2 DEF SH!pi_mutex_lock
  <2>3. CASE program = SH!monte_carlo
    BY <2>3 DEF SH!monte_carlo
  <2>4. CASE program = SH!trapezoid_omp
    BY <2>4 DEF SH!trapezoid_omp
  <2>5. CASE program = SH!task2_pthreads
    BY <2>5 DEF SH!task2_pthreads
  <2>6. CASE program = SH!task2_omp
    BY <2>6 DEF SH!task2_omp
  <2>7. CASE program = SH!task2_mpi
    BY <2>7 DEF SH!task2_mpi
  <2>8. CASE program = SH!exercise_q_2
    BY <2>8 DEF SH!exercise_q_2
  <2>9. CASE program = SH!mpi_trapezoid
    BY <2>9 DEF SH!mpi_trapezoid
  <2>10. CASE program = SH!collective
    BY <2>10 DEF SH!collective
  <2>11. CASE program = SH!sum_elements
    BY <2>11 DEF SH!sum_elements
  <2>12. CASE program = SH!global_max
    BY <2>12 DEF SH!global_max
  <2>13. CASE program = SH!greetings
    BY <2>13 DEF SH!greetings
  <2>14. CASE program = SH!pi_reduction
    BY <2>14 DEF SH!pi_reduction
  <2>15. CASE program = SH!parallel_for
    BY <2>15 DEF SH!parallel_for
  <2> QED
    BY <2>1, <2>2, <2>3, <2>4, <2>5, <2>6, <2>7, <2>8,
       <2>9, <2>10, <2>11, <2>12, <2>13, <2>14, <2>15 DEF SH!Programs
<1>2. /\ SH!parallel_for.how = "loop" /\ SH!parallel_for.adds = "trapezoids"
      /\ SH!pi_reduction.how = "loop" /\ SH!pi_reduction.adds = "terms"
      /\ SH!collective.how = "reduce" /\ SH!collective.adds = "ends"
      /\ SH!task2_omp.share = "last_asked_takes_rest"
  BY DEF SH!pi_reduction, SH!parallel_for, SH!collective, SH!task2_omp
<1> QED
  BY <1>1, <1>2 DEF ShareKinds

ShareSizes ==
    /\ n \in 0 .. MaxTerms /\ p \in 1 .. MaxRanks /\ share_team \in 1 .. p
    /\ program # SH!task2_omp => share_team = p
    /\ program.share = "one_each" => n = p
    /\ program.adds # "terms" => n > 0

LEMMA SizesAre == ASSUME ShareSizes PROVE n \in Nat /\ p \in Nat \ {0}
<1>1. MaxTerms \in Nat /\ MaxRanks \in Nat
  BY BoundsAssumption
<1>2. n \in 0 .. MaxTerms /\ p \in 1 .. MaxRanks
  BY DEF ShareSizes
<1>3. n \in Nat
  BY <1>1, <1>2
<1>4. p \in Int /\ 1 <= p
  BY <1>1, <1>2
<1> QED
  BY <1>3, <1>4

(* The division of n by p. *)
LEMMA Quotient ==
    ASSUME NEW x \in Nat, NEW y \in Nat \ {0}
    PROVE  \E m, q \in Nat : /\ m = x \div y /\ q = x % y /\ x = y * m + q /\ q < y
                             /\ x < y => m = 0 /\ q = x
                             /\ x >= y => m > 0
<1>1. PICK m, q \in Nat : m = x \div y /\ q = x % y /\ x = y * m + q /\ q < y
  OBVIOUS
<1>2. m > 0 => y * m >= y
  <2> SUFFICES ASSUME m > 0 PROVE y * m >= y
    OBVIOUS
  <2>1. PICK d \in Nat : m = d + 1
    <3>1. m - 1 \in Nat /\ m = (m - 1) + 1 OBVIOUS
    <3> QED BY <3>1
  <2>2. y * m = y * d + y /\ y * d \in Nat BY <2>1
  <2> QED BY <2>2
<1>3. m = 0 => y * m = 0 OBVIOUS
<1>4. y * m \in Nat OBVIOUS
<1>5. x < y => m = 0 /\ q = x
  BY <1>1, <1>2, <1>3, <1>4
<1>6. x >= y => m > 0
  BY <1>1, <1>3, <1>4
<1> QED
  BY <1>1, <1>5, <1>6

(* Where the share of rank r starts, which is where that of the rank before it   *)
(* ends.                                                                         *)
Bound(r) ==
    CASE program.share = "one_more" -> r * SH!my_n + IF r < n % p THEN r ELSE n % p
      [] program.share \in {"last_takes_rest", "last_asked_takes_rest"} ->
            IF r = p THEN n ELSE SH!my_n * r
      [] OTHER -> SH!my_n * r

LEMMA ShareBounds ==
    ASSUME ShareKinds, ShareSizes, program.how # "loop", NEW j \in 0 .. p - 1
    PROVE  /\ Bound(j) \in Nat /\ Bound(j + 1) \in Nat /\ Bound(j) <= Bound(j + 1)
           /\ SH!Share(j) = [first |-> Bound(j), last |-> Bound(j + 1)]
           /\ program.share = "even" => Bound(j) = SH!my_n * j
                                        /\ Bound(j + 1) = SH!my_n * j + SH!my_n
           /\ program.share = "one_more" /\ n < p =>
                 /\ Bound(j) = IF j < n THEN j ELSE n
                 /\ Bound(j + 1) = IF j < n THEN j + 1 ELSE n
           /\ program.share \in {"even", "one_more"} /\ n >= p => Bound(j) < Bound(j + 1)
<1>1. n \in Nat /\ p \in Nat \ {0} /\ j \in Nat /\ j < p
  <2>1. p \in Nat /\ n \in Nat /\ p # 0 BY SizesAre
  <2> QED BY <2>1
<1>2. PICK m, q \in Nat : /\ m = n \div p /\ q = n % p /\ n = p * m + q /\ q < p
                          /\ n < p => m = 0 /\ q = n
                          /\ n >= p => m > 0
  BY <1>1, Quotient
<1>3. PICK x \in Nat : /\ x = m * j /\ x = j * m
                       /\ m * (j + 1) = x + m /\ (j + 1) * m = x + m
                       /\ m = 0 => x = 0
                       /\ j = p - 1 => n = x + m + q
  <2>0. m \in Nat /\ j \in Nat BY <1>1, <1>2
  <2>1. m * j \in Nat /\ m * j = j * m BY <2>0
  <2>2. m * (j + 1) = m * j + m /\ (j + 1) * m = m * j + m BY <2>0
  <2>3. m = 0 => m * j = 0 BY <1>1
  <2>4. j = p - 1 => n = m * j + m + q
    <3>1. j = p - 1 => p = j + 1 BY <1>1
    <3>2. p * m = m * p BY <1>1, <1>2
    <3> QED BY <1>2, <2>2, <3>1, <3>2
  <2> QED BY <2>1, <2>2, <2>3, <2>4
<1>4. SH!my_n = m
  BY <1>2 DEF SH!my_n
<1>9. q < p /\ (n < p => m = 0 /\ q = n) /\ (n >= p => m > 0) /\ m \in Nat /\ q \in Nat
      /\ x \in Nat /\ (m = 0 => x = 0) /\ (j = p - 1 => n = x + m + q)
  BY <1>2, <1>3
<1>5. CASE program.share = "one_more"
  <2>1. Bound(j) = x + IF j < q THEN j ELSE q
    BY <1>2, <1>3, <1>4, <1>5 DEF Bound
  <2>2. Bound(j + 1) = x + m + IF j + 1 < q THEN j + 1 ELSE q
    BY <1>2, <1>3, <1>4, <1>5 DEF Bound
  <2>3. SH!Share(j) =
            [first |-> x + (IF j < q THEN j ELSE q),
             last  |-> x + (IF j < q THEN j ELSE q) + m + IF j < q THEN 1 ELSE 0]
    BY <1>2, <1>3, <1>4, <1>5 DEF SH!Share, SH!OneMore
  <2>4. PICK y \in Nat : y = IF j < q THEN j ELSE q
    <3>1. (IF j < q THEN j ELSE q) \in Nat BY <1>1, <1>9
    <3> QED BY <3>1
  <2>5. PICK z \in 0 .. 1 : z = IF j < q THEN 1 ELSE 0
    <3>1. (IF j < q THEN 1 ELSE 0) \in 0 .. 1 OBVIOUS
    <3> QED BY <3>1
  <2>6. Bound(j) = x + y /\ Bound(j + 1) = x + y + m + z
    BY <1>1, <1>9, <2>1, <2>2, <2>4, <2>5
  <2>7. SH!Share(j) = [first |-> Bound(j), last |-> Bound(j + 1)]
    BY <2>3, <2>4, <2>5, <2>6
  <2>8. n < p => Bound(j) = y /\ Bound(j + 1) = y + z
    BY <1>9, <2>4, <2>5, <2>6
  <2>9. /\ Bound(j) \in Nat /\ Bound(j + 1) \in Nat /\ Bound(j) <= Bound(j + 1)
        /\ n >= p => Bound(j) < Bound(j + 1)
    BY <1>1, <1>9, <2>6
  <2>10. n < p => /\ Bound(j) = IF j < n THEN j ELSE n
                  /\ Bound(j + 1) = IF j < n THEN j + 1 ELSE n
    BY <1>1, <1>9, <2>4, <2>5, <2>8
  <2> QED
    BY <1>5, <2>7, <2>9, <2>10
<1>6. CASE program.share \in {"last_takes_rest", "last_asked_takes_rest"}
  <2>1. Bound(j) = x
    <3>1. SH!my_n * j = x /\ j # p BY <1>1, <1>3, <1>4
    <3> QED BY <1>6, <3>1 DEF Bound
  <2>2. Bound(j + 1) = IF j = p - 1 THEN n ELSE x + m
    <3>1. j + 1 = p <=> j = p - 1 BY <1>1
    <3> QED BY <1>3, <1>4, <1>6, <3>1 DEF Bound
  <2>3. SH!Share(j) = [first |-> x, last |-> IF j = p - 1 THEN n ELSE x + m]
    BY <1>3, <1>4, <1>6 DEF SH!Share, SH!LastTakesRest
  <2>4. Bound(j + 1) \in Nat /\ Bound(j) <= Bound(j + 1)
    BY <1>1, <1>9, <2>1, <2>2
  <2> QED
    BY <1>6, <1>9, <2>1, <2>2, <2>3, <2>4
<1>7. CASE program.share \in {"even", "one_each"}
  <2>1. Bound(j) = x /\ Bound(j + 1) = x + m
    BY <1>3, <1>4, <1>7 DEF Bound
  <2>2. SH!Share(j) = [first |-> x, last |-> x + m]
    BY <1>3, <1>4, <1>7 DEF SH!Share, SH!Even
  <2>3. SH!my_n * j = x
    BY <1>3, <1>4
  <2>4. x \in Nat /\ x + m \in Nat /\ x <= x + m /\ (n >= p => x < x + m)
    BY <1>1, <1>9
  <2> QED
    BY <1>4, <1>7, <2>1, <2>2, <2>3, <2>4
<1> QED
  <2>1. program.share \in {"even", "last_takes_rest", "last_asked_takes_rest",
                          "one_more", "one_each"}
    BY DEF ShareKinds
  <2> QED
    BY <1>5, <1>6, <1>7, <2>1

(* The first share starts at 0 and that of the last rank that runs ends where the *)
(* shares reach.                                                                 *)
LEMMA ShareEnds ==
    ASSUME ShareKinds, ShareSizes, program.how # "loop"
    PROVE  /\ Bound(0) = 0 /\ Bound(share_team) = SH!reach /\ SH!reach \in Nat
           /\ program.share = "even" /\ n < p => SH!reach = 0 /\ SH!my_n = 0
           /\ program.share = "even" /\ n >= p => SH!reach > 0 /\ SH!my_n \in Nat \ {0}
           /\ program.share = "one_more" => SH!reach = n
<1>1. /\ n \in Nat /\ p \in Nat \ {0} /\ share_team \in 1 .. p
      /\ program.share # "last_asked_takes_rest" => share_team = p /\ ~(share_team < p)
  <2>1. n \in Nat /\ p \in Nat \ {0}
    BY SizesAre
  <2>2. program.share # "last_asked_takes_rest" => share_team = p
    BY DEF ShareSizes, ShareKinds
  <2> QED
    BY <2>1, <2>2 DEF ShareSizes
<1>2. PICK m, q \in Nat : /\ m = n \div p /\ q = n % p /\ n = p * m + q /\ q < p
                          /\ n < p => m = 0 /\ q = n
                          /\ n >= p => m > 0
  BY <1>1, Quotient
<1>3. PICK x \in Nat : /\ x = p * m /\ x = m * p /\ n = x + q
                       /\ m * 0 = 0 /\ 0 * m = 0
                       /\ m = 0 => x = 0
                       /\ m > 0 => x >= p
  <2>1. p * m \in Nat /\ p * m = m * p /\ m * 0 = 0 /\ 0 * m = 0 BY <1>1, <1>2
  <2>2. m = 0 => p * m = 0 BY <1>1
  <2>3. n < p => m = 0 BY <1>2
  <2>4. m > 0 => p * m >= p
    BY <1>1, <1>2, RowEnds
  <2> QED BY <1>2, <2>1, <2>2, <2>4
<1>4. SH!my_n = m
  BY <1>2 DEF SH!my_n
<1>9. q < p /\ (n < p => m = 0 /\ q = n) /\ (n >= p => m > 0) /\ m \in Nat /\ q \in Nat
      /\ x \in Nat /\ (m = 0 => x = 0) /\ (m > 0 => x >= p) /\ n = x + q
  BY <1>2, <1>3
<1>5. CASE program.share = "one_more"
  <2>1. Bound(0) = 0 + IF 0 < q THEN 0 ELSE q
    BY <1>2, <1>3, <1>4, <1>5 DEF Bound
  <2>2. Bound(p) = x + IF p < q THEN p ELSE q
    BY <1>2, <1>3, <1>4, <1>5 DEF Bound
  <2>3. SH!reach = n
    BY <1>1, <1>5 DEF SH!reach
  <2>4. Bound(0) = 0 /\ Bound(p) = n
    BY <1>1, <1>9, <2>1, <2>2
  <2> QED
    BY <1>1, <1>5, <2>3, <2>4
<1>6. CASE program.share \in {"last_takes_rest", "last_asked_takes_rest"}
  <2>1. Bound(0) = 0 /\ Bound(p) = n
    BY <1>1, <1>3, <1>4, <1>6 DEF Bound
  <2>2. CASE share_team = p
    <3>1. SH!reach = n
      BY <1>1, <1>6, <2>2 DEF SH!reach
    <3> QED
      BY <1>1, <1>6, <2>1, <2>2, <3>1
  <2>3. CASE share_team # p
    <3>1. share_team \in Nat /\ share_team < p
      BY <1>1, <2>3
    <3>2. SH!reach = share_team * m /\ Bound(share_team) = m * share_team
      BY <1>4, <1>6, <2>3, <3>1 DEF SH!reach, Bound
    <3>3. share_team * m = m * share_team /\ m * share_team \in Nat
      BY <1>2, <3>1
    <3> QED
      BY <1>6, <2>1, <3>2, <3>3
  <2> QED
    BY <2>2, <2>3
<1>7. CASE program.share = "even"
  <2>1. Bound(0) = 0 /\ Bound(p) = x
    BY <1>3, <1>4, <1>7 DEF Bound
  <2>2. SH!reach = x
    BY <1>1, <1>3, <1>4, <1>7 DEF SH!reach
  <2> QED
    BY <1>1, <1>4, <1>7, <1>9, <2>1, <2>2
<1>8. CASE program.share = "one_each"
  <2>1. Bound(0) = 0 /\ Bound(p) = x
    BY <1>3, <1>4, <1>8 DEF Bound
  <2>2. n = p
    BY <1>8 DEF ShareSizes
  <2>3. x = n
    BY <1>1, <1>9, <2>2
  <2>4. SH!reach = n
    BY <1>1, <1>8 DEF SH!reach
  <2> QED
    BY <1>1, <1>8, <2>1, <2>3, <2>4
<1> QED
  <2>1. program.share \in {"even", "last_takes_rest", "last_asked_takes_rest",
                          "one_more", "one_each"}
    BY DEF ShareKinds
  <2> QED
    BY <1>5, <1>6, <1>7, <1>8, <2>1

--------------------------------------------------------------------------------
(* How often each rank has term k in its sum, or half of f at point k. *)
Weight(k) == [r \in SH!Ranks |-> SH!my_sum(r)[k]]

(* What one thread has of it when it has come from 0 to x. *)
UpTo(k, x) ==
    CASE program.adds = "terms" -> SH!one(k < x)
      [] program.adds = "trapezoids" -> SH!one(k = x) + 2 * SH!one(k < x)
      [] program.adds = "ends" -> SH!one(k = x) + 2 * SH!one(k < x /\ k % SH!my_n = 0)

(* How many of the ranks below j have no interval, and add f twice at k. *)
IdleAt(k, j) ==
    IF program.adds = "terms" \/ n >= p THEN 0
    ELSE IF program.share = "even" THEN IF k = 0 THEN j ELSE 0
    ELSE IF k = n /\ j > n THEN j - n ELSE 0

LEMMA AtMultiples ==
    ASSUME NEW x \in Nat, NEW d \in Nat \ {0}, NEW k \in Nat
    PROVE  /\ (d * x) % d = 0
           /\ k = d * x <=> d * x <= k /\ k < d * x + d /\ k % d = 0
<1>1. d * x \in Nat
  OBVIOUS
<1>2. PICK q, m \in Nat : k = d * q + m /\ m < d /\ m = k % d /\ q = k \div d
  OBVIOUS
<1>3. (d * x) % d = 0
  <2>1. d * x = d * x + 0 OBVIOUS
  <2> QED BY <2>1
<1>4. k = d * x => k % d = 0
  BY <1>3
<1>5. ASSUME d * x <= k, k < d * x + d, k % d = 0 PROVE k = d * x
  <2>1. m = 0 BY <1>2, <1>5
  <2>2. q = x
    <3>1. q < x => q * d + d <= x * d BY RowEnds
    <3>2. x < q => x * d + d <= q * d BY RowEnds
    <3>3. q * d = d * q /\ x * d = d * x /\ d * q \in Nat /\ k = d * q BY <1>2, <2>1
    <3> QED BY <1>1, <1>5, <3>1, <3>2, <3>3
  <2> QED BY <1>2, <2>1, <2>2
<1> QED
  BY <1>1, <1>3, <1>4, <1>5

LEMMA LessOrNot ==
    ASSUME NEW x \in Nat, NEW y \in Nat
    PROVE  (x < y \/ x >= y) /\ ~(x < y /\ x >= y) /\ (x < y => x # y) /\ (x < y <=> y > x)
OBVIOUS

(* What a rank adds is the difference between its two bounds. *)
LEMMA WeightIs ==
    ASSUME ShareKinds, ShareSizes, program.how # "loop",
           NEW j \in 0 .. p - 1, NEW k \in SH!Points
    PROVE  /\ SH!my_sum(j)[k] \in 0 .. 2
           /\ SH!my_sum(j)[k] = UpTo(k, Bound(j + 1)) - UpTo(k, Bound(j))
                                + 2 * (IdleAt(k, j + 1) - IdleAt(k, j))
           /\ UpTo(k, Bound(j)) \in Nat /\ UpTo(k, Bound(j + 1)) \in Nat
           /\ IdleAt(k, j) \in Nat /\ IdleAt(k, j + 1) \in Nat
<1>1. n \in Nat /\ p \in Nat \ {0} /\ j \in Nat /\ j < p /\ k \in Nat
  <2>1. p \in Nat /\ n \in Nat /\ p # 0 BY SizesAre
  <2> QED BY <2>1, BoundsAssumption DEF SH!Points
<1>2. PICK f, l \in Nat : /\ f = Bound(j) /\ l = Bound(j + 1) /\ f <= l
                          /\ SH!Share(j) = [first |-> f, last |-> l]
  BY ShareBounds
<1>3. /\ program.share = "even" => f = SH!my_n * j /\ l = f + SH!my_n
      /\ program.share = "one_more" /\ n < p => /\ f = IF j < n THEN j ELSE n
                                                /\ l = IF j < n THEN j + 1 ELSE n
      /\ program.share \in {"even", "one_more"} /\ n >= p => f < l
  BY <1>2, ShareBounds
<1>4. /\ program.share = "even" /\ n < p => SH!my_n = 0
      /\ program.share = "even" /\ n >= p => SH!my_n \in Nat \ {0}
  BY ShareEnds
<1>5. IdleAt(k, j) \in Nat /\ IdleAt(k, j + 1) \in Nat
  BY <1>1 DEF IdleAt
<1>9. (n < p \/ n >= p) /\ ~(n < p /\ n >= p) /\ (f < l => f # l)
  <2>1. n \in Nat /\ p \in Nat BY <1>1
  <2> QED BY <2>1, LessOrNot
<1>6. CASE program.adds = "terms"
  <2>1. SH!my_sum(j)[k] = SH!one(f <= k /\ k < l)
    BY <1>2, <1>6 DEF SH!my_sum
  <2>2. UpTo(k, f) = SH!one(k < f) /\ UpTo(k, l) = SH!one(k < l)
    BY <1>6 DEF UpTo
  <2>3. IdleAt(k, j) = 0 /\ IdleAt(k, j + 1) = 0
    BY <1>6 DEF IdleAt
  <2> QED
    BY <1>1, <1>2, <2>1, <2>2, <2>3 DEF SH!one
<1>7. CASE program.adds = "trapezoids"
  <2>1. SH!my_sum(j)[k] = SH!one(k = f) + SH!one(k = l) + 2 * SH!one(f < k /\ k < l)
    BY <1>2, <1>7 DEF SH!my_sum
  <2>2. /\ UpTo(k, f) = SH!one(k = f) + 2 * SH!one(k < f)
        /\ UpTo(k, l) = SH!one(k = l) + 2 * SH!one(k < l)
    BY <1>7 DEF UpTo
  <2>3. program.share \in {"even", "one_more"}
    BY <1>7 DEF ShareKinds
  <2>4. IdleAt(k, j + 1) - IdleAt(k, j) = SH!one(f = l /\ k = f)
    <3>1. CASE n >= p
      <4>1. IdleAt(k, j) = 0 /\ IdleAt(k, j + 1) = 0 BY <3>1 DEF IdleAt
      <4>2. f # l BY <1>3, <1>9, <2>3, <3>1
      <4> QED BY <4>1, <4>2 DEF SH!one
    <3>2. CASE n < p /\ program.share = "even"
      <4>1. f = 0 /\ l = 0 BY <1>1, <1>3, <1>4, <3>2
      <4> QED BY <1>1, <1>7, <3>2, <4>1 DEF IdleAt, SH!one
    <3>3. CASE n < p /\ program.share = "one_more"
      <4>1. ~(n >= p) BY <1>9, <3>3
      <4>2. /\ IdleAt(k, j) = IF k = n /\ j > n THEN j - n ELSE 0
            /\ IdleAt(k, j + 1) = IF k = n /\ j + 1 > n THEN (j + 1) - n ELSE 0
        BY <1>7, <3>3, <4>1 DEF IdleAt
      <4>3. f = (IF j < n THEN j ELSE n) /\ l = (IF j < n THEN j + 1 ELSE n)
        BY <1>3, <3>3
      <4>4. CASE j < n BY <1>1, <4>2, <4>3, <4>4 DEF SH!one
      <4>5. CASE j >= n
        <5>1. f = n /\ l = n BY <1>1, <4>3, <4>5
        <5>2. CASE k = n BY <1>1, <4>2, <4>5, <5>1, <5>2 DEF SH!one
        <5>3. CASE k # n BY <1>1, <4>2, <4>5, <5>1, <5>3 DEF SH!one
        <5> QED BY <5>2, <5>3
      <4> QED BY <1>1, <4>4, <4>5
    <3> QED
      BY <1>9, <2>3, <3>1, <3>2, <3>3
  <2>5. PICK d \in 0 .. 1 : /\ d = IdleAt(k, j + 1) - IdleAt(k, j)
                            /\ d = SH!one(f = l /\ k = f)
    BY <2>4 DEF SH!one
  <2>6. /\ SH!my_sum(j)[k] \in 0 .. 2
        /\ UpTo(k, f) \in Nat /\ UpTo(k, l) \in Nat
        /\ SH!my_sum(j)[k] = UpTo(k, l) - UpTo(k, f) + 2 * d
    BY <1>1, <1>2, <2>1, <2>2, <2>5 DEF SH!one
  <2> QED
    BY <1>2, <1>5, <2>5, <2>6
<1>8. CASE program.adds = "ends"
  <2>1. SH!my_sum(j)[k] = SH!one(k = f) + SH!one(k = l)
    BY <1>2, <1>8 DEF SH!my_sum
  <2>2. /\ UpTo(k, f) = SH!one(k = f) + 2 * SH!one(k < f /\ k % SH!my_n = 0)
        /\ UpTo(k, l) = SH!one(k = l) + 2 * SH!one(k < l /\ k % SH!my_n = 0)
    BY <1>8 DEF UpTo
  <2>3. program.share = "even"
    BY <1>8 DEF ShareKinds
  <2>4. CASE n < p
    <3>1. f = 0 /\ l = 0 BY <1>1, <1>3, <1>4, <2>3, <2>4
    <3>2. /\ ~(k < f /\ k % SH!my_n = 0) /\ ~(k < l /\ k % SH!my_n = 0)
      BY <1>1, <3>1
    <3>3. IdleAt(k, j + 1) - IdleAt(k, j) = SH!one(k = 0)
      BY <1>1, <1>8, <2>3, <2>4 DEF IdleAt, SH!one
    <3>4. UpTo(k, f) = SH!one(k = 0) /\ UpTo(k, l) = SH!one(k = 0)
      BY <2>2, <3>1, <3>2 DEF SH!one
    <3> QED
      BY <1>2, <1>5, <2>1, <3>1, <3>3, <3>4 DEF SH!one
  <2>5. CASE n >= p
    <3>1. SH!my_n \in Nat \ {0} BY <1>4, <2>3, <2>5
    <3>2. k = f <=> f <= k /\ k < l /\ k % SH!my_n = 0
      <4>1. PICK d \in Nat \ {0} : d = SH!my_n BY <3>1
      <4>2. k = d * j <=> d * j <= k /\ k < d * j + d /\ k % d = 0
        BY <1>1, AtMultiples
      <4>3. f = d * j /\ l = f + d BY <1>3, <2>3, <4>1
      <4> QED BY <4>1, <4>2, <4>3
    <3>3. f < l BY <1>3, <2>3, <2>5
    <3>4. IdleAt(k, j) = 0 /\ IdleAt(k, j + 1) = 0 BY <2>5 DEF IdleAt
    <3>5. PICK b \in BOOLEAN : b = (k % SH!my_n = 0) OBVIOUS
    <3>6. /\ SH!my_sum(j)[k] \in 0 .. 2
          /\ UpTo(k, f) \in Nat /\ UpTo(k, l) \in Nat
          /\ SH!my_sum(j)[k] = UpTo(k, l) - UpTo(k, f)
      BY <1>1, <1>2, <2>1, <2>2, <3>2, <3>3, <3>5 DEF SH!one
    <3> QED
      BY <1>2, <3>4, <3>6
  <2> QED
    BY <1>1, <2>4, <2>5
<1> QED
  BY <1>6, <1>7, <1>8 DEF ShareKinds

LEMMA WeightType ==
    ASSUME ShareKinds, ShareSizes, program.how # "loop", NEW k \in SH!Points
    PROVE  Weight(k) \in [SH!Ranks -> 0 .. 2]
<1>1. SH!Ranks \subseteq 0 .. p - 1
  <2>1. p \in Nat /\ share_team \in 1 .. p BY SizesAre DEF ShareSizes
  <2> QED BY <2>1 DEF SH!Ranks
<1>2. \A r \in SH!Ranks : SH!my_sum(r)[k] \in 0 .. 2
  BY <1>1, WeightIs
<1> QED
  BY <1>2 DEF Weight

(* The parts of the ranks below j come to what one thread has at the start of    *)
(* the share of j, and what the idle ranks have added.                           *)
LEMMA PartsSoFar ==
    ASSUME ShareKinds, ShareSizes, program.how # "loop", NEW k \in SH!Points
    PROVE  \A j \in 0 .. share_team :
              /\ SumOf(Weight(k), 0 .. j - 1)
                 = UpTo(k, Bound(j)) - UpTo(k, 0) + 2 * IdleAt(k, j)
              /\ UpTo(k, Bound(j)) \in Nat /\ IdleAt(k, j) \in Nat
<1>1. /\ n \in Nat /\ p \in Nat \ {0} /\ k \in Nat
      /\ share_team \in Nat \ {0} /\ share_team <= p
  <2>1. n \in Nat /\ p \in Nat \ {0} /\ k \in Nat
    BY SizesAre, BoundsAssumption DEF SH!Points
  <2> QED
    BY <2>1 DEF ShareSizes
<1>2. Bound(0) = 0
  BY ShareEnds
<1> DEFINE Good(j) == /\ SumOf(Weight(k), 0 .. j - 1)
                         = UpTo(k, Bound(j)) - UpTo(k, 0) + 2 * IdleAt(k, j)
                      /\ UpTo(k, Bound(j)) \in Nat /\ IdleAt(k, j) \in Nat
           bad == {j \in 0 .. share_team : ~Good(j)}
<1>3. 0 \in 0 .. p - 1 /\ 0 \in 0 .. share_team - 1
  BY <1>1
<1>4. Good(0)
  <2>1. 0 .. 0 - 1 = {} OBVIOUS
  <2>2. SumOf(Weight(k), 0 .. 0 - 1) = 0 BY <2>1, SumOfNone
  <2>3. UpTo(k, Bound(0)) \in Nat BY <1>3, WeightIs
  <2>4. IdleAt(k, 0) = 0 BY <1>1 DEF IdleAt
  <2> QED BY <1>2, <2>2, <2>3, <2>4
<1>5. IsFiniteSet(SH!Ranks) /\ SH!Ranks = 0 .. share_team - 1
  <2>1. 0 \in Int /\ share_team - 1 \in Int BY <1>1
  <2> QED BY <2>1, FS_Interval DEF SH!Ranks
<1>6. ASSUME NEW j \in 0 .. share_team - 1, Good(j) PROVE Good(j + 1)
  <2>1. 0 .. j - 1 \in SUBSET SH!Ranks /\ j \in SH!Ranks \ (0 .. j - 1)
        /\ (0 .. j - 1) \cup {j} = 0 .. j /\ (j + 1) - 1 = j
    BY <1>1, <1>5
  <2>2. /\ SH!my_sum(j)[k] \in 0 .. 2
        /\ SH!my_sum(j)[k] = UpTo(k, Bound(j + 1)) - UpTo(k, Bound(j))
                             + 2 * (IdleAt(k, j + 1) - IdleAt(k, j))
        /\ UpTo(k, Bound(j)) \in Nat /\ UpTo(k, Bound(j + 1)) \in Nat
        /\ IdleAt(k, j) \in Nat /\ IdleAt(k, j + 1) \in Nat
    <3>1. j \in 0 .. p - 1 BY <1>1
    <3> QED BY <3>1, WeightIs
  <2>3. Weight(k)[j] = SH!my_sum(j)[k]
    BY <2>1 DEF Weight
  <2>4. SumOf(Weight(k), (0 .. j - 1) \cup {j})
        = SumOf(Weight(k), 0 .. j - 1) + Weight(k)[j]
    <3>1. PICK g, S, T, y : g = Weight(k) /\ S = 0 .. j - 1 /\ T = SH!Ranks /\ y = j
      OBVIOUS
    <3>2. IsFiniteSet(T) BY <1>5, <3>1
    <3>3. S \in SUBSET T /\ y \in T \ S /\ g[y] \in 0 .. 2
      BY <2>1, <2>2, <2>3, <3>1
    <3>4. SumOf(g, S \cup {y}) = SumOf(g, S) + g[y]
      BY ONLY <3>2, <3>3, SumOfOneMore
    <3> QED BY <3>1, <3>4
  <2>5. UpTo(k, 0) \in Nat
    BY <1>2, <1>3, WeightIs
  <2>6. SumOf(Weight(k), 0 .. (j + 1) - 1)
        = SumOf(Weight(k), 0 .. j - 1) + SH!my_sum(j)[k]
    BY <2>1, <2>3, <2>4
  <2> QED
    BY <1>6, <2>2, <2>5, <2>6
<1>7. bad = {}
  <2> SUFFICES ASSUME bad # {} PROVE FALSE
    OBVIOUS
  <2>1. PICK j \in bad : \A h \in bad : j <= h
    <3>1. bad \in SUBSET Nat BY <1>1
    <3> HIDE DEF bad
    <3> QED BY <3>1, LeastOf
  <2> HIDE DEF Good
  <2>2. j # 0 BY <1>4
  <2>3. j - 1 \in 0 .. share_team - 1 /\ j - 1 \notin bad /\ (j - 1) + 1 = j
    BY <1>1, <2>1, <2>2
  <2>4. Good(j - 1) BY <1>1, <2>3
  <2>5. Good(j) BY <1>6, <2>3, <2>4
  <2> QED BY <2>5
<1> QED
  BY <1>7

(* All of them together are what SumExact says. *)
LEMMA AllParts ==
    ASSUME ShareKinds, ShareSizes, program.how # "loop", NEW k \in SH!Points
    PROVE  SumOf(Weight(k), SH!Ranks)
           = SH!Reference(k)
             + IF program.adds # "terms" /\ k = SH!reach THEN 2 * SH!idle ELSE 0
<1>1. n \in Nat /\ p \in Nat \ {0} /\ k \in Nat
  BY SizesAre, BoundsAssumption DEF SH!Points
<1>9. /\ (n < p \/ n >= p) /\ ~(n < p /\ n >= p) /\ (n < p => p > n)
  <2>1. n \in Nat /\ p \in Nat BY <1>1
  <2> QED BY <2>1, LessOrNot
<1>2. PICK m \in Nat : m = SH!reach /\ m = Bound(share_team)
  BY ShareEnds
<1>3. /\ program.share = "even" /\ n < p => m = 0 /\ SH!my_n = 0
      /\ program.share = "even" /\ n >= p => m > 0 /\ SH!my_n \in Nat \ {0}
      /\ program.share = "one_more" => m = n
  BY <1>2, ShareEnds
<1>4. /\ SumOf(Weight(k), SH!Ranks)
         = UpTo(k, m) - UpTo(k, 0) + 2 * IdleAt(k, share_team)
      /\ IdleAt(k, share_team) \in Nat
      /\ program.adds # "terms" => share_team = p
  <2>1. share_team \in 0 .. share_team BY <1>1 DEF ShareSizes
  <2>2. program.adds # "terms" => share_team = p BY DEF ShareSizes, ShareKinds
  <2> QED BY <1>2, <2>1, <2>2, PartsSoFar DEF SH!Ranks
<1>5. CASE program.adds = "terms"
  <2>1. UpTo(k, m) = SH!one(k < m) /\ UpTo(k, 0) = SH!one(k < 0) /\ IdleAt(k, share_team) = 0
    BY <1>5 DEF UpTo, IdleAt
  <2>2. SH!Reference(k) = SH!one(k < m)
    BY <1>2, <1>5 DEF SH!Reference
  <2> QED
    BY <1>1, <1>4, <1>5, <2>1, <2>2 DEF SH!one
<1>6. ASSUME program.adds # "terms"
      PROVE  /\ n > 0 /\ program.share \in {"even", "one_more"}
             /\ 2 * IdleAt(k, p) = IF k = m THEN 2 * SH!idle ELSE 0
             /\ SH!idle \in Nat
             /\ m = 0 => program.share = "even"
  <2>1. n > 0 /\ program.share \in {"even", "one_more"}
    BY <1>6 DEF ShareSizes, ShareKinds
  <2>2. SH!idle = IF program.share = "one_more" THEN IF n < p THEN p - n ELSE 0
                  ELSE IF n < p THEN p ELSE 0
    BY <2>1 DEF SH!idle
  <2>3. m = 0 => program.share = "even"
    <3>1. n # 0
      <4>1. n \in Nat /\ 0 \in Nat /\ n > 0 BY <1>1, <2>1
      <4> QED BY <4>1, LessOrNot
    <3> QED BY <1>3, <2>1, <3>1
  <2>4. SH!idle \in Nat
    <3>1. p \in Nat /\ 0 \in Nat /\ (n < p => p - n \in Nat) BY <1>1
    <3> QED BY <2>2, <3>1
  <2>5. IdleAt(k, p) = IF k = m THEN SH!idle ELSE 0
    <3>1. CASE n >= p
      <4>1. ~(n < p) BY <1>9, <3>1
      <4> QED BY <2>2, <3>1, <4>1 DEF IdleAt
    <3>2. CASE n < p
      <4>1. ~(n >= p) /\ p > n BY <1>9, <3>2
      <4> QED BY <1>3, <1>6, <2>1, <2>2, <3>2, <4>1 DEF IdleAt
    <3> QED BY <1>9, <3>1, <3>2
  <2>6. 2 * IdleAt(k, p) = IF k = m THEN 2 * SH!idle ELSE 0
    BY <2>4, <2>5
  <2> QED
    BY <2>1, <2>3, <2>4, <2>6
<1>7. CASE program.adds = "trapezoids"
  <2>1. /\ UpTo(k, m) = SH!one(k = m) + 2 * SH!one(k < m)
        /\ UpTo(k, 0) = SH!one(k = 0) + 2 * SH!one(k < 0)
    BY <1>7 DEF UpTo
  <2>2. SH!Reference(k) = IF m = 0 THEN 0
                          ELSE SH!one(k = 0) + SH!one(k = m) + 2 * SH!one(0 < k /\ k < m)
    BY <1>2, <1>7 DEF SH!Reference
  <2>3. UpTo(k, m) - UpTo(k, 0) = SH!Reference(k) /\ SH!Reference(k) \in Nat
    BY <1>1, <2>1, <2>2 DEF SH!one
  <2> QED
    BY <1>2, <1>4, <1>6, <1>7, <2>3
<1>8. CASE program.adds = "ends"
  <2>1. /\ UpTo(k, m) = SH!one(k = m) + 2 * SH!one(k < m /\ k % SH!my_n = 0)
        /\ UpTo(k, 0) = SH!one(k = 0) + 2 * SH!one(k < 0 /\ k % SH!my_n = 0)
    BY <1>8 DEF UpTo
  <2>2. SH!Reference(k) =
            IF m = 0 THEN 0
            ELSE SH!one(k = 0) + SH!one(k = m)
                 + 2 * SH!one(0 < k /\ k < m /\ k % SH!my_n = 0)
    BY <1>2, <1>8 DEF SH!Reference
  <2>3. m > 0 /\ k = 0 => k % SH!my_n = 0
    <3>1. program.share = "even"
      BY <1>8 DEF ShareKinds
    <3>2. ~(m > 0 /\ m = 0)
      OBVIOUS
    <3>3. m > 0 => SH!my_n \in Nat \ {0}
      BY <1>3, <1>9, <3>1, <3>2
    <3>4. \A d \in Nat \ {0} : 0 % d = 0
      OBVIOUS
    <3> QED
      BY <3>3, <3>4
  <2>4. UpTo(k, m) - UpTo(k, 0) = SH!Reference(k) /\ SH!Reference(k) \in Nat
    <3>1. PICK b \in BOOLEAN : b = (k % SH!my_n = 0) OBVIOUS
    <3> QED
      BY <1>1, <2>1, <2>2, <2>3, <3>1 DEF SH!one
  <2> QED
    BY <1>2, <1>4, <1>6, <1>8, <2>4
<1> QED
  BY <1>5, <1>7, <1>8 DEF ShareKinds

--------------------------------------------------------------------------------
(* Shares: the state of the ranks. *)

LEMMA RanksAre ==
    ASSUME ShareSizes
    PROVE  /\ SH!Ranks = 0 .. share_team - 1 /\ IsFiniteSet(SH!Ranks)
           /\ Cardinality(SH!Ranks) = share_team /\ 0 \in SH!Ranks
           /\ share_team \in Nat \ {0} /\ share_team <= p
           /\ p \in Nat \ {0} /\ p <= MaxRanks /\ MaxRanks \in Nat
<1>1. /\ p \in Nat \ {0} /\ MaxRanks \in Nat /\ p \in 1 .. MaxRanks
      /\ share_team \in 1 .. p
  BY SizesAre, BoundsAssumption DEF ShareSizes
<1>2. 0 \in Int /\ share_team - 1 \in Int /\ share_team \in Nat \ {0}
  BY <1>1
<1>3. /\ IsFiniteSet(0 .. share_team - 1)
      /\ Cardinality(0 .. share_team - 1)
         = IF 0 > share_team - 1 THEN 0 ELSE (share_team - 1) - 0 + 1
  BY <1>2, FS_Interval
<1> QED
  BY <1>1, <1>2, <1>3 DEF SH!Ranks

(* A sum is never more than the type allows. *)
LEMMA PartsBounded ==
    ASSUME ShareKinds, ShareSizes, program.how # "loop",
           NEW S \in SUBSET SH!Ranks, NEW k \in SH!Points
    PROVE  SumOf(Weight(k), S) \in 0 .. 2 * (MaxRanks + 1)
<1>1. /\ IsFiniteSet(SH!Ranks) /\ Cardinality(SH!Ranks) = share_team
      /\ share_team \in Nat \ {0} /\ share_team <= p
      /\ p \in Nat \ {0} /\ p <= MaxRanks /\ MaxRanks \in Nat
  BY RanksAre
<1>2. IsFiniteSet(0 .. 1) /\ Cardinality(0 .. 1) = 2
  <2>1. 0 \in Int /\ 1 \in Int OBVIOUS
  <2>2. /\ IsFiniteSet(0 .. 1)
        /\ Cardinality(0 .. 1) = IF 0 > 1 THEN 0 ELSE 1 - 0 + 1
    BY <2>1, FS_Interval
  <2> QED BY <2>2
<1>3. /\ IsFiniteSet(SH!Ranks \X (0 .. 1))
      /\ Cardinality(SH!Ranks \X (0 .. 1)) = Cardinality(SH!Ranks) * Cardinality(0 .. 1)
  BY <1>1, <1>2, FS_Product
<1>4. Tokens(Weight(k), S) \subseteq SH!Ranks \X (0 .. 1)
  BY DEF Tokens
<1>5. /\ IsFiniteSet(Tokens(Weight(k), S))
      /\ SumOf(Weight(k), S) <= Cardinality(SH!Ranks \X (0 .. 1))
  BY <1>3, <1>4, FS_Subset DEF SumOf
<1>6. SumOf(Weight(k), S) \in Nat
  BY <1>5, FS_CardinalityType DEF SumOf
<1>7. Cardinality(SH!Ranks \X (0 .. 1)) = share_team * 2
  BY <1>1, <1>2, <1>3
<1> QED
  BY <1>1, <1>5, <1>6, <1>7

(* A rank adds its part to those that are in the sum. *)
LEMMA AddPart ==
    ASSUME ShareKinds, ShareSizes, program.how # "loop",
           NEW S \in SUBSET SH!Ranks, NEW r \in SH!Ranks \ S, NEW f,
           \A k \in SH!Points : f[k] = SumOf(Weight(k), S)
    PROVE  /\ \A k \in SH!Points :
                 SH!Plus(f, SH!my_sum(r))[k] = SumOf(Weight(k), S \cup {r})
           /\ SH!Plus(f, SH!my_sum(r)) \in SH!Sums
<1>1. ASSUME NEW k \in SH!Points
      PROVE  /\ SH!Plus(f, SH!my_sum(r))[k] = SumOf(Weight(k), S \cup {r})
             /\ SumOf(Weight(k), S \cup {r}) \in 0 .. 2 * (MaxRanks + 1)
  <2>1. PICK g, T, y : g = Weight(k) /\ T = SH!Ranks /\ y = r
    OBVIOUS
  <2>2. IsFiniteSet(T)
    BY <2>1, RanksAre
  <2>3. Weight(k) \in [SH!Ranks -> 0 .. 2]
    BY WeightType
  <2>4. S \in SUBSET T /\ y \in T \ S /\ g[y] \in 0 .. 2
    BY <2>1, <2>3
  <2>5. SumOf(g, S \cup {y}) = SumOf(g, S) + g[y]
    BY ONLY <2>2, <2>4, SumOfOneMore
  <2>6. Weight(k)[r] = SH!my_sum(r)[k]
    BY DEF Weight
  <2>7. SH!Plus(f, SH!my_sum(r))[k] = f[k] + SH!my_sum(r)[k]
    BY DEF SH!Plus
  <2>8. S \cup {r} \in SUBSET SH!Ranks
    OBVIOUS
  <2>9. SumOf(Weight(k), S \cup {r}) \in 0 .. 2 * (MaxRanks + 1)
    BY <2>8, PartsBounded
  <2> QED
    BY <2>1, <2>5, <2>6, <2>7, <2>9
<1>2. SH!Plus(f, SH!my_sum(r)) = [k \in SH!Points |-> SH!Plus(f, SH!my_sum(r))[k]]
  BY DEF SH!Plus
<1> QED
  BY <1>1, <1>2 DEF SH!Sums

(* The ranks whose parts are in the sum. *)
Added ==
    CASE program.how = "lock" -> {r \in SH!Ranks : share_pc[r] = "done"}
      [] program.how = "turn" -> {r \in SH!Ranks : share_pc[r] \in {"hand_on", "done"}}
      [] program.how = "receive" -> 0 .. next - 1
      [] OTHER -> IF share_pc[0] = "combine" THEN {} ELSE SH!Ranks

(* The sum is that of their parts, and whoever is adding has read it as it still *)
(* is.                                                                           *)
PartsInv ==
    /\ \A k \in SH!Points : total[k] = SumOf(Weight(k), Added)
    /\ \A r \in SH!Ranks :
          /\ program.how = "lock" => mutex = r <=> share_pc[r] = "adding"
          /\ program.how = "turn" /\ share_pc[r] \in {"adding", "hand_on"} => flag = r
          /\ share_pc[r] = "adding" => program.how \in {"lock", "turn"} /\ loaded[r] = total
          /\ share_pc[r] = "hand_on" => program.how = "turn"
    /\ program.how = "receive" => next \in 1 .. p /\ (share_pc[0] = "done" => next = p)

(* In Collective_Communication.c every rank past the broadcast has the c of rank 0 *)
(* and every rank past the last reduction the whole sum.                         *)
CollectiveInv ==
    \A r \in SH!Ranks :
       /\ share_pc[r] \in {"bcast", "allreduce"} => program = SH!collective
       /\ program = SH!collective =>
             /\ share_pc[0] = "bcast" => share_c[0] = 2
             /\ share_pc[r] \in {"allreduce", "done"} => share_c[r] = 2
             /\ share_pc[r] = "done" =>
                   \A k \in SH!Points : loaded[r][k] = SumOf(Weight(k), SH!Ranks)

start == IF program = SH!pi_reduction THEN 0 ELSE 1
once == IF program.adds = "terms" THEN 1 ELSE 2
Base == IF program = SH!parallel_for THEN SH!Ends ELSE SH!Zero

(* In a loop the copies of the threads hold the iterations so far, each in one   *)
(* copy, and the sum holds the copies of the threads that are done.              *)
LoopInv ==
    /\ start <= next /\ next <= n
    /\ \A k \in SH!Points :
          /\ \A r \in SH!Ranks : loaded[r][k] \in {0, once}
          /\ (\E r \in SH!Ranks : loaded[r][k] # 0) <=> start <= k /\ k < next
          /\ \A r, s \in SH!Ranks : loaded[r][k] # 0 /\ loaded[s][k] # 0 => r = s
          /\ total[k] = Base[k]
                        + IF \E r \in SH!Ranks : share_pc[r] = "done" /\ loaded[r][k] # 0
                          THEN once ELSE 0
    /\ \A r \in SH!Ranks : /\ share_pc[r] \in {"combine", "done"}
                           /\ share_pc[r] = "done" => next = n

ShareInv ==
    /\ SH!TypeOK /\ ShareKinds /\ ShareSizes /\ CollectiveInv
    /\ IF program.how = "loop" THEN LoopInv ELSE PartsInv

(* What depends only on the program and its sizes stays. *)
LEMMA SameShares ==
    ASSUME UNCHANGED <<program, n, p, share_team>>
    PROVE  /\ SH!Ranks' = SH!Ranks
           /\ ShareKinds => ShareKinds'
           /\ ShareSizes => ShareSizes'
           /\ \A k : Weight(k)' = Weight(k)
           /\ start' = start /\ once' = once /\ Base' = Base
           /\ n' = n /\ p' = p /\ share_team' = share_team /\ program' = program
<1>1. program' = program /\ n' = n /\ p' = p /\ share_team' = share_team
  OBVIOUS
<1>2. SH!Ranks' = SH!Ranks
  BY <1>1 DEF SH!Ranks
<1>3. \A r : SH!Share(r)' = SH!Share(r)
  BY <1>1 DEF SH!Share, SH!OneMore, SH!LastTakesRest, SH!Even, SH!my_n
<1>4. ASSUME NEW r PROVE SH!my_sum(r)' = SH!my_sum(r)
  <2>1. PICK s : s = SH!Share(r) /\ s = SH!Share(r)'
    BY <1>3
  <2> DEFINE Sum(adds) ==
                 [k \in SH!Points |->
                    CASE adds = "terms" -> SH!one(s.first <= k /\ k < s.last)
                      [] adds = "trapezoids" -> SH!one(k = s.first) + SH!one(k = s.last)
                                                + 2 * SH!one(s.first < k /\ k < s.last)
                      [] adds = "ends" -> SH!one(k = s.first) + SH!one(k = s.last)]
  <2>2. SH!my_sum(r) = Sum(program.adds)
    BY <2>1 DEF SH!my_sum
  <2>3. SH!my_sum(r)' = Sum(program'.adds)
    BY <2>1 DEF SH!my_sum
  <2> HIDE DEF Sum
  <2> QED
    BY <1>1, <2>2, <2>3
<1>5. \A k : Weight(k)' = Weight(k)
  BY <1>2, <1>4 DEF Weight
<1>6. start' = start /\ once' = once
  BY <1>1 DEF start, once
<1>7. Base' = Base
  BY <1>1 DEF Base, SH!Ends
<1>8. ShareKinds => ShareKinds'
  BY <1>1 DEF ShareKinds
<1>9. ShareSizes => ShareSizes'
  BY <1>1 DEF ShareSizes
<1> QED
  BY <1>1, <1>2, <1>5, <1>6, <1>7, <1>8, <1>9

LEMMA ShareInvIdle == ASSUME ShareInv, UNCHANGED shareVars PROVE ShareInv'
<1>1. /\ UNCHANGED <<program, n, p, share_team, total, loaded, share_c>>
      /\ UNCHANGED <<mutex, flag, sent, next, share_pc>>
  BY DEF shareVars
<1>2. /\ SH!Ranks' = SH!Ranks /\ ShareKinds' /\ ShareSizes'
      /\ \A k : Weight(k)' = Weight(k)
      /\ start' = start /\ once' = once /\ Base' = Base
  BY <1>1, SameShares DEF ShareInv
<1>3. SH!TypeOK'
  BY <1>1, <1>2 DEF ShareInv, SH!TypeOK
<1>4. Added' = Added
  BY <1>1, <1>2 DEF Added
<1>5. PartsInv => PartsInv'
  BY <1>1, <1>2, <1>4 DEF PartsInv
<1>6. LoopInv => LoopInv'
  BY <1>1, <1>2 DEF LoopInv
<1>7. CollectiveInv'
  BY <1>1, <1>2 DEF ShareInv, CollectiveInv
<1> QED
  BY <1>1, <1>2, <1>3, <1>5, <1>6, <1>7 DEF ShareInv

(* The other programs have no part of it. *)
LEMMA CollectiveKept ==
    ASSUME ShareInv, program.how # "reduce", UNCHANGED <<program, n, p, share_team>>,
           \A r \in SH!Ranks : share_pc'[r] = share_pc[r]
                               \/ share_pc'[r] \in {"adding", "hand_on", "done"}
    PROVE  CollectiveInv'
<1>1. program' = program /\ SH!Ranks' = SH!Ranks
  BY SameShares
<1>2. program # SH!collective
  BY DEF ShareInv, ShareKinds
<1> QED
  BY <1>1, <1>2 DEF ShareInv, CollectiveInv

--------------------------------------------------------------------------------
(* What the steps of the programs that are not loops need. *)
LEMMA PartsFacts ==
    ASSUME ShareInv, program.how # "loop"
    PROVE  /\ SH!TypeOK /\ ShareKinds /\ ShareSizes /\ PartsInv
           /\ SH!Ranks = 0 .. share_team - 1 /\ 0 \in SH!Ranks
           /\ p \in Nat \ {0} /\ share_team \in Nat \ {0}
           /\ program.how # "lock" => share_team = p
           /\ Added \in SUBSET SH!Ranks
<1>1. SH!TypeOK /\ ShareKinds /\ ShareSizes /\ PartsInv
  BY DEF ShareInv
<1>2. /\ SH!Ranks = 0 .. share_team - 1 /\ 0 \in SH!Ranks
      /\ p \in Nat \ {0} /\ share_team \in Nat \ {0}
      /\ program.how # "lock" => share_team = p
  <2>1. program.how # "lock" => share_team = p
    BY <1>1 DEF ShareKinds, ShareSizes
  <2> QED
    BY <1>1, <2>1, RanksAre
<1>3. program.how = "receive" => 0 .. next - 1 \in SUBSET SH!Ranks
  <2>1. program.how = "receive" => next \in 1 .. p
    BY <1>1 DEF PartsInv
  <2> QED
    BY <1>2, <2>1
<1>4. Added \in SUBSET SH!Ranks
  BY <1>1, <1>3 DEF Added, ShareKinds
<1> QED
  BY <1>1, <1>2, <1>4

LEMMA LoadLockedStep ==
    ASSUME ShareInv, NEW r \in SH!Ranks, SH!LoadLocked(r) PROVE ShareInv'
<1>1. /\ program.how = "lock" /\ share_pc[r] = "combine"
      /\ share_pc' = [share_pc EXCEPT ![r] = "adding"]
      /\ mutex = SH!Nobody /\ mutex' = r
      /\ loaded' = [loaded EXCEPT ![r] = total]
      /\ UNCHANGED <<program, n, p, share_team>> /\ UNCHANGED <<total, flag, sent, next, share_c>>
  BY DEF SH!LoadLocked, SH!Goto, SH!Locked
<1>2. /\ SH!TypeOK /\ PartsInv
      /\ SH!Ranks = 0 .. share_team - 1 /\ share_team \in Nat \ {0}
  BY <1>1, PartsFacts
<1>3. /\ SH!Ranks' = SH!Ranks /\ ShareKinds' /\ ShareSizes'
      /\ \A k : Weight(k)' = Weight(k)
      /\ program' = program /\ n' = n /\ p' = p
  BY <1>1, SameShares DEF ShareInv
<1>4. /\ share_pc' \in [SH!Ranks -> SH!Locations] /\ share_pc'[r] = "adding"
      /\ loaded' \in [SH!Ranks -> SH!Sums] /\ loaded'[r] = total
      /\ \A s \in SH!Ranks : s # r => share_pc'[s] = share_pc[s] /\ loaded'[s] = loaded[s]
  BY <1>1, <1>2 DEF SH!TypeOK, SH!Locations
<1>5. SH!TypeOK'
  BY <1>1, <1>2, <1>3, <1>4 DEF SH!TypeOK
<1>6. Added' = Added
  BY <1>1, <1>3, <1>4 DEF Added
<1>7. PartsInv'
  <2>0. \A s \in SH!Ranks : mutex # s
    BY <1>1, <1>2 DEF SH!Nobody
  <2>1. \A s \in SH!Ranks : s # r => share_pc[s] # "adding" /\ mutex' # s
    BY <1>1, <1>2, <2>0 DEF PartsInv
  <2>2. \A s \in SH!Ranks :
           /\ mutex' = s <=> share_pc'[s] = "adding"
           /\ share_pc'[s] = "adding" => loaded'[s] = total'
           /\ share_pc'[s] # "hand_on"
    BY <1>1, <1>2, <1>4, <2>1 DEF PartsInv
  <2> QED
    BY <1>1, <1>2, <1>3, <1>6, <2>2 DEF PartsInv
<1>8. CollectiveInv'
  BY <1>1, <1>4, CollectiveKept
<1> QED
  BY <1>1, <1>3, <1>5, <1>7, <1>8 DEF ShareInv

LEMMA StoreLockedStep ==
    ASSUME ShareInv, NEW r \in SH!Ranks, SH!StoreLocked(r) PROVE ShareInv'
<1>1. /\ program.how = "lock" /\ share_pc[r] = "adding"
      /\ share_pc' = [share_pc EXCEPT ![r] = "done"]
      /\ mutex' = SH!Nobody
      /\ total' = SH!Plus(loaded[r], SH!my_sum(r))
      /\ UNCHANGED <<program, n, p, share_team>> /\ UNCHANGED <<loaded, flag, sent, next, share_c>>
  BY DEF SH!StoreLocked, SH!Goto
<1>2. /\ SH!TypeOK /\ PartsInv /\ ShareKinds /\ ShareSizes /\ Added \in SUBSET SH!Ranks
      /\ SH!Ranks = 0 .. share_team - 1 /\ share_team \in Nat \ {0}
  BY <1>1, PartsFacts
<1>3. /\ SH!Ranks' = SH!Ranks /\ ShareKinds' /\ ShareSizes'
      /\ \A k : Weight(k)' = Weight(k)
      /\ program' = program /\ n' = n /\ p' = p
  BY <1>1, SameShares DEF ShareInv
<1>4. /\ share_pc' \in [SH!Ranks -> SH!Locations] /\ share_pc'[r] = "done"
      /\ \A s \in SH!Ranks : s # r => share_pc'[s] = share_pc[s]
  BY <1>1, <1>2 DEF SH!TypeOK, SH!Locations
<1>5. Added' = Added \cup {r} /\ r \notin Added
  BY <1>1, <1>3, <1>4 DEF Added
<1>6. loaded[r] = total /\ \A k \in SH!Points : total[k] = SumOf(Weight(k), Added)
  BY <1>1, <1>2 DEF PartsInv
<1>7. /\ \A k \in SH!Points : total'[k] = SumOf(Weight(k), Added \cup {r})
      /\ total' \in SH!Sums
  <2>1. PICK S, f : S = Added /\ f = loaded[r]
    OBVIOUS
  <2>2. /\ S \in SUBSET SH!Ranks /\ r \in SH!Ranks \ S
        /\ \A k \in SH!Points : f[k] = SumOf(Weight(k), S)
    BY <1>2, <1>5, <1>6, <2>1
  <2>3. /\ \A k \in SH!Points :
              SH!Plus(f, SH!my_sum(r))[k] = SumOf(Weight(k), S \cup {r})
        /\ SH!Plus(f, SH!my_sum(r)) \in SH!Sums
    BY <1>1, <1>2, <2>2, AddPart
  <2> QED
    BY <1>1, <2>1, <2>3
<1>8. SH!TypeOK'
  BY <1>1, <1>2, <1>3, <1>4, <1>7 DEF SH!TypeOK, SH!Nobody
<1>9. PartsInv'
  <2>1. \A s \in SH!Ranks : s # r => share_pc[s] # "adding" /\ share_pc'[s] # "adding"
    BY <1>1, <1>2, <1>4 DEF PartsInv
  <2>2. \A s \in SH!Ranks : mutex' # s /\ share_pc'[s] # "adding" /\ share_pc'[s] # "hand_on"
    <3>1. \A s \in SH!Ranks : mutex' # s
      BY <1>1, <1>2 DEF SH!Nobody
    <3> QED
      BY <1>1, <1>2, <1>4, <2>1, <3>1 DEF PartsInv
  <2>3. \A k \in SH!Points : total'[k] = SumOf(Weight(k)', Added')
    BY <1>3, <1>5, <1>7
  <2> QED
    BY <1>1, <1>3, <2>2, <2>3 DEF PartsInv
<1>10. CollectiveInv'
  BY <1>1, <1>4, CollectiveKept
<1> QED
  BY <1>1, <1>3, <1>8, <1>9, <1>10 DEF ShareInv

LEMMA LoadInTurnStep ==
    ASSUME ShareInv, NEW r \in SH!Ranks, SH!LoadInTurn(r) PROVE ShareInv'
<1>1. /\ program.how = "turn" /\ share_pc[r] = "combine" /\ flag = r
      /\ share_pc' = [share_pc EXCEPT ![r] = "adding"]
      /\ loaded' = [loaded EXCEPT ![r] = total]
      /\ UNCHANGED <<program, n, p, share_team>> /\ UNCHANGED <<total, mutex, flag, sent, next, share_c>>
  BY DEF SH!LoadInTurn, SH!Goto
<1>2. SH!TypeOK /\ PartsInv
  BY <1>1, PartsFacts
<1>3. /\ SH!Ranks' = SH!Ranks /\ ShareKinds' /\ ShareSizes'
      /\ \A k : Weight(k)' = Weight(k)
      /\ program' = program /\ n' = n /\ p' = p
  BY <1>1, SameShares DEF ShareInv
<1>4. /\ share_pc' \in [SH!Ranks -> SH!Locations] /\ share_pc'[r] = "adding"
      /\ loaded' \in [SH!Ranks -> SH!Sums] /\ loaded'[r] = total
      /\ \A s \in SH!Ranks : s # r => share_pc'[s] = share_pc[s] /\ loaded'[s] = loaded[s]
  BY <1>1, <1>2 DEF SH!TypeOK, SH!Locations
<1>5. SH!TypeOK'
  BY <1>1, <1>2, <1>3, <1>4 DEF SH!TypeOK
<1>6. Added' = Added
  BY <1>1, <1>3, <1>4 DEF Added
<1>7. PartsInv'
  <2>1. \A s \in SH!Ranks :
           /\ share_pc'[s] \in {"adding", "hand_on"} => flag' = s
           /\ share_pc'[s] = "adding" => loaded'[s] = total'
    BY <1>1, <1>2, <1>4 DEF PartsInv
  <2> QED
    BY <1>1, <1>2, <1>3, <1>6, <2>1 DEF PartsInv
<1>8. CollectiveInv'
  BY <1>1, <1>4, CollectiveKept
<1> QED
  BY <1>1, <1>3, <1>5, <1>7, <1>8 DEF ShareInv

LEMMA StoreInTurnStep ==
    ASSUME ShareInv, NEW r \in SH!Ranks, SH!StoreInTurn(r) PROVE ShareInv'
<1>1. /\ program.how = "turn" /\ share_pc[r] = "adding"
      /\ share_pc' = [share_pc EXCEPT ![r] = "hand_on"]
      /\ total' = SH!Plus(loaded[r], SH!my_sum(r))
      /\ UNCHANGED <<program, n, p, share_team>> /\ UNCHANGED <<loaded, mutex, flag, sent, next, share_c>>
  BY DEF SH!StoreInTurn, SH!Goto
<1>2. SH!TypeOK /\ PartsInv /\ ShareKinds /\ ShareSizes /\ Added \in SUBSET SH!Ranks
  BY <1>1, PartsFacts
<1>3. /\ SH!Ranks' = SH!Ranks /\ ShareKinds' /\ ShareSizes'
      /\ \A k : Weight(k)' = Weight(k)
      /\ program' = program /\ n' = n /\ p' = p
  BY <1>1, SameShares DEF ShareInv
<1>4. /\ share_pc' \in [SH!Ranks -> SH!Locations] /\ share_pc'[r] = "hand_on"
      /\ \A s \in SH!Ranks : s # r => share_pc'[s] = share_pc[s]
  BY <1>1, <1>2 DEF SH!TypeOK, SH!Locations
<1>5. Added' = Added \cup {r} /\ r \notin Added
  BY <1>1, <1>3, <1>4 DEF Added
<1>6. loaded[r] = total /\ \A k \in SH!Points : total[k] = SumOf(Weight(k), Added)
  BY <1>1, <1>2 DEF PartsInv
<1>7. /\ \A k \in SH!Points : total'[k] = SumOf(Weight(k), Added \cup {r})
      /\ total' \in SH!Sums
  <2>1. PICK S, f : S = Added /\ f = loaded[r]
    OBVIOUS
  <2>2. /\ S \in SUBSET SH!Ranks /\ r \in SH!Ranks \ S
        /\ \A k \in SH!Points : f[k] = SumOf(Weight(k), S)
    BY <1>2, <1>5, <1>6, <2>1
  <2>3. /\ \A k \in SH!Points :
              SH!Plus(f, SH!my_sum(r))[k] = SumOf(Weight(k), S \cup {r})
        /\ SH!Plus(f, SH!my_sum(r)) \in SH!Sums
    BY <1>1, <1>2, <2>2, AddPart
  <2> QED
    BY <1>1, <2>1, <2>3
<1>8. SH!TypeOK'
  BY <1>1, <1>2, <1>3, <1>4, <1>7 DEF SH!TypeOK
<1>9. PartsInv'
  <2>1. \A s \in SH!Ranks :
           /\ share_pc'[s] \in {"adding", "hand_on"} => flag' = s
           /\ share_pc'[s] # "adding"
    BY <1>1, <1>2, <1>4 DEF PartsInv
  <2>2. \A k \in SH!Points : total'[k] = SumOf(Weight(k)', Added')
    BY <1>3, <1>5, <1>7
  <2> QED
    BY <1>1, <1>3, <2>1, <2>2 DEF PartsInv
<1>10. CollectiveInv'
  BY <1>1, <1>4, CollectiveKept
<1> QED
  BY <1>1, <1>3, <1>8, <1>9, <1>10 DEF ShareInv

LEMMA HandOnStep ==
    ASSUME ShareInv, NEW r \in SH!Ranks, SH!HandOn(r) PROVE ShareInv'
<1>1. /\ share_pc[r] = "hand_on"
      /\ share_pc' = [share_pc EXCEPT ![r] = "done"]
      /\ flag' = (flag + 1) % p
      /\ UNCHANGED <<program, n, p, share_team>> /\ UNCHANGED <<total, loaded, mutex, sent, next, share_c>>
  BY DEF SH!HandOn, SH!Goto, SH!NextFlag
<1>2. program.how = "turn"
  <2>1. program.how # "loop"
    BY <1>1 DEF ShareInv, LoopInv
  <2> QED
    BY <1>1, <2>1 DEF ShareInv, PartsInv
<1>3. /\ SH!TypeOK /\ PartsInv /\ ShareSizes
      /\ SH!Ranks = 0 .. p - 1 /\ p \in Nat \ {0}
  BY <1>2, PartsFacts
<1>4. /\ SH!Ranks' = SH!Ranks /\ ShareKinds' /\ ShareSizes'
      /\ \A k : Weight(k)' = Weight(k)
      /\ program' = program /\ n' = n /\ p' = p
  BY <1>1, SameShares DEF ShareInv
<1>5. /\ share_pc' \in [SH!Ranks -> SH!Locations] /\ share_pc'[r] = "done"
      /\ \A s \in SH!Ranks : s # r => share_pc'[s] = share_pc[s]
  BY <1>1, <1>3 DEF SH!TypeOK, SH!Locations
<1>6. flag' \in SH!Ranks
  <2>1. flag \in 0 .. p - 1 BY <1>3 DEF SH!TypeOK
  <2>2. PICK d \in Nat : d = flag + 1 BY <1>3, <2>1
  <2>3. d % p \in 0 .. p - 1 BY <1>3
  <2> QED BY <1>1, <1>3, <2>2, <2>3
<1>7. SH!TypeOK'
  BY <1>1, <1>3, <1>4, <1>5, <1>6 DEF SH!TypeOK
<1>8. Added' = Added
  BY <1>1, <1>2, <1>4, <1>5 DEF Added
<1>9. PartsInv'
  <2>1. \A s \in SH!Ranks : share_pc'[s] \notin {"adding", "hand_on"}
    BY <1>1, <1>2, <1>3, <1>5 DEF PartsInv
  <2> QED
    BY <1>1, <1>2, <1>3, <1>4, <1>8, <2>1 DEF PartsInv
<1>10. CollectiveInv'
  BY <1>1, <1>2, <1>5, CollectiveKept
<1> QED
  BY <1>2, <1>4, <1>7, <1>9, <1>10 DEF ShareInv

(* A part is on its way. *)
LEMMA SendStep ==
    ASSUME ShareInv, NEW r \in SH!Ranks, SH!Send(r) PROVE ShareInv'
<1>1. /\ program.how \in {"receive", "reduce"} /\ r # 0 /\ share_pc[r] = "combine"
      /\ share_pc' = [share_pc EXCEPT ![r] = SH!AfterReduce]
      /\ sent' = sent \cup {r}
      /\ UNCHANGED <<program, n, p, share_team>>
      /\ UNCHANGED <<total, loaded, mutex, flag, next, share_c>>
  BY DEF SH!Send, SH!Goto
<1>2. SH!TypeOK /\ PartsInv /\ 0 \in SH!Ranks
  BY <1>1, PartsFacts
<1>3. /\ SH!Ranks' = SH!Ranks /\ ShareKinds' /\ ShareSizes'
      /\ \A k : Weight(k)' = Weight(k)
      /\ program' = program /\ n' = n /\ p' = p
  BY <1>1, SameShares DEF ShareInv
<1>4. /\ share_pc' \in [SH!Ranks -> SH!Locations]
      /\ share_pc'[r] = IF program = SH!collective THEN "bcast" ELSE "done"
      /\ \A s \in SH!Ranks : s # r => share_pc'[s] = share_pc[s]
  BY <1>1, <1>2 DEF SH!TypeOK, SH!Locations, SH!AfterReduce
<1>5. SH!TypeOK'
  BY <1>1, <1>2, <1>3, <1>4 DEF SH!TypeOK
<1>6. share_pc'[0] = share_pc[0]
  BY <1>1, <1>2, <1>4
<1>7. Added' = Added
  BY <1>1, <1>3, <1>6 DEF Added
<1>8. PartsInv'
  <2>1. \A s \in SH!Ranks : share_pc'[s] \notin {"adding", "hand_on"}
    BY <1>1, <1>2, <1>4 DEF PartsInv
  <2> QED
    BY <1>1, <1>2, <1>3, <1>6, <1>7, <2>1 DEF PartsInv
<1>9. CollectiveInv'
  <2>1. CollectiveInv
    BY DEF ShareInv
  <2>2. ASSUME NEW s \in SH!Ranks
        PROVE  /\ share_pc'[s] \in {"bcast", "allreduce"} => program = SH!collective
               /\ program = SH!collective =>
                     /\ share_pc'[0] = "bcast" => share_c[0] = 2
                     /\ share_pc'[s] \in {"allreduce", "done"} =>
                           share_c[s] = 2 /\ s # r
                     /\ share_pc'[s] = "done" =>
                           \A k \in SH!Points : loaded[s][k] = SumOf(Weight(k), SH!Ranks)
    BY <1>4, <1>6, <2>1 DEF CollectiveInv
  <2> QED
    BY <1>1, <1>3, <2>2 DEF CollectiveInv
<1> QED
  BY <1>1, <1>3, <1>5, <1>8, <1>9 DEF ShareInv

LEMMA ReceiveStep == ASSUME ShareInv, SH!Receive PROVE ShareInv'
<1>1. /\ program.how = "receive" /\ share_pc[0] = "combine" /\ next < p
      /\ total' = SH!Plus(total, SH!my_sum(next))
      /\ next' = next + 1
      /\ UNCHANGED <<program, n, p, share_team>>
      /\ UNCHANGED <<loaded, mutex, flag, sent, share_pc, share_c>>
  BY DEF SH!Receive
<1>2. /\ SH!TypeOK /\ PartsInv /\ ShareKinds /\ ShareSizes /\ Added \in SUBSET SH!Ranks
      /\ SH!Ranks = 0 .. p - 1 /\ p \in Nat \ {0}
  BY <1>1, PartsFacts
<1>3. /\ SH!Ranks' = SH!Ranks /\ ShareKinds' /\ ShareSizes'
      /\ \A k : Weight(k)' = Weight(k)
      /\ program' = program /\ n' = n /\ p' = p
  BY <1>1, SameShares DEF ShareInv
<1>4. next \in 1 .. p - 1 /\ next' \in 1 .. p /\ p \in 1 .. MaxRanks
      /\ MaxTerms \in Nat /\ MaxRanks \in Nat
  <2>1. next \in 1 .. p
    BY <1>1, <1>2 DEF PartsInv
  <2>2. p \in 1 .. MaxRanks
    BY <1>2 DEF ShareSizes
  <2>3. MaxTerms \in Nat /\ MaxRanks \in Nat
    BY BoundsAssumption
  <2> QED
    BY <1>1, <2>1, <2>2, <2>3
<1>5. /\ Added = 0 .. next - 1 /\ Added' = 0 .. next' - 1
  BY <1>1, <1>3 DEF Added
<1>6. next \in SH!Ranks \ Added /\ Added' = Added \cup {next}
  BY <1>1, <1>2, <1>4, <1>5
<1>7. /\ \A k \in SH!Points : total'[k] = SumOf(Weight(k), Added \cup {next})
      /\ total' \in SH!Sums
  <2>1. \A k \in SH!Points : total[k] = SumOf(Weight(k), Added)
    BY <1>2 DEF PartsInv
  <2>2. PICK S, f, r : S = Added /\ f = total /\ r = next
    OBVIOUS
  <2>3. /\ S \in SUBSET SH!Ranks /\ r \in SH!Ranks \ S
        /\ \A k \in SH!Points : f[k] = SumOf(Weight(k), S)
    BY <1>2, <1>6, <2>1, <2>2
  <2>4. /\ \A k \in SH!Points :
              SH!Plus(f, SH!my_sum(r))[k] = SumOf(Weight(k), S \cup {r})
        /\ SH!Plus(f, SH!my_sum(r)) \in SH!Sums
    BY <1>1, <1>2, <2>3, AddPart
  <2> QED
    BY <1>1, <2>2, <2>4
<1>8. SH!TypeOK'
  <2>1. next' \in 0 .. MaxTerms + MaxRanks
    BY <1>4
  <2> QED
    BY <1>1, <1>2, <1>3, <1>7, <2>1 DEF SH!TypeOK
<1>9. PartsInv'
  <2>1. \A s \in SH!Ranks : share_pc'[s] \notin {"adding", "hand_on"}
    BY <1>1, <1>2 DEF PartsInv
  <2>2. \A k \in SH!Points : total'[k] = SumOf(Weight(k)', Added')
    BY <1>3, <1>6, <1>7
  <2> QED
    BY <1>1, <1>3, <1>4, <2>1, <2>2 DEF PartsInv
<1>10. CollectiveInv'
  BY <1>1, CollectiveKept
<1> QED
  BY <1>1, <1>3, <1>8, <1>9, <1>10 DEF ShareInv

LEMMA ReceivedAllStep == ASSUME ShareInv, SH!ReceivedAll PROVE ShareInv'
<1>1. /\ program.how = "receive" /\ share_pc[0] = "combine" /\ next = p
      /\ share_pc' = [share_pc EXCEPT ![0] = "done"]
      /\ UNCHANGED <<program, n, p, share_team>>
      /\ UNCHANGED <<total, loaded, mutex, flag, sent, next, share_c>>
  BY DEF SH!ReceivedAll, SH!Goto
<1>2. SH!TypeOK /\ PartsInv /\ 0 \in SH!Ranks
  BY <1>1, PartsFacts
<1>3. /\ SH!Ranks' = SH!Ranks /\ ShareKinds' /\ ShareSizes'
      /\ \A k : Weight(k)' = Weight(k)
      /\ program' = program /\ n' = n /\ p' = p
  BY <1>1, SameShares DEF ShareInv
<1>4. /\ share_pc' \in [SH!Ranks -> SH!Locations] /\ share_pc'[0] = "done"
      /\ \A s \in SH!Ranks : s # 0 => share_pc'[s] = share_pc[s]
  BY <1>1, <1>2 DEF SH!TypeOK, SH!Locations
<1>5. SH!TypeOK'
  BY <1>1, <1>2, <1>3, <1>4 DEF SH!TypeOK
<1>6. Added' = Added
  BY <1>1, <1>3 DEF Added
<1>7. PartsInv'
  <2>1. \A s \in SH!Ranks : share_pc'[s] \notin {"adding", "hand_on"}
    BY <1>1, <1>2, <1>4 DEF PartsInv
  <2> QED
    BY <1>1, <1>2, <1>3, <1>6, <2>1 DEF PartsInv
<1>8. CollectiveInv'
  BY <1>1, <1>4, CollectiveKept
<1> QED
  BY <1>1, <1>3, <1>5, <1>7, <1>8 DEF ShareInv

(* What MapThenSumSet adds up are the parts of all ranks. *)
LEMMA ReduceIs ==
    ASSUME ShareKinds, ShareSizes, program.how # "loop", NEW k \in SH!Points
    PROVE  SH!Reduced(SH!Ranks)[k] = SumOf(Weight(k), SH!Ranks)
<1> DEFINE Sums(f) ==
               f = [s \in SUBSET SH!Ranks |->
                       IF s = {} THEN 0
                       ELSE SH!my_sum(CHOOSE x \in s : TRUE)[k]
                            + f[s \ {CHOOSE x \in s : TRUE}]]
<1>1. SH!Reduced(SH!Ranks)[k] = (CHOOSE f : Sums(f))[SH!Ranks]
  BY DEF SH!Reduced, SH!MapThenSumSet, SH!MapThenFoldSet
<1>2. PICK g, T : g = Weight(k) /\ T = SH!Ranks
  OBVIOUS
<1>3. \A f : Sums(f) <=> Adds(f, g, T)
  <2>1. \A s \in SUBSET SH!Ranks :
           s # {} => g[CHOOSE x \in s : TRUE] = SH!my_sum(CHOOSE x \in s : TRUE)[k]
    <3> SUFFICES ASSUME NEW s \in SUBSET SH!Ranks, s # {}
                 PROVE  g[CHOOSE x \in s : TRUE] = SH!my_sum(CHOOSE x \in s : TRUE)[k]
      OBVIOUS
    <3>1. PICK y : y = CHOOSE x \in s : TRUE
      OBVIOUS
    <3>2. y \in SH!Ranks
      BY <3>1
    <3>3. g[y] = SH!my_sum(y)[k]
      BY <1>2, <3>2 DEF Weight
    <3> QED
      BY <3>1, <3>3
  <2>2. ASSUME NEW f
        PROVE  [s \in SUBSET SH!Ranks |->
                   IF s = {} THEN 0
                   ELSE SH!my_sum(CHOOSE x \in s : TRUE)[k]
                        + f[s \ {CHOOSE x \in s : TRUE}]]
               = [s \in SUBSET T |->
                     IF s = {} THEN 0
                     ELSE g[CHOOSE x \in s : TRUE] + f[s \ {CHOOSE x \in s : TRUE}]]
    BY <1>2, <2>1
  <2> SUFFICES ASSUME NEW f PROVE Sums(f) <=> Adds(f, g, T)
    OBVIOUS
  <2>3. PICK d : d = [s \in SUBSET SH!Ranks |->
                         IF s = {} THEN 0
                         ELSE SH!my_sum(CHOOSE x \in s : TRUE)[k]
                              + f[s \ {CHOOSE x \in s : TRUE}]]
    OBVIOUS
  <2>4. Sums(f) <=> f = d
    BY <2>3
  <2>5. PICK e : e = [s \in SUBSET T |->
                         IF s = {} THEN 0
                         ELSE g[CHOOSE x \in s : TRUE] + f[s \ {CHOOSE x \in s : TRUE}]]
    OBVIOUS
  <2> HIDE DEF Sums
  <2>6. Adds(f, g, T) <=> f = e
    BY <2>5, Zenon DEF Adds
  <2>7. d = e
    BY <2>2, <2>3, <2>5, Zenon
  <2> QED
    BY <2>4, <2>6, <2>7
<1>4. IsFiniteSet(T) /\ g \in [T -> 0 .. 2]
  BY <1>2, RanksAre, WeightType
<1>5. PICK h : h = [s \in SUBSET T |-> SumOf(g, s)]
  OBVIOUS
<1>6. Adds(h, g, T)
  BY <1>4, <1>5, SumsAdd
<1> HIDE DEF Sums
<1>7. Sums(CHOOSE f : Sums(f))
  BY <1>3, <1>6
<1>8. PICK c : c = CHOOSE f : Sums(f)
  OBVIOUS
<1>9. Adds(c, g, T)
  BY <1>3, <1>7, <1>8
<1>10. c = h
  BY <1>4, <1>6, <1>9, SumsUnique
<1> QED
  BY <1>1, <1>2, <1>5, <1>8, <1>10

(* So the sum of all parts is one that the type allows. *)
LEMMA ReducedType ==
    ASSUME ShareKinds, ShareSizes, program.how # "loop"
    PROVE  SH!Reduced(SH!Ranks) \in SH!Sums
<1>1. SH!Reduced(SH!Ranks) = [k \in SH!Points |-> SH!Reduced(SH!Ranks)[k]]
  BY DEF SH!Reduced
<1>2. \A k \in SH!Points : SH!Reduced(SH!Ranks)[k] \in 0 .. 2 * (MaxRanks + 1)
  <2> SUFFICES ASSUME NEW k \in SH!Points
               PROVE  SH!Reduced(SH!Ranks)[k] \in 0 .. 2 * (MaxRanks + 1)
    OBVIOUS
  <2>1. SumOf(Weight(k), SH!Ranks) \in 0 .. 2 * (MaxRanks + 1)
    BY PartsBounded
  <2> QED
    BY <2>1, ReduceIs
<1> QED
  BY <1>1, <1>2 DEF SH!Sums

LEMMA ReduceStep == ASSUME ShareInv, SH!Reduce PROVE ShareInv'
<1>1. /\ program.how = "reduce" /\ share_pc[0] = "combine"
      /\ sent = SH!Ranks \ {0} /\ total' = SH!Reduced(sent \cup {0})
      /\ share_pc' = [share_pc EXCEPT ![0] = SH!AfterReduce]
      /\ share_c' = IF program = SH!collective THEN [share_c EXCEPT ![0] = 2] ELSE share_c
      /\ UNCHANGED <<program, n, p, share_team>>
      /\ UNCHANGED <<loaded, mutex, flag, sent, next>>
  BY DEF SH!Reduce, SH!Goto
<1>2. SH!TypeOK /\ PartsInv /\ ShareKinds /\ ShareSizes /\ 0 \in SH!Ranks
  BY <1>1, PartsFacts
<1>3. /\ SH!Ranks' = SH!Ranks /\ ShareKinds' /\ ShareSizes'
      /\ \A k : Weight(k)' = Weight(k)
      /\ program' = program /\ n' = n /\ p' = p
  BY <1>1, SameShares DEF ShareInv
<1>4. /\ share_pc' \in [SH!Ranks -> SH!Locations]
      /\ share_pc'[0] = IF program = SH!collective THEN "bcast" ELSE "done"
      /\ \A s \in SH!Ranks : s # 0 => share_pc'[s] = share_pc[s]
  BY <1>1, <1>2 DEF SH!TypeOK, SH!Locations, SH!AfterReduce
<1>5. total' = SH!Reduced(SH!Ranks)
  <2>1. sent \cup {0} = SH!Ranks
    BY <1>1, <1>2
  <2> QED
    BY <1>1, <2>1
<1>6. \A k \in SH!Points : total'[k] = SumOf(Weight(k), SH!Ranks)
  BY <1>1, <1>2, <1>5, ReduceIs
<1>7. /\ share_c' \in [SH!Ranks -> {SH!Unset, 2}]
      /\ program = SH!collective => share_c'[0] = 2
      /\ \A s \in SH!Ranks : s # 0 => share_c'[s] = share_c[s]
  BY <1>1, <1>2 DEF SH!TypeOK
<1>8. SH!TypeOK'
  <2>1. total' \in SH!Sums
    BY <1>1, <1>2, <1>5, ReducedType
  <2> QED
    BY <1>1, <1>2, <1>3, <1>4, <1>7, <2>1 DEF SH!TypeOK
<1>9. Added' = SH!Ranks
  <2>1. share_pc'[0] # "combine"
    BY <1>4
  <2> QED
    BY <1>1, <1>3, <2>1 DEF Added
<1>10. PartsInv'
  <2>1. \A s \in SH!Ranks : share_pc'[s] \notin {"adding", "hand_on"}
    BY <1>1, <1>2, <1>4 DEF PartsInv
  <2>2. \A k \in SH!Points : total'[k] = SumOf(Weight(k)', Added')
    BY <1>3, <1>6, <1>9
  <2> QED
    BY <1>1, <1>3, <2>1, <2>2 DEF PartsInv
<1>11. CollectiveInv'
  <2>1. CollectiveInv
    BY DEF ShareInv
  <2>2. ASSUME NEW s \in SH!Ranks
        PROVE  /\ share_pc'[s] \in {"bcast", "allreduce"} => program = SH!collective
               /\ program = SH!collective =>
                     /\ share_pc'[0] = "bcast" => share_c'[0] = 2
                     /\ share_pc'[s] \in {"allreduce", "done"} => share_c'[s] = 2
                     /\ share_pc'[s] = "done" =>
                           \A k \in SH!Points : loaded[s][k] = SumOf(Weight(k), SH!Ranks)
    BY <1>4, <1>7, <2>1 DEF CollectiveInv
  <2> QED
    BY <1>1, <1>3, <2>2 DEF CollectiveInv
<1> QED
  BY <1>1, <1>3, <1>8, <1>10, <1>11 DEF ShareInv

(* What the steps after it need: none of them is taken by another program, and   *)
(* none changes the sum of rank 0.                                               *)
LEMMA CollectiveFacts ==
    ASSUME ShareInv, NEW r \in SH!Ranks, share_pc[r] \in {"bcast", "allreduce"}
    PROVE  /\ program = SH!collective /\ program.how = "reduce"
           /\ SH!TypeOK /\ PartsInv /\ ShareKinds /\ ShareSizes /\ CollectiveInv
           /\ 0 \in SH!Ranks
<1>1. program = SH!collective /\ ShareKinds
  BY DEF ShareInv, CollectiveInv
<1>2. program.how = "reduce"
  BY <1>1 DEF ShareKinds
<1> QED
  BY <1>1, <1>2, PartsFacts DEF ShareInv

LEMMA PartsKept ==
    ASSUME ShareInv, program.how = "reduce",
           UNCHANGED <<program, n, p, share_team>>, UNCHANGED <<total, next>>,
           share_pc'[0] = "combine" <=> share_pc[0] = "combine",
           \A r \in SH!Ranks : share_pc'[r] \in {"adding", "hand_on"} => share_pc'[r] = share_pc[r]
    PROVE  PartsInv'
<1>1. PartsInv
  BY DEF ShareInv
<1>2. SH!Ranks' = SH!Ranks /\ \A k : Weight(k)' = Weight(k) /\ program' = program
  BY SameShares
<1>3. Added' = Added
  BY <1>2 DEF Added
<1>4. \A r \in SH!Ranks : share_pc'[r] \notin {"adding", "hand_on"}
  BY <1>1 DEF PartsInv
<1>5. \A k \in SH!Points : total'[k] = SumOf(Weight(k)', Added')
  BY <1>1, <1>2, <1>3 DEF PartsInv
<1> QED
  BY <1>2, <1>4, <1>5 DEF PartsInv

LEMMA BcastStep ==
    ASSUME ShareInv, NEW r \in SH!Ranks, SH!Bcast(r) PROVE ShareInv'
<1>1. /\ r # 0 => share_pc[0] \in {"allreduce", "done"}
      /\ share_pc[r] = "bcast"
      /\ share_pc' = [share_pc EXCEPT ![r] = "allreduce"]
      /\ share_c' = [share_c EXCEPT ![r] = share_c[0]]
      /\ UNCHANGED <<program, n, p, share_team>>
      /\ UNCHANGED <<total, loaded, mutex, flag, sent, next>>
  BY DEF SH!Bcast, SH!FromRoot, SH!Joined, SH!Goto
<1>2. /\ program = SH!collective /\ program.how = "reduce"
      /\ SH!TypeOK /\ PartsInv /\ CollectiveInv /\ 0 \in SH!Ranks
  BY <1>1, CollectiveFacts
<1>3. /\ SH!Ranks' = SH!Ranks /\ ShareKinds' /\ ShareSizes'
      /\ \A k : Weight(k)' = Weight(k)
      /\ program' = program /\ n' = n /\ p' = p
  BY <1>1, SameShares DEF ShareInv
<1>4. /\ share_pc' \in [SH!Ranks -> SH!Locations] /\ share_pc'[r] = "allreduce"
      /\ \A s \in SH!Ranks : s # r => share_pc'[s] = share_pc[s]
  BY <1>1, <1>2 DEF SH!TypeOK, SH!Locations
<1>5. share_c[0] = 2
  BY <1>1, <1>2 DEF CollectiveInv
<1>6. /\ share_c' \in [SH!Ranks -> {SH!Unset, 2}] /\ share_c'[r] = 2
      /\ \A s \in SH!Ranks : s # r => share_c'[s] = share_c[s]
  BY <1>1, <1>2, <1>5 DEF SH!TypeOK
<1>7. SH!TypeOK'
  BY <1>1, <1>2, <1>3, <1>4, <1>6 DEF SH!TypeOK
<1>8. PartsInv'
  <2>1. /\ share_pc'[0] = "combine" <=> share_pc[0] = "combine"
        /\ \A s \in SH!Ranks :
              share_pc'[s] \in {"adding", "hand_on"} => share_pc'[s] = share_pc[s]
    BY <1>1, <1>2, <1>4
  <2> QED
    BY <1>1, <1>2, <2>1, PartsKept
<1>9. CollectiveInv'
  <2>1. ASSUME NEW s \in SH!Ranks
        PROVE  /\ share_pc'[0] = "bcast" => share_c'[0] = 2
               /\ share_pc'[s] \in {"allreduce", "done"} => share_c'[s] = 2
               /\ share_pc'[s] = "done" =>
                     \A k \in SH!Points : loaded[s][k] = SumOf(Weight(k), SH!Ranks)
    BY <1>2, <1>4, <1>5, <1>6 DEF CollectiveInv
  <2> QED
    BY <1>1, <1>2, <1>3, <2>1 DEF CollectiveInv
<1> QED
  BY <1>2, <1>3, <1>7, <1>8, <1>9 DEF ShareInv

LEMMA AllreduceStep ==
    ASSUME ShareInv, NEW r \in SH!Ranks, SH!Allreduce(r) PROVE ShareInv'
<1>1. /\ SH!Joined = SH!Ranks /\ share_pc[r] = "allreduce"
      /\ share_pc' = [share_pc EXCEPT ![r] = "done"]
      /\ loaded' = [loaded EXCEPT ![r] = SH!Reduced(SH!Ranks)]
      /\ UNCHANGED <<program, n, p, share_team>>
      /\ UNCHANGED <<total, mutex, flag, sent, next, share_c>>
  BY DEF SH!Allreduce, SH!Goto
<1>2. /\ program = SH!collective /\ program.how = "reduce"
      /\ SH!TypeOK /\ PartsInv /\ ShareKinds /\ ShareSizes /\ CollectiveInv
      /\ 0 \in SH!Ranks
  BY <1>1, CollectiveFacts
<1>3. /\ SH!Ranks' = SH!Ranks /\ ShareKinds' /\ ShareSizes'
      /\ \A k : Weight(k)' = Weight(k)
      /\ program' = program /\ n' = n /\ p' = p
  BY <1>1, SameShares DEF ShareInv
<1>4. /\ share_pc' \in [SH!Ranks -> SH!Locations] /\ share_pc'[r] = "done"
      /\ \A s \in SH!Ranks : s # r => share_pc'[s] = share_pc[s]
  BY <1>1, <1>2 DEF SH!TypeOK, SH!Locations
<1>5. /\ loaded' \in [SH!Ranks -> SH!Sums] /\ loaded'[r] = SH!Reduced(SH!Ranks)
      /\ \A s \in SH!Ranks : s # r => loaded'[s] = loaded[s]
  <2>1. SH!Reduced(SH!Ranks) \in SH!Sums
    BY <1>2, ReducedType
  <2> QED
    BY <1>1, <1>2, <2>1 DEF SH!TypeOK
<1>6. SH!TypeOK'
  BY <1>1, <1>2, <1>3, <1>4, <1>5 DEF SH!TypeOK
<1>7. PartsInv'
  <2>1. /\ share_pc'[0] = "combine" <=> share_pc[0] = "combine"
        /\ \A s \in SH!Ranks :
              share_pc'[s] \in {"adding", "hand_on"} => share_pc'[s] = share_pc[s]
    BY <1>1, <1>2, <1>4
  <2> QED
    BY <1>1, <1>2, <2>1, PartsKept
<1>8. CollectiveInv'
  <2>1. \A k \in SH!Points : loaded'[r][k] = SumOf(Weight(k), SH!Ranks)
    BY <1>2, <1>5, ReduceIs
  <2>2. ASSUME NEW s \in SH!Ranks
        PROVE  /\ share_pc'[0] = "bcast" => share_c[0] = 2
               /\ share_pc'[s] \in {"allreduce", "done"} => share_c[s] = 2
               /\ share_pc'[s] = "done" =>
                     \A k \in SH!Points : loaded'[s][k] = SumOf(Weight(k), SH!Ranks)
    BY <1>1, <1>2, <1>4, <1>5, <2>1 DEF CollectiveInv
  <2> QED
    BY <1>1, <1>2, <1>3, <2>2 DEF CollectiveInv
<1> QED
  BY <1>2, <1>3, <1>6, <1>7, <1>8 DEF ShareInv

--------------------------------------------------------------------------------
(* What the steps of the loops need. *)
LEMMA LoopFacts ==
    ASSUME ShareInv, program.how = "loop"
    PROVE  /\ SH!TypeOK /\ ShareKinds /\ ShareSizes /\ LoopInv
           /\ 0 \in SH!Ranks /\ n \in Nat /\ next \in Nat /\ MaxTerms \in Nat /\ n <= MaxTerms
           /\ once \in 1 .. 2 /\ start \in 0 .. 1
           /\ \A k \in SH!Points : Base[k] \in 0 .. 2
<1>1. SH!TypeOK /\ ShareKinds /\ ShareSizes /\ LoopInv
  BY DEF ShareInv
<1>2. MaxTerms \in Nat /\ MaxRanks \in Nat
  BY BoundsAssumption
<1>3. n \in 0 .. MaxTerms /\ next \in 0 .. MaxTerms + MaxRanks
  BY <1>1 DEF SH!TypeOK
<1>4. 0 \in SH!Ranks
  BY <1>1, RanksAre
<1>5. \A k \in SH!Points : Base[k] \in 0 .. 2
  BY DEF Base, SH!Ends, SH!Zero, SH!one
<1>6. once \in 1 .. 2 /\ start \in 0 .. 1
  BY DEF once, start
<1> QED
  BY <1>1, <1>2, <1>3, <1>4, <1>5, <1>6

LEMMA IterateStep ==
    ASSUME ShareInv, NEW r \in SH!Ranks, SH!Iterate(r) PROVE ShareInv'
<1>1. /\ program.how = "loop" /\ share_pc[r] = "combine" /\ next < n
      /\ loaded' = [loaded EXCEPT ![r][next] = once]
      /\ next' = next + 1
      /\ UNCHANGED <<program, n, p, share_team>>
      /\ UNCHANGED <<total, mutex, flag, sent, share_pc, share_c>>
  BY DEF SH!Iterate, once
<1>2. /\ SH!TypeOK /\ LoopInv /\ n \in Nat /\ next \in Nat
      /\ MaxTerms \in Nat /\ n <= MaxTerms /\ once \in 1 .. 2 /\ start \in 0 .. 1
  BY <1>1, LoopFacts
<1>3. /\ SH!Ranks' = SH!Ranks /\ ShareKinds' /\ ShareSizes'
      /\ program' = program /\ n' = n /\ p' = p
      /\ start' = start /\ once' = once /\ Base' = Base
  BY <1>1, SameShares DEF ShareInv
<1>4. next \in SH!Points /\ MaxRanks \in Nat \ {0}
  BY <1>1, <1>2, BoundsAssumption DEF SH!Points
<1>5. once \in 0 .. 2 * (MaxRanks + 1)
  BY <1>2, <1>4
<1>6. loaded \in [SH!Ranks -> [SH!Points -> 0 .. 2 * (MaxRanks + 1)]]
  BY <1>2 DEF SH!TypeOK, SH!Sums
<1>7. /\ loaded' \in [SH!Ranks -> SH!Sums]
      /\ \A x \in SH!Ranks, k \in SH!Points :
            loaded'[x][k] = IF x = r /\ k = next THEN once ELSE loaded[x][k]
  BY <1>1, <1>4, <1>5, <1>6 DEF SH!Sums
<1>8. next' \in 0 .. MaxTerms + MaxRanks
  BY <1>1, <1>2, <1>4
<1>9. SH!TypeOK'
  BY <1>1, <1>2, <1>3, <1>7, <1>8 DEF SH!TypeOK
<1>10. \A x \in SH!Ranks : share_pc[x] = "combine"
  BY <1>1, <1>2 DEF LoopInv
<1>11. \A x \in SH!Ranks : loaded[x][next] = 0
  BY <1>2, <1>4 DEF LoopInv
<1>12. ASSUME NEW k \in SH!Points
       PROVE  /\ \A x \in SH!Ranks : loaded'[x][k] \in {0, once}
              /\ (\E x \in SH!Ranks : loaded'[x][k] # 0) <=> start <= k /\ k < next'
              /\ \A x, y \in SH!Ranks :
                    loaded'[x][k] # 0 /\ loaded'[y][k] # 0 => x = y
  <2>1. k \in Nat BY <1>2 DEF SH!Points
  <2>2. /\ \A x \in SH!Ranks : loaded[x][k] \in {0, once}
        /\ (\E x \in SH!Ranks : loaded[x][k] # 0) <=> start <= k /\ k < next
        /\ \A x, y \in SH!Ranks : loaded[x][k] # 0 /\ loaded[y][k] # 0 => x = y
        /\ start <= next
    BY <1>2 DEF LoopInv
  <2>3. CASE k = next
    <3>1. \A x \in SH!Ranks : loaded'[x][k] = IF x = r THEN once ELSE 0
      BY <1>7, <1>11, <2>3
    <3>2. start <= k /\ k < next'
      BY <1>1, <1>2, <2>2, <2>3
    <3>3. once # 0
      BY <1>2
    <3> QED
      BY <3>1, <3>2, <3>3
  <2>4. CASE k # next
    <3>1. \A x \in SH!Ranks : loaded'[x][k] = loaded[x][k]
      BY <1>7, <2>4
    <3>2. k < next' <=> k < next
      BY <1>1, <1>2, <2>1, <2>4
    <3> QED
      BY <2>2, <3>1, <3>2
  <2> QED
    BY <2>3, <2>4
<1>13. LoopInv'
  <2>1. start <= next' /\ next' <= n
    BY <1>1, <1>2 DEF LoopInv
  <2>2. \A k \in SH!Points : total[k] = Base[k] + 0
    BY <1>2, <1>10 DEF LoopInv
  <2>3. \A k \in SH!Points :
            total'[k] = Base'[k]
                        + IF \E x \in SH!Ranks' : share_pc'[x] = "done" /\ loaded'[x][k] # 0
                          THEN once' ELSE 0
    BY <1>1, <1>3, <1>10, <2>2
  <2>4. \A x \in SH!Ranks : share_pc'[x] = "combine"
    BY <1>1, <1>10
  <2> QED
    BY <1>3, <1>12, <2>1, <2>3, <2>4 DEF LoopInv
<1>14. CollectiveInv'
  BY <1>1, CollectiveKept
<1> QED
  BY <1>1, <1>3, <1>9, <1>13, <1>14 DEF ShareInv

LEMMA CombineStep ==
    ASSUME ShareInv, NEW r \in SH!Ranks, SH!Combine(r) PROVE ShareInv'
<1>1. /\ program.how = "loop" /\ share_pc[r] = "combine" /\ next >= n
      /\ share_pc' = [share_pc EXCEPT ![r] = "done"]
      /\ total' = SH!Plus(total, loaded[r])
      /\ UNCHANGED <<program, n, p, share_team>>
      /\ UNCHANGED <<loaded, mutex, flag, sent, next, share_c>>
  BY DEF SH!Combine, SH!Goto
<1>2. /\ SH!TypeOK /\ LoopInv /\ n \in Nat /\ next \in Nat
      /\ once \in 1 .. 2 /\ \A k \in SH!Points : Base[k] \in 0 .. 2
  BY <1>1, LoopFacts
<1>3. /\ SH!Ranks' = SH!Ranks /\ ShareKinds' /\ ShareSizes'
      /\ program' = program /\ n' = n /\ p' = p
      /\ start' = start /\ once' = once /\ Base' = Base
  BY <1>1, SameShares DEF ShareInv
<1>4. next = n
  BY <1>1, <1>2 DEF LoopInv
<1>5. /\ share_pc' \in [SH!Ranks -> SH!Locations] /\ share_pc'[r] = "done"
      /\ \A x \in SH!Ranks : x # r => share_pc'[x] = share_pc[x]
  BY <1>1, <1>2 DEF SH!TypeOK, SH!Locations
<1>6. ASSUME NEW k \in SH!Points
      PROVE  /\ total'[k] = Base[k]
                            + IF \E x \in SH!Ranks : share_pc'[x] = "done" /\ loaded[x][k] # 0
                              THEN once ELSE 0
             /\ total'[k] \in 0 .. 4
  <2>1. /\ loaded[r][k] \in {0, once}
        /\ \A x, y \in SH!Ranks : loaded[x][k] # 0 /\ loaded[y][k] # 0 => x = y
        /\ total[k] = Base[k]
                      + IF \E x \in SH!Ranks : share_pc[x] = "done" /\ loaded[x][k] # 0
                        THEN once ELSE 0
    BY <1>2 DEF LoopInv
  <2>2. total'[k] = total[k] + loaded[r][k]
    BY <1>1 DEF SH!Plus
  <2>3. PICK b \in 0 .. 2, o \in 1 .. 2 : b = Base[k] /\ o = once
    BY <1>2
  <2>4. CASE loaded[r][k] = 0
    <3>1. (\E x \in SH!Ranks : share_pc'[x] = "done" /\ loaded[x][k] # 0)
          <=> (\E x \in SH!Ranks : share_pc[x] = "done" /\ loaded[x][k] # 0)
      BY <1>1, <1>5, <2>4
    <3>2. PICK c \in 0 .. 2 :
             /\ c = IF \E x \in SH!Ranks : share_pc[x] = "done" /\ loaded[x][k] # 0
                    THEN once ELSE 0
             /\ c = IF \E x \in SH!Ranks : share_pc'[x] = "done" /\ loaded[x][k] # 0
                    THEN once ELSE 0
      BY <2>3, <3>1
    <3>3. total[k] = b + c /\ loaded[r][k] = 0
      BY <2>1, <2>3, <2>4, <3>2
    <3>4. total'[k] = b + c /\ b + c \in 0 .. 4
      BY <2>2, <3>3
    <3> QED
      BY <2>3, <3>2, <3>4
  <2>5. CASE loaded[r][k] # 0
    <3>1. loaded[r][k] = o
      BY <2>1, <2>3, <2>5
    <3>2. ~ \E x \in SH!Ranks : share_pc[x] = "done" /\ loaded[x][k] # 0
      BY <1>1, <2>1, <2>5
    <3>3. \E x \in SH!Ranks : share_pc'[x] = "done" /\ loaded[x][k] # 0
      BY <1>5, <2>5
    <3>4. total[k] = b + 0
      BY <2>1, <2>3, <3>2
    <3>5. total'[k] = b + o /\ b + o \in 0 .. 4
      BY <2>2, <3>1, <3>4
    <3> QED
      BY <2>3, <3>3, <3>5
  <2> QED
    BY <2>4, <2>5
<1>7. total' \in SH!Sums
  <2>1. total' = [k \in SH!Points |-> total'[k]]
    BY <1>1 DEF SH!Plus
  <2>2. 0 .. 4 \subseteq 0 .. 2 * (MaxRanks + 1)
    <3>1. MaxRanks \in Nat /\ MaxRanks # 0 BY BoundsAssumption
    <3> QED BY <3>1
  <2> QED
    BY <1>6, <2>1, <2>2 DEF SH!Sums
<1>8. SH!TypeOK'
  BY <1>1, <1>2, <1>3, <1>5, <1>7 DEF SH!TypeOK
<1>9. LoopInv'
  <2>1. \A x \in SH!Ranks : /\ share_pc'[x] \in {"combine", "done"}
                            /\ share_pc'[x] = "done" => next' = n'
    BY <1>1, <1>2, <1>4, <1>5 DEF LoopInv
  <2>2. \A k \in SH!Points :
          total'[k] = Base'[k]
                      + IF \E x \in SH!Ranks' : share_pc'[x] = "done" /\ loaded'[x][k] # 0
                        THEN once' ELSE 0
    BY <1>1, <1>3, <1>6
  <2> QED
    BY <1>1, <1>2, <1>3, <2>1, <2>2 DEF LoopInv
<1>10. CollectiveInv'
  BY <1>1, <1>5, CollectiveKept
<1> QED
  BY <1>1, <1>3, <1>8, <1>9, <1>10 DEF ShareInv

--------------------------------------------------------------------------------
LEMMA ShareInvInit == SH!Init => ShareInv
<1> SUFFICES ASSUME SH!Init PROVE ShareInv
  OBVIOUS
<1>1. /\ program.adds # "terms" => n > 0
      /\ share_c = [r \in SH!Ranks |-> SH!Unset]
      /\ loaded = [r \in SH!Ranks |-> SH!Zero]
      /\ mutex = SH!Nobody /\ flag = 0 /\ sent = {}
      /\ next = IF program = SH!pi_reduction THEN 0 ELSE 1
      /\ share_pc = [r \in SH!Ranks |-> "combine"]
  BY DEF SH!Init
<1>2. total = CASE program.how = "receive" -> SH!my_sum(0)
                [] program = SH!parallel_for -> SH!Ends
                [] OTHER -> SH!Zero
  BY DEF SH!Init
<1>3. ShareKinds /\ ShareSizes /\ program \in SH!Programs
  <2>1. program \in SH!Programs
    BY DEF SH!Init
  <2>2. ShareSizes
    BY DEF SH!Init, ShareSizes
  <2> QED
    BY <2>1, <2>2, ProgramKinds
<1>4. /\ SH!Ranks = 0 .. share_team - 1 /\ 0 \in SH!Ranks /\ p \in Nat \ {0}
      /\ share_team \in Nat \ {0} /\ share_team <= p
      /\ MaxRanks \in Nat /\ MaxRanks # 0 /\ MaxTerms \in Nat
  BY <1>3, RanksAre, BoundsAssumption
<1>5. 0 .. 2 \subseteq 0 .. 2 * (MaxRanks + 1) /\ next \in 0 .. MaxTerms + MaxRanks
  <2>1. PICK t, m \in Nat : t = MaxTerms /\ m = MaxRanks /\ m # 0
    BY <1>4
  <2>2. /\ 0 .. 2 \subseteq 0 .. 2 * (m + 1)
        /\ 0 \in 0 .. t + m /\ 1 \in 0 .. t + m
    BY <2>1
  <2> QED
    BY <1>1, <2>1, <2>2
<1>6. /\ SH!Zero = [k \in SH!Points |-> 0]
      /\ \A k \in SH!Points : SH!Zero[k] = 0
      /\ SH!Zero \in SH!Sums
  <2>1. 0 \in 0 .. 2 * (MaxRanks + 1) BY <1>5
  <2> QED BY <2>1 DEF SH!Zero, SH!Sums
<1>7. /\ \A r \in SH!Ranks : share_pc[r] = "combine"
      /\ share_pc \in [SH!Ranks -> SH!Locations]
      /\ loaded \in [SH!Ranks -> SH!Sums]
      /\ \A r \in SH!Ranks : loaded[r] = SH!Zero
      /\ share_c \in [SH!Ranks -> {SH!Unset, 2}]
      /\ flag \in SH!Ranks /\ \A r \in SH!Ranks : mutex # r
  <2>1. share_pc \in [SH!Ranks -> SH!Locations] /\ \A r \in SH!Ranks : share_pc[r] = "combine"
    BY <1>1 DEF SH!Locations
  <2>2. loaded \in [SH!Ranks -> SH!Sums] /\ \A r \in SH!Ranks : loaded[r] = SH!Zero
    BY <1>1, <1>6
  <2>3. \A r \in SH!Ranks : SH!Nobody # r
    BY <1>4 DEF SH!Nobody
  <2>4. share_c \in [SH!Ranks -> {SH!Unset, 2}]
    BY <1>1
  <2> QED
    BY <1>1, <1>4, <2>1, <2>2, <2>3, <2>4
<1>8. CollectiveInv /\ (total \in SH!Sums => SH!TypeOK)
  <2>1. \A r \in SH!Ranks : share_pc[r] \notin {"bcast", "allreduce", "done"}
    BY <1>7
  <2>2. share_pc[0] # "bcast"
    BY <1>4, <2>1
  <2>3. CollectiveInv
    BY <2>1, <2>2 DEF CollectiveInv
  <2>4. mutex \in SH!Ranks \cup {SH!Nobody} /\ sent \subseteq SH!Ranks
    BY <1>1
  <2>5. total \in SH!Sums => SH!TypeOK
    <3>1. program \in SH!Programs /\ n \in 0 .. MaxTerms /\ p \in 1 .. MaxRanks
          /\ share_team \in 1 .. p
      BY <1>3 DEF ShareSizes
    <3> QED
      BY <1>5, <1>7, <2>4, <3>1 DEF SH!TypeOK
  <2> QED
    BY <2>3, <2>5
<1>9. CASE program.how = "loop"
  <2>1. total = Base
    BY <1>2, <1>9 DEF Base
  <2>2. Base = [k \in SH!Points |-> Base[k]] /\ \A k \in SH!Points : Base[k] \in 0 .. 2
    BY DEF Base, SH!Ends, SH!Zero, SH!one
  <2>3. total \in SH!Sums
    BY <1>5, <2>1, <2>2 DEF SH!Sums
  <2>4. start <= next /\ next <= n /\ next = start /\ start \in 0 .. 1 /\ n \in Nat
    <3>1. n \in Nat BY <1>3, SizesAre
    <3>2. CASE program = SH!pi_reduction
      <4>1. next = 0 /\ start = 0 BY <1>1, <3>2 DEF start
      <4> QED BY <3>1, <4>1
    <3>3. CASE program # SH!pi_reduction
      <4>1. n > 0 BY <1>1, <1>3, <1>9, <3>3 DEF ShareKinds
      <4>2. next = 1 /\ start = 1 BY <1>1, <3>3 DEF start
      <4> QED BY <3>1, <4>1, <4>2
    <3> QED BY <3>2, <3>3
  <2>5. \A k \in SH!Points : ~(start <= k /\ k < next)
    BY <1>4, <2>4 DEF SH!Points
  <2>6. \A k \in SH!Points : total[k] = Base[k] + 0
    BY <2>1, <2>2
  <2>7. \A r \in SH!Ranks, k \in SH!Points : loaded[r][k] = 0
    BY <1>6, <1>7
  <2>8. LoopInv
    BY <1>7, <2>4, <2>5, <2>6, <2>7 DEF LoopInv
  <2> QED
    BY <1>3, <1>8, <1>9, <2>3, <2>8 DEF ShareInv
<1>10. CASE program.how = "receive"
  <2>1. program # SH!pi_reduction /\ program # SH!parallel_for
    BY <1>3, <1>10 DEF ShareKinds
  <2>2. next = 1 /\ Added = {0} /\ total = SH!my_sum(0)
    <3>1. 0 .. 1 - 1 = {0} OBVIOUS
    <3> QED BY <1>1, <1>2, <1>10, <2>1, <3>1 DEF Added
  <2>3. \A k \in SH!Points : SH!Zero[k] = SumOf(Weight(k), {})
    BY <1>6, SumOfNone
  <2>4. PICK S, f : S = {} /\ f = SH!Zero
    OBVIOUS
  <2>5. S \in SUBSET SH!Ranks /\ 0 \in SH!Ranks \ S
        /\ \A k \in SH!Points : f[k] = SumOf(Weight(k), S)
    BY <1>4, <2>3, <2>4
  <2>6. \A k \in SH!Points :
           SH!Plus(f, SH!my_sum(0))[k] = SumOf(Weight(k), S \cup {0})
    BY <1>3, <1>10, <2>5, AddPart
  <2>7. ASSUME NEW k \in SH!Points
        PROVE  total[k] = SumOf(Weight(k), Added) /\ total[k] \in 0 .. 2
    <3>1. SH!my_sum(0)[k] \in 0 .. 2
      <4>1. 0 \in 0 .. p - 1 BY <1>4
      <4> QED BY <1>3, <1>10, <4>1, WeightIs
    <3>2. SH!Plus(f, SH!my_sum(0))[k] = 0 + SH!my_sum(0)[k]
      BY <1>6, <2>4 DEF SH!Plus
    <3>3. S \cup {0} = Added
      BY <2>2, <2>4
    <3> QED
      BY <2>2, <2>6, <3>1, <3>2, <3>3
  <2>8. total \in SH!Sums
    <3>1. total = [k \in SH!Points |-> total[k]]
      <4> DEFINE s == SH!Share(0)
                 Part(k) ==
                    CASE program.adds = "terms" -> SH!one(s.first <= k /\ k < s.last)
                      [] program.adds = "trapezoids" ->
                            SH!one(k = s.first) + SH!one(k = s.last)
                            + 2 * SH!one(s.first < k /\ k < s.last)
                      [] program.adds = "ends" -> SH!one(k = s.first) + SH!one(k = s.last)
      <4>1. SH!my_sum(0) = [k \in SH!Points |-> Part(k)]
        BY DEF SH!my_sum
      <4> HIDE DEF Part
      <4> QED
        BY <2>2, <4>1
    <3> QED
      BY <1>5, <2>7, <3>1 DEF SH!Sums
  <2>9. next \in 1 .. p
    BY <1>4, <2>2
  <2>10. PartsInv
    BY <1>4, <1>7, <1>10, <2>7, <2>9 DEF PartsInv
  <2> QED
    BY <1>3, <1>8, <1>10, <2>8, <2>10 DEF ShareInv
<1>11. CASE program.how \in {"lock", "turn", "reduce"}
  <2>1. total = SH!Zero
    BY <1>2, <1>3, <1>11 DEF ShareKinds
  <2>2. Added = {}
    BY <1>4, <1>7, <1>11 DEF Added
  <2>3. \A k \in SH!Points : total[k] = SumOf(Weight(k), Added)
    BY <1>6, <2>1, <2>2, SumOfNone
  <2>4. PartsInv
    BY <1>7, <1>11, <2>3 DEF PartsInv
  <2> QED
    BY <1>3, <1>6, <1>8, <1>11, <2>1, <2>4 DEF ShareInv
<1> QED
  BY <1>3, <1>9, <1>10, <1>11 DEF ShareKinds

LEMMA ShareInvStep == ASSUME ShareInv, [Next]_vars PROVE ShareInv'
<1>1. CASE ShareStep
  <2>1. SH!Next BY <1>1 DEF ShareStep
  <2>2. CASE \E r \in SH!Ranks : SH!RankStep(r)
    <3>1. PICK r \in SH!Ranks : SH!RankStep(r) BY <2>2
    <3> QED
      BY <3>1, LoadLockedStep, StoreLockedStep, LoadInTurnStep, StoreInTurnStep,
         HandOnStep, IterateStep, CombineStep, SendStep, BcastStep, AllreduceStep
         DEF SH!RankStep
  <2>3. CASE SH!RootStep
    BY <2>3, ReceiveStep, ReceivedAllStep, ReduceStep DEF SH!RootStep
  <2>4. CASE SH!Finished
    BY <2>4, ShareInvIdle DEF SH!Finished, SH!vars, shareVars
  <2> QED BY <2>1, <2>2, <2>3, <2>4 DEF SH!Next
<1>2. CASE UNCHANGED shareVars BY <1>2, ShareInvIdle
<1> QED
  BY <1>1, <1>2 DEF Next, SortStep, KernelStep, MatrixStep, vars

(* When all ranks are done, the sum is exact. *)
LEMMA ShareInvExact == ShareInv => SH!TypeOK /\ SH!SumExact
<1> SUFFICES ASSUME ShareInv PROVE SH!TypeOK /\ SH!SumExact
  OBVIOUS
<1>1. SH!TypeOK /\ ShareKinds /\ ShareSizes
  BY DEF ShareInv
<1> DEFINE Whole(k) == SH!Reference(k) + IF program.adds # "terms" /\ k = SH!reach
                                         THEN 2 * SH!idle ELSE 0
<1>0. SH!SumExact <=>
         (SH!AllDone =>
            /\ \A k \in SH!Points : total[k] = Whole(k)
            /\ program = SH!collective =>
                  \A r \in SH!Ranks :
                     share_c[r] = 2 /\ \A k \in SH!Points : loaded[r][k] = Whole(k))
  BY DEF SH!SumExact, SH!Exact
<1> HIDE DEF Whole
<1> SUFFICES ASSUME SH!AllDone, NEW k \in SH!Points
             PROVE  /\ total[k] = Whole(k)
                    /\ program = SH!collective =>
                          \A r \in SH!Ranks : share_c[r] = 2 /\ loaded[r][k] = Whole(k)
  <2>1. 0 \in SH!Points
    BY BoundsAssumption DEF SH!Points
  <2> QED
    BY <1>0, <1>1, <2>1
<1>2. \A r \in SH!Ranks : share_pc[r] = "done"
  BY DEF SH!AllDone
<1>3. CASE program.how # "loop"
  <2>1. /\ PartsInv /\ SH!Ranks = 0 .. share_team - 1 /\ 0 \in SH!Ranks
        /\ program.how # "lock" => share_team = p
    BY <1>3, PartsFacts
  <2>2. Added = SH!Ranks
    BY <1>2, <2>1 DEF Added, PartsInv
  <2>3. total[k] = SumOf(Weight(k), SH!Ranks)
    BY <2>1, <2>2 DEF PartsInv
  <2>4. SumOf(Weight(k), SH!Ranks) = Whole(k)
    BY <1>1, <1>3, AllParts DEF Whole
  <2>5. program = SH!collective =>
           \A r \in SH!Ranks : /\ share_c[r] = 2
                               /\ loaded[r][k] = SumOf(Weight(k), SH!Ranks)
    BY <1>2 DEF ShareInv, CollectiveInv
  <2> QED
    BY <2>3, <2>4, <2>5
<1>4. CASE program.how = "loop"
  <2>1. /\ LoopInv /\ 0 \in SH!Ranks /\ n \in Nat /\ MaxTerms \in Nat
        /\ once \in 1 .. 2 /\ start \in 0 .. 1 /\ Base[k] \in 0 .. 2
    BY <1>4, LoopFacts
  <2>2. next = n
    BY <1>2, <2>1 DEF LoopInv
  <2>3. /\ (\E r \in SH!Ranks : share_pc[r] = "done" /\ loaded[r][k] # 0)
           <=> start <= k /\ k < n
        /\ total[k] = Base[k]
                      + IF \E r \in SH!Ranks : share_pc[r] = "done" /\ loaded[r][k] # 0
                        THEN once ELSE 0
    BY <1>2, <2>1, <2>2 DEF LoopInv
  <2>4. total[k] = Base[k] + IF start <= k /\ k < n THEN once ELSE 0
    BY <2>3
  <2>5. program.share = "any" /\ SH!reach = n /\ SH!idle = 0
    <3>1. program.share = "any" /\ share_team = p
      BY <1>1, <1>4 DEF ShareKinds, ShareSizes
    <3>2. ~(share_team < p)
      BY <1>1, <3>1, SizesAre
    <3> QED
      BY <3>1, <3>2 DEF SH!reach, SH!idle
  <2>6. k \in Nat
    BY <2>1 DEF SH!Points
  <2>7. total[k] = SH!Reference(k) /\ SH!Reference(k) \in Nat
    <3>1. CASE program.adds = "terms"
      <4>1. program = SH!pi_reduction /\ program # SH!parallel_for
        BY <1>1, <1>4, <3>1 DEF ShareKinds
      <4>2. start = 0 /\ once = 1 /\ Base[k] = 0
        BY <3>1, <4>1 DEF start, once, Base, SH!Zero
      <4>3. SH!Reference(k) = SH!one(k < n)
        BY <2>5, <3>1 DEF SH!Reference
      <4> QED
        BY <2>1, <2>4, <2>6, <4>2, <4>3 DEF SH!one
    <3>2. CASE program.adds = "trapezoids"
      <4>1. program # SH!pi_reduction /\ program = SH!parallel_for /\ n > 0
        BY <1>1, <1>4, <3>2 DEF ShareKinds, ShareSizes
      <4>2. start = 1 /\ once = 2 /\ Base[k] = SH!one(k = 0) + SH!one(k = n)
        BY <3>2, <4>1 DEF start, once, Base, SH!Ends
      <4>3. SH!Reference(k) = IF n = 0 THEN 0
                              ELSE SH!one(k = 0) + SH!one(k = n)
                                   + 2 * SH!one(0 < k /\ k < n)
        BY <2>5, <3>2 DEF SH!Reference
      <4> QED
        BY <2>1, <2>4, <2>6, <4>1, <4>2, <4>3 DEF SH!one
    <3> QED
      BY <1>1, <1>4, <3>1, <3>2 DEF ShareKinds
  <2>8. program # SH!collective
    BY <1>1, <1>4 DEF ShareKinds
  <2> QED
    BY <2>5, <2>7, <2>8 DEF Whole
<1> QED
  BY <1>3, <1>4

(* Every sum and integral holds each of its parts exactly as often as one thread *)
(* would have added it, as far as the shares of the ranks that run reach, for    *)
(* every number of terms and of ranks, also when OpenMP grants fewer threads than *)
(* asked for, and so do the sums all ranks of Collective_Communication.c end     *)
(* with; the kernels do what EachElementOnce says; and on the way every variable *)
(* of the data-parallel programs has its type.                                   *)
THEOREM PartsAlwaysExact == Spec => []PartsExact
<1>1. Init => ShareInv
  BY ShareInvInit DEF Init
<1>2. ShareInv /\ [Next]_vars => ShareInv'
  BY ShareInvStep
<1>3. Init => SortInv
  BY SortInvInit DEF Init
<1>4. SortInv /\ [Next]_vars => SortInv'
  BY SortInvStep
<1>5. Init => KernelInv
  BY KernelInvInit DEF Init
<1>6. KernelInv /\ [Next]_vars => KernelInv'
  BY KernelInvStep
<1>7. Init => MatrixInv /\ MatrixSizes
  BY MatrixInvInit, MatrixSizesInit DEF Init
<1>8. MatrixInv /\ MatrixSizes /\ [Next]_vars => MatrixInv' /\ MatrixSizes'
  BY MatrixInvStep, MatrixSizesStep
<1>9. ShareInv /\ SortInv /\ KernelInv /\ MatrixInv /\ MatrixSizes => PartsExact
  BY ShareInvExact, SortInvTypes, KernelTypes, KernelInvExact, MatrixTypesOK
     DEF PartsExact, TypeOK
<1> QED
  BY <1>1, <1>2, <1>3, <1>4, <1>5, <1>6, <1>7, <1>8, <1>9, PTL DEF Spec

================================================================================
