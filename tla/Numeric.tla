-------------------------------- MODULE Numeric --------------------------------
(***************************************************************************)
(* The programs that compute: matrix_mult_rec.c, outer_product.c,          *)
(* fc_forward.c and dft.c, on any operands of a small range.               *)
(***************************************************************************)
EXTENDS Program, Integers, FiniteSetsExt, SequencesExt

CONSTANTS
  DIM,     \* rows and columns of the matrices
  VALUES,  \* elements: 0 .. VALUES - 1
  INT,     \* values of an int; sums and products wrap around
  Factors  \* the numbers dft.c multiplies

ASSUME NumericAssumption ==
  /\ DIM \in Nat \ {0} /\ VALUES \in Nat \ {0} /\ INT \in Nat \ {0}
  /\ Factors \subseteq Nat

Matrix(rows, cols) == [(0 .. rows - 1) \X (0 .. cols - 1) -> 0 .. VALUES - 1]
Zero(rows, cols) == [c \in (0 .. rows - 1) \X (0 .. cols - 1) |-> 0]

-----------------------------------------------------------------------------
(* matrix_mult_rec.c.  i, j and k are static: all activations have the     *)
(* same, and after the last element every activation still goes on from    *)
(* where it called.  `stack' has the call each of them waits for: "k", "j" *)
(* or "i", what it counts up in front of it.                               *)

MatrixInit ==
  \E row1, col1, row2, col2 \in 1 .. DIM :
    \E A \in Matrix(row1, col1), B \in Matrix(row2, col2) :
      st = [code |-> "matrix", at |-> "start", row1 |-> row1, col1 |-> col1,
            row2 |-> row2, col2 |-> col2, A |-> A, B |-> B,
            C |-> Zero(row1, col2), i |-> 0, j |-> 0, k |-> 0, stack |-> <<>>,
            ghost |-> 0]

multiplyMatrix ==
  /\ At("matrix", "start")
  /\ st' = [st EXCEPT !.at = IF st.row2 # st.col1 THEN "end" ELSE "call"]

Calls(s, from) == [s EXCEPT !.at = "call", !.stack = Append(@, from)]

\* Mutation: the next element goes on with the k of the last one.
KeepsK(s) == Calls([s EXCEPT !.j = @ + 1], "j")

NextColumn(s) == Calls([s EXCEPT !.k = 0, !.j = @ + 1], "j")
NextRow(s) == Calls([s EXCEPT !.j = 0, !.i = @ + 1], "i")

multiplyMatrixRec ==
  /\ At("matrix", "call")
  /\ st' = IF st.i >= st.row1 THEN [st EXCEPT !.at = "return"]
           ELSE IF st.j >= st.col2 THEN NextRow(st)
           ELSE IF st.k >= st.col1 THEN NextColumn(st)
           ELSE Calls([st EXCEPT !.k = @ + 1,
                         !.C[<<st.i, st.j>>] =
                            @ + st.A[<<st.i, st.k>>] * st.B[<<st.k, st.j>>]],
                      "k")

ReturnsTo ==
  /\ At("matrix", "return")
  /\ st' = IF st.stack = <<>> THEN [st EXCEPT !.at = "end"]
           ELSE LET caller == [st EXCEPT !.stack = Front(@)]
                IN  CASE Last(st.stack) = "k" -> NextColumn(caller)
                      [] Last(st.stack) = "j" -> NextRow(caller)
                      [] Last(st.stack) = "i" -> caller

-----------------------------------------------------------------------------
(* outer_product.c: the outer product of each column with its row, then    *)
(* their sum; a step is one turn of an outer loop.                         *)

Outer == (0 .. DIM - 1) \X (0 .. DIM - 1) \X (0 .. DIM - 1)

OuterInit ==
  \E A, B \in Matrix(DIM, DIM) :
    st = [code |-> "outer", at |-> "multiply", A |-> A, B |-> B,
          partial |-> [c \in Outer |-> 0], C |-> Zero(DIM, DIM), i |-> 0,
          ghost |-> 0]

OuterMultiply ==
  /\ At("outer", "multiply")
  /\ st' = IF st.i = DIM THEN [st EXCEPT !.at = "acc", !.i = 0]
           ELSE [st EXCEPT !.i = @ + 1,
                   !.partial = [c \in Outer |->
                      IF c[1] = st.i
                      THEN st.A[<<c[2], c[1]>>] * st.B[<<c[1], c[3]>>] % INT
                      ELSE @[c]]]

OuterAcc ==
  /\ At("outer", "acc")
  /\ st' = IF st.i = DIM THEN [st EXCEPT !.at = "end"]
           ELSE [st EXCEPT !.i = @ + 1,
                   !.C = [c \in DOMAIN @ |->
                      IF c[1] = st.i
                      THEN (@[c] + MapThenSumSet(
                              LAMBDA k : st.partial[<<k, c[1], c[2]>>],
                              0 .. DIM - 1)) % INT
                      ELSE @[c]]]

-----------------------------------------------------------------------------
(* fc_forward.c: x @ W + b.                                                *)

FcInit ==
  \E A, B \in [0 .. DIM - 1 -> 0 .. VALUES - 1], b \in 0 .. VALUES - 1 :
    st = [code |-> "fc", at |-> "loop", A |-> A, B |-> B, b |-> b, dot |-> 0,
          i |-> 0, out |-> 0, ghost |-> 0]

FcStep ==
  /\ At("fc", "loop")
  /\ st' = IF st.i = DIM
           THEN [st EXCEPT !.at = "end", !.out = (st.dot + st.b) % INT]
           ELSE [st EXCEPT !.i = @ + 1,
                           !.dot = (@ + st.A[st.i] * st.B[st.i]) % INT]

-----------------------------------------------------------------------------
(* dft.c: a product modulo 17 by way of polynomials, whose coefficients    *)
(* are transformed, multiplied one by one, and transformed back.           *)

n == 8
m == 17
w == 2
w_r == 9     \* the inverse of w
n_r == 15    \* the inverse of n

modulo_m(x) == x % m

\* The coefficients that are left when every second one is taken.
Evens(a) == [i \in 1 .. Len(a) \div 2 |-> a[2 * i - 1]]
Odds(a) == [i \in 1 .. Len(a) \div 2 |-> a[2 * i]]

RECURSIVE dft(_, _)
dft(a, root) ==
  IF root = 1 THEN a
  ELSE LET half == Len(a) \div 2
           x == dft(Evens(a), modulo_m(root * root))
           y == dft(Odds(a), modulo_m(root * root))
           base(i) == modulo_m(root ^ (i - 1))
       IN  [i \in 1 .. half |-> modulo_m(x[i] + base(i) * y[i])] \o
           [i \in 1 .. half |-> modulo_m(x[i] - base(i) * y[i])]

\* The bits of x, eight of them.
to_poly(x) == [i \in 1 .. n |-> (x \div 2 ^ (i - 1)) % 2]

DftInit ==
  \E x, y \in Factors :
    st = [code |-> "dft", at |-> "to_poly", x |-> x, y |-> y, a |-> to_poly(0),
          b |-> to_poly(0), result |-> 0, ghost |-> 0]

mult ==
  \/ /\ At("dft", "to_poly")
     /\ st' = [st EXCEPT !.at = "forward", !.a = to_poly(st.x),
                         !.b = to_poly(st.y)]
  \/ /\ At("dft", "forward")
     /\ st' = [st EXCEPT !.at = "pointwise", !.a = dft(@, w), !.b = dft(@, w)]
  \/ /\ At("dft", "pointwise")
     /\ st' = [st EXCEPT !.at = "back",
                         !.a = [i \in 1 .. n |-> modulo_m(@[i] * st.b[i])]]
  \/ /\ At("dft", "back")
     /\ st' = [st EXCEPT !.at = "evaluate", !.a = dft(@, w_r)]
  \/ /\ At("dft", "evaluate")
     /\ LET a == [i \in 1 .. n |-> modulo_m(st.a[i] * n_r)]
        IN  st' = [st EXCEPT !.at = "end", !.a = a,
                     !.result = modulo_m(MapThenSumSet(
                        LAMBDA i : modulo_m(w ^ (i - 1)) * a[i], 1 .. n))]

NumericInit == MatrixInit \/ OuterInit \/ FcInit \/ DftInit

NumericNext ==
  \/ multiplyMatrix \/ multiplyMatrixRec \/ ReturnsTo
  \/ OuterMultiply \/ OuterAcc \/ FcStep \/ mult

-----------------------------------------------------------------------------
(* What the programs promise.                                              *)

\* Element c of the product of A and B, over K.
Product(c, K) ==
  MapThenSumSet(LAMBDA k : st.A[<<c[1], k>>] * st.B[<<k, c[2]>>], K)

\* Each program ends with what it is there to compute: the matrix product,
\* though the counters of the recursion are shared and never set back; the
\* same product summed up the other way round; the forward layer; and the
\* product of two bytes modulo 17, through two transforms and their inverse.
\* The recursion is never deeper than its elements are many.
ComputesItsResult ==
  /\ Is("matrix") =>
       Len(st.stack) <= st.row1 * (st.col2 * (st.col1 + 1) + 1)
  /\ At("matrix", "end") =>
       IF st.row2 # st.col1 THEN st.C = Zero(st.row1, st.col2)
       ELSE \A c \in DOMAIN st.C : st.C[c] = Product(c, 0 .. st.col1 - 1)
  /\ At("outer", "end") =>
       \A c \in DOMAIN st.C : st.C[c] = Product(c, 0 .. DIM - 1) % INT
  /\ At("fc", "end") =>
       st.out = (MapThenSumSet(LAMBDA i : st.A[i] * st.B[i], 0 .. DIM - 1)
                  + st.b) % INT
  /\ At("dft", "end") => st.result = (st.x * st.y) % m
=============================================================================
