------------------------------- MODULE Backtrack -------------------------------
(***************************************************************************)
(* The knight's tour of test_progs/backtrack.c, by recursion: an           *)
(* activation of solveKTUtil is [cell, k], the square it stands on and the *)
(* next move to try; movei is the number of activations, the innermost     *)
(* last.                                                                   *)
(***************************************************************************)
EXTENDS Program, Integers, SequencesExt

CONSTANT Boards   \* the values of N

ASSUME BacktrackAssumption == Boards \subseteq Nat \ {0}

xMove == << 2, 1, -1, -2, -2, -1,  1,  2>>
yMove == << 1, 2,  2,  1, -1, -2, -2, -1>>

Board(n) == (0 .. n - 1) \X (0 .. n - 1)

solveKT ==
  \E n \in Boards :
    st = [code |-> "backtrack", at |-> "try", N |-> n,
          sol |-> [c \in Board(n) |-> IF c = <<0, 0>> THEN 0 ELSE -1],
          stack |-> <<[cell |-> <<0, 0>>, k |-> 1]>>, found |-> FALSE,
          ghost |-> 0]

isSafe(c) == c \in Board(st.N) /\ st.sol[c] = -1

movei == Len(st.stack)
Here == Last(st.stack)
next_cell == <<Here.cell[1] + xMove[Here.k], Here.cell[2] + yMove[Here.k]>>
Tries(stack) == [stack EXCEPT ![Len(stack)].k = @ + 1]

\* Every square has its number: all activations return 1.
TourFound ==
  /\ At("backtrack", "try") /\ movei = st.N * st.N
  /\ st' = [st EXCEPT !.at = "end", !.found = TRUE]

TryMove ==
  /\ At("backtrack", "try") /\ movei < st.N * st.N /\ Here.k <= 8
  /\ st' = IF isSafe(next_cell)
           THEN [st EXCEPT !.sol[next_cell] = movei,
                           !.stack = Append(Tries(@), [cell |-> next_cell, k |-> 1])]
           ELSE [st EXCEPT !.stack = Tries(@)]

\* Mutation: the square keeps its number.
KeepsNumber ==
  /\ At("backtrack", "try") /\ movei < st.N * st.N /\ Here.k > 8
  /\ st' = IF movei = 1 THEN [st EXCEPT !.at = "end"]
           ELSE [st EXCEPT !.stack = Front(@)]

\* No move is left: the caller clears the square; the first returns 0.
BacktrackStep ==
  /\ At("backtrack", "try") /\ movei < st.N * st.N /\ Here.k > 8
  /\ st' = IF movei = 1 THEN [st EXCEPT !.at = "end"]
           ELSE [st EXCEPT !.stack = Front(@), !.sol[Here.cell] = -1]

BacktrackNext == TourFound \/ TryMove \/ BacktrackStep

-----------------------------------------------------------------------------
(* What the program promises.                                              *)

KnightsMove(a, b) ==
  \E dx, dy \in {-2, -1, 1, 2} :
    dx * dx + dy * dy = 5 /\ b = <<a[1] + dx, a[2] + dy>>

\* Whether some order of the free squares continues a tour from c.
RECURSIVE HasTour(_, _)
HasTour(c, free) ==
  free = {} \/ \E d \in free : KnightsMove(c, d) /\ HasTour(d, free \ {d})

\* The numbered squares are the path of the knight, in order, each once, and
\* no square off the path has a number, however often the search turned back;
\* it finds a tour exactly if there is one.
TourIsPath ==
  /\ \A i \in 1 .. movei : st.sol[st.stack[i].cell] = i - 1
  /\ \A i \in 2 .. movei : KnightsMove(st.stack[i - 1].cell, st.stack[i].cell)
  /\ \A c \in Board(st.N) :
       st.sol[c] = -1 <=> c \notin {st.stack[i].cell : i \in 1 .. movei}
  /\ Ended => (st.found <=> HasTour(<<0, 0>>, Board(st.N) \ {<<0, 0>>}))
=============================================================================
