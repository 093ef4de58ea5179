--------------------------------- MODULE Dirp ---------------------------------
(***************************************************************************)
(* The branch direction predictor (verilog/dirp_local_2.sv): a table of    *)
(* two-bit counters, trained by up to two results per cycle when branches  *)
(* retire.  Both results of a cycle are added to the counters of the cycle *)
(* before it.                                                              *)
(***************************************************************************)
EXTENDS Integers

CONSTANT BHT_SIZE   \* counters

ASSUME DirpAssumption == BHT_SIZE \in Nat \ {0}

VARIABLES
  PHT,
  trend   \* history: per counter [dir, run, was]: the last direction, in how
          \* many training cycles in a row (at most 3), and the direction in
          \* three or more cycles in a row before that one ("none" if fewer)

dirpVars == <<PHT, trend>>

PhtIdx == 0 .. BHT_SIZE - 1

DirpInit ==
  /\ PHT = [i \in PhtIdx |-> 1]
  /\ trend = [i \in PhtIdx |-> [dir |-> "none", run |-> 0, was |-> "none"]]

dirp_tag(pc) == pc % BHT_SIZE

branch_taken(is_branch, pc) == is_branch /\ PHT[dirp_tag(pc)] >= 2

Trained(n, taken) ==
  IF taken THEN IF n = 3 THEN 3 ELSE n + 1 ELSE IF n = 0 THEN 0 ELSE n - 1

\* r0 and r1: [valid, result, idx] of the two ports.
For(r, i) == r.valid /\ r.idx = i

\* Mutation: the first port wins.
FirstPortWins(r0, r1, i) ==
  IF For(r0, i) THEN Trained(PHT[i], r0.result)
  ELSE IF For(r1, i) THEN Trained(PHT[i], r1.result)
  ELSE PHT[i]

\* Of two results for one counter the second, younger one counts.
PHT_next(r0, r1, i) ==
  IF For(r1, i) THEN Trained(PHT[i], r1.result)
  ELSE IF For(r0, i) THEN Trained(PHT[i], r0.result)
  ELSE PHT[i]

Dir(taken) == IF taken THEN "taken" ELSE "not_taken"

\* The trend of a counter after a cycle whose youngest result for it is dir.
Follow(t, dir) ==
  IF t.dir = dir THEN [t EXCEPT !.run = IF @ = 3 THEN 3 ELSE @ + 1]
  ELSE [dir |-> dir, run |-> 1, was |-> IF t.run = 3 THEN t.dir ELSE "none"]

DirpStep(r0, r1) ==
  /\ PHT' = [i \in PhtIdx |-> PHT_next(r0, r1, i)]
  /\ trend' = [i \in PhtIdx |->
       IF For(r1, i) THEN Follow(trend[i], Dir(r1.result))
       ELSE IF For(r0, i) THEN Follow(trend[i], Dir(r0.result))
       ELSE trend[i]]

\* Two cycles in a row teach a direction, and after three one exception does
\* not unteach it, with the youngest result of a cycle as its result.
LearnsAndForgives ==
  \A i \in PhtIdx :
    LET predicted == Dir(branch_taken(TRUE, i))
    IN  /\ trend[i].run >= 2 => predicted = trend[i].dir
        /\ trend[i].run = 1 /\ trend[i].was # "none" =>
             predicted = trend[i].was
=============================================================================
