------------------------------ MODULE FuSelector ------------------------------
(***************************************************************************)
(* The choice among results: verilog/fu_selector_2.sv with the selectors   *)
(* of selector.sv.                                                         *)
(*                                                                         *)
(* A fixed priority (ps4) finds the category of each bus.  Inside it a     *)
(* tree of two-way choices (rps2, rps4) follows the bits of a counter that *)
(* runs freely: it neither waits for a grant nor knows who had the last.   *)
(*                                                                         *)
(* Units ask until they are granted; a squash takes every request back.    *)
(***************************************************************************)
EXTENDS Selection, FiniteSets, Integers

VARIABLES
  cnt,              \* counter2
  fu_result_valid,  \* the units that ask
  waited            \* history: the cycles in a row that a unit has asked, and
                    \* one of its category was granted instead of it

selectorVars == <<cnt, fu_result_valid, waited>>

SelectorInit ==
  /\ cnt = 0
  /\ fu_result_valid = {}
  /\ waited = [f \in Fu |-> 0]

-----------------------------------------------------------------------------
(* The selectors: req is the set of the places that ask, not empty; they   *)
(* return the place that is granted.                                       *)

\* The place the counter points at, if it asks.
rps2(req, bit) == IF bit \in req THEN bit ELSE 1 - bit

\* Mutation: one bit of the counter for both levels.
rps4_one_bit(req, c) ==
  LET top == rps2({p \div 2 : p \in req}, c % 2)
  IN  2 * top + rps2({p % 2 : p \in {q \in req : q \div 2 = top}}, c % 2)

rps4(req, c) ==
  LET top == rps2({p \div 2 : p \in req}, c \div 2)
  IN  2 * top + rps2({p % 2 : p \in {q \in req : q \div 2 = top}}, c % 2)

\* Bus b: its units of a category in the order of their numbers.
OfBus(b) == IF b = 0 THEN HALF_0 ELSE Fu \ HALF_0
PlaceOf(f, units) == Cardinality({h \in units : h < f})

\* The trees have a place for every unit: each bus has four ALUs and two units
\* of every other category.
ASSUME FuSelectorAssumption ==
  /\ IsFiniteSet(Fu)
  /\ \A b \in {0, 1} :
       /\ Cardinality(FU_ALU \cap OfBus(b)) =< 4
       /\ \A units \in {FU_LS, FU_MULT, FU_BEQ} :
            Cardinality(units \cap OfBus(b)) =< 2

\* Mutation: memory before products.
cat_select_swapped(req) ==
  IF req \cap FU_BEQ # {} THEN FU_BEQ
  ELSE IF req \cap FU_LS # {} THEN FU_LS
  ELSE IF req \cap FU_MULT # {} THEN FU_MULT
  ELSE FU_ALU

cat_select(req) ==
  IF req \cap FU_BEQ # {} THEN FU_BEQ
  ELSE IF req \cap FU_MULT # {} THEN FU_MULT
  ELSE IF req \cap FU_LS # {} THEN FU_LS
  ELSE FU_ALU

\* The unit that bus b grants, of a bus for which some unit asks.
fu_num(b, asking, c) ==
  LET req == asking \cap OfBus(b)
      units == cat_select(req) \cap OfBus(b)
      places == {PlaceOf(f, units) : f \in req \cap units}
      gnt == IF cat_select(req) = FU_ALU THEN rps4(places, c)
             ELSE rps2(places, c % 2)
  IN  CHOOSE f \in units : PlaceOf(f, units) = gnt

selection(b, asking, c) ==
  IF asking \cap OfBus(b) = {} THEN {} ELSE {fu_num(b, asking, c)}

-----------------------------------------------------------------------------
Winners == selection(0, fu_result_valid, cnt)
             \cup selection(1, fu_result_valid, cnt)

\* The category of unit f has its bus in this cycle, and f does not.
PassedOver(f) ==
  \E b \in {0, 1} :
    /\ f \in (OfBus(b) \cap fu_result_valid) \ Winners
    /\ f \in cat_select(fu_result_valid \cap OfBus(b))

\* Mutation: the counter counts grants, not cycles.
CountsGrants == cnt' = (cnt + Cardinality(Winners)) % 4

Counts == cnt' = (cnt + 1) % 4

SelectorCycle ==
  /\ Counts
  /\ \E new \in SUBSET (Fu \ fu_result_valid), squash \in BOOLEAN :
       fu_result_valid' =
         IF squash THEN {} ELSE (fu_result_valid \ Winners) \cup new
  /\ waited' = [f \in Fu |-> IF PassedOver(f) THEN waited[f] + 1 ELSE 0]

SelectorSpec == SelectorInit /\ [][SelectorCycle]_selectorVars

-----------------------------------------------------------------------------
(* Properties.                                                             *)

\* The circuit chooses among what Selection allows, so what holds of the core
\* for every choice holds for this one.
ChoosesAsPromised ==
  <<selection(0, fu_result_valid, cnt), selection(1, fu_result_valid, cnt)>>
    \in Grants(fu_result_valid)

\* While the category of a unit has the bus, the unit is passed over at most
\* once per other place of its tree, whoever else asks and when: the counter
\* points at every place in turn.
PassedOverBriefly ==
  \A f \in Fu : waited[f] < IF f \in FU_ALU THEN 4 ELSE 2
=============================================================================
