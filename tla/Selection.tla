------------------------------- MODULE Selection -------------------------------
(***************************************************************************)
(* What the selection of results promises the reservation stations: of the *)
(* units that ask, each bus grants one of the most urgent category.        *)
(* FuSelector is the circuit that chooses.                                 *)
(***************************************************************************)
EXTENDS Naturals

CONSTANTS
  FU_ALU, FU_LS, FU_MULT, FU_BEQ,   \* the units of each category
  HALF_0        \* the units that compete for bus 0; the rest take bus 1

Fu == FU_ALU \cup FU_LS \cup FU_MULT \cup FU_BEQ

\* The numbers of the categories in sys_defs.svh follow each other.
ASSUME SelectionAssumption ==
  /\ Fu \subseteq Nat /\ HALF_0 \subseteq Fu
  /\ FU_LS \cap (FU_ALU \cup FU_MULT \cup FU_BEQ) = {}
  /\ FU_BEQ \cap (FU_ALU \cup FU_MULT) = {}
  /\ FU_ALU \cap FU_MULT = {}

\* Branches go first, then products, then memory, then the rest.
Urgent(req) ==
  IF req \cap FU_BEQ # {} THEN req \cap FU_BEQ
  ELSE IF req \cap FU_MULT # {} THEN req \cap FU_MULT
  ELSE IF req \cap FU_LS # {} THEN req \cap FU_LS
  ELSE req

One(S) == IF S = {} THEN {{}} ELSE {{x} : x \in S}

\* The units bus 0 and bus 1 may grant.
Grants(req) == {<<a, b>> : a \in One(Urgent(req \cap HALF_0)),
                           b \in One(Urgent(req \ HALF_0))}
=============================================================================
