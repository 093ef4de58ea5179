------------------------------- MODULE MCUnits -------------------------------
(***************************************************************************)
(* The units that work by themselves, for TLC: the multiplier, the choice  *)
(* among results, branch prediction and the instruction cache.  A behaviour *)
(* is one of one of them; the others stay in their initial states.         *)
(***************************************************************************)
EXTENDS Multiplier, FuSelector, NpcControl, ICache

VARIABLE unit   \* the one that works

unitsVars == <<multVars, selectorVars, npcVars, icacheVars, unit>>

-----------------------------------------------------------------------------
(* Texts in which branches share the entries of the tables, calls stand    *)
(* beside returns, and returns in either slot.                             *)

beq(to) == [op |-> "beq", to |-> to]
jal(to) == [op |-> "jal", to |-> to]
jalr == [op |-> "jalr", to |-> 0]
add == [op |-> "add", to |-> 0]

Text(s) == [pc \in Pc |-> s[pc + 1]]

MCTexts == {Text(<<beq(3), jalr, jal(0), jalr>>),
            Text(<<jal(2), beq(0), jalr, add>>),
            Text(<<jal(3), jalr, add, jal(0)>>)}

-----------------------------------------------------------------------------
UnitsInit ==
  /\ unit \in {"multiplier", "selector", "predictors", "icache"}
  /\ MultInit /\ SelectorInit /\ NpcInit /\ ICacheInit
  /\ unit # "predictors" => text = CHOOSE t \in Texts : TRUE

MultiplierStep ==
  /\ unit = "multiplier" /\ MultNext
  /\ UNCHANGED <<selectorVars, npcVars, icacheVars, unit>>

SelectorStep ==
  /\ unit = "selector" /\ SelectorCycle
  /\ UNCHANGED <<multVars, npcVars, icacheVars, unit>>

PredictorsStep ==
  /\ unit = "predictors" /\ (UnitsReport \/ BranchesRetire)
  /\ UNCHANGED <<multVars, selectorVars, icacheVars, unit>>

ICacheStep ==
  /\ unit = "icache" /\ ((~held /\ ICacheCycle) \/ CoreWaits)
  /\ UNCHANGED <<multVars, selectorVars, npcVars, unit>>

UnitsNext == MultiplierStep \/ SelectorStep \/ PredictorsStep \/ ICacheStep

\* The fairness of MultSpec and of ICacheHeldSpec.
UnitsSpec ==
  /\ UnitsInit /\ [][UnitsNext]_unitsVars
  /\ WF_unitsVars(/\ unit = "multiplier" /\ Ticks
                  /\ UNCHANGED <<selectorVars, npcVars, icacheVars, unit>>)
  /\ WF_unitsVars(/\ unit = "icache" /\ Answers
                  /\ UNCHANGED <<multVars, selectorVars, npcVars, unit>>)
=============================================================================
