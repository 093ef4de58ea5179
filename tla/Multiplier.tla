------------------------------ MODULE Multiplier ------------------------------
(***************************************************************************)
(* The multiplication unit: the working register of verilog/fu_mult.sv and *)
(* the sequential multiplier mlu / mult_stage of fu_base_block.sv, driven  *)
(* by its reservation station.                                             *)
(*                                                                         *)
(* The multiplier takes the operands while `selected' is up, adds one      *)
(* partial product per cycle, and keeps the product until the operands     *)
(* leave or others come.  Nothing tells it apart from the unit whose       *)
(* operands it works on: that the product that is offered is that of the   *)
(* instruction in the working register rests on `selected' alone.          *)
(* (Rs has the same unit with the product taken for granted.)              *)
(***************************************************************************)
EXTENDS Integers

CONSTANTS
  XLEN,       \* bits of an operand
  NUM_STAGE   \* partial products of a product

ASSUME MultiplierAssumption ==
  /\ XLEN \in Nat \ {0} /\ NUM_STAGE \in 1 .. 2 * XLEN
  /\ (2 * XLEN) % NUM_STAGE = 0

VARIABLES
  working,  \* working_id_fu and working_rs_fu: [loaded, func, selected,
            \* rs_value, rs_value_valid]
  mlu       \* [mcand_in, mplier_in, product_in, step_counter, valid]

multVars == <<working, mlu>>

NUM_BITS == (2 * XLEN) \div NUM_STAGE
Half == 2 ^ XLEN                  \* values of an operand
Full == Half * Half               \* values of a product
Func == {"MUL", "MULH", "MULHSU", "MULHU"}

\* The working register without an instruction.
IdleWorking(sel) ==
  [loaded |-> FALSE, func |-> "MUL", selected |-> sel, rs_value |-> <<0, 0>>,
   rs_value_valid |-> FALSE]

Reset == [mcand_in |-> 0, mplier_in |-> 0, product_in |-> 0,
          step_counter |-> 0, valid |-> FALSE]

MultInit == working = IdleWorking(FALSE) /\ mlu = Reset

-----------------------------------------------------------------------------
(* mlu and mult_stage.                                                     *)

SignExtended(v) == IF v >= Half \div 2 THEN v + Full - Half ELSE v

\* Mutation: MULHSU takes its first operand for the unsigned one.
mcand_of_b(func, v) ==
  IF func \in {"MULHU", "MULHSU"} THEN v ELSE SignExtended(v)

\* The multiplicand is signed in all but MULHU, the multiplier in neither
\* MULHSU nor MULHU.
mcand(func, v) == IF func = "MULHU" THEN v ELSE SignExtended(v)

mplier(func, v) ==
  IF func \in {"MULHU", "MULHSU"} THEN v ELSE SignExtended(v)

mult_stage(m) ==
  [m EXCEPT !.product_in =
              (@ + (m.mplier_in % 2 ^ NUM_BITS) * m.mcand_in) % Full,
            !.mplier_in = @ \div 2 ^ NUM_BITS,
            !.mcand_in = (@ * 2 ^ NUM_BITS) % Full,
            !.step_counter = @ + 1]

NextMlu ==
  IF ~working.rs_value_valid THEN Reset
  ELSE IF working.selected
  THEN [Reset EXCEPT !.mcand_in = mcand(working.func, working.rs_value[1]),
                     !.mplier_in = mplier(working.func, working.rs_value[2])]
  ELSE IF mlu.step_counter = NUM_STAGE THEN [mlu EXCEPT !.valid = TRUE]
  ELSE [mult_stage(mlu) EXCEPT !.valid = FALSE]

result ==
  IF working.func = "MUL" THEN mlu.product_in % Half
  ELSE mlu.product_in \div Half

\* Mutation: an instruction that has just come may be done.
ResultOfSelected ==
  working.loaded /\ working.rs_value_valid /\ mlu.valid

result_valid ==
  ~working.selected /\ working.loaded /\ working.rs_value_valid /\ mlu.valid

-----------------------------------------------------------------------------
(* The working register.  The station sends an instruction when it has     *)
(* none or when the result is granted, with the operands or without; the   *)
(* operands come later.  The values of operands that are not all there are *)
(* never looked at.                                                        *)

Ready(func, a, b) ==
  [loaded |-> TRUE, func |-> func, selected |-> TRUE, rs_value |-> <<a, b>>,
   rs_value_valid |-> TRUE]

Waiting(func) ==
  [loaded |-> TRUE, func |-> func, selected |-> TRUE, rs_value |-> <<0, 0>>,
   rs_value_valid |-> FALSE]

Sent == {Waiting(func) : func \in Func} \cup
        {Ready(func, a, b) : func \in Func, a, b \in 0 .. Half - 1}

Squash ==
  /\ working' = IdleWorking(FALSE)
  /\ mlu' = NextMlu

Granted ==
  /\ result_valid
  /\ working' \in Sent \cup {IdleWorking(TRUE)}
  /\ mlu' = NextMlu

Dispatched ==
  /\ ~working.loaded
  /\ working' \in Sent
  /\ mlu' = NextMlu

OperandsCome ==
  /\ working.loaded /\ ~working.rs_value_valid
  /\ \E a, b \in 0 .. Half - 1 : working' = Ready(working.func, a, b)
  /\ mlu' = NextMlu

\* Mutation: `selected' stays up.
StaysSelected ==
  /\ working' = working
  /\ mlu' = NextMlu

Ticks ==
  /\ working' = [working EXCEPT !.selected = FALSE]
  /\ mlu' = NextMlu

MultNext == Squash \/ Granted \/ Dispatched \/ OperandsCome \/ Ticks

\* Every step is a clock cycle; the clock ticks whether or not something comes
\* in.
MultSpec == MultInit /\ [][MultNext]_multVars /\ WF_multVars(Ticks)

-----------------------------------------------------------------------------
(* Properties.                                                             *)

\* The product of the machine's manual.
Signed(v) == IF v >= Half \div 2 THEN v - Half ELSE v

Product ==
  LET a == working.rs_value[1]
      b == working.rs_value[2]
  IN  CASE working.func = "MULHU" -> a * b
        [] working.func = "MULHSU" -> Signed(a) * b
        [] OTHER -> Signed(a) * Signed(b)

\* While the unit works, what is added up and what is left to add make the
\* product of the instruction in the working register, modulo the width.
SumIsProduct ==
  working.rs_value_valid /\ ~working.selected =>
    (mlu.product_in + mlu.mplier_in * mlu.mcand_in) % Full = Product % Full

\* The unit offers the product of the instruction it holds: never that of the
\* one before it, never a sum that is not complete, never one with a wrong
\* sign.
OffersItsProduct ==
  result_valid =>
    result = IF working.func = "MUL" THEN Product % Half
             ELSE (Product % Full) \div Half

\* The unit computes and offers nothing but the product it was asked for.
MultiplierInv == SumIsProduct /\ OffersItsProduct

\* An instruction whose operands are there gets its product.
ProductIsOffered ==
  working.loaded /\ working.rs_value_valid
    ~> result_valid \/ ~working.loaded
=============================================================================
