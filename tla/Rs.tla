---------------------------------- MODULE Rs ----------------------------------
(***************************************************************************)
(* The reservation stations of verilog/rs_2.sv with the functional units   *)
(* they own (fu_alu.sv, fu_ls.sv, fu_mult.sv, fu_beq.sv and the registered *)
(* blocks of fu_base_block.sv).                                            *)
(*                                                                         *)
(* There is one station per unit.  An instruction is written into a        *)
(* station and, in the same cycle, into the working register of the unit;  *)
(* the station collects the operands from the common data bus and hands    *)
(* them to the unit; the unit holds its result until fu_selector_2 grants  *)
(* it one of the two buses.                                                *)
(***************************************************************************)
EXTENDS Isa, Selection

CONSTANTS
  NUM_STAGE,    \* steps of a multiplication
  ZERO_TAG      \* the tag of an operand that is in the register file

ASSUME RsAssumption == NUM_STAGE \in Nat /\ ZERO_TAG \in Nat

VARIABLES
  rs_entries,   \* per unit: the tag of the result and the two operands
  busy,         \* the stations that are taken
  working,      \* per unit: working_id_fu, working_rs_fu, working_storeq_pos
  unit          \* per unit: the registers of alu, brcond or mlu

rsVars == <<rs_entries, busy, working, unit>>

EmptyInfo == [tag |-> 0, V |-> 0, V_ready |-> FALSE]
EmptyStation == [T_dest |-> 0, rs_entry_info |-> <<EmptyInfo, EmptyInfo>>]

\* A unit without an instruction.  `selected' is up in the first cycle of an
\* instruction, of its operands, or of an idle period.
Idle(sel) ==
  [inst |-> NOP, PC |-> 0, selected |-> sel, rs_value |-> <<0, 0>>,
   rs_value_valid |-> FALSE, storeq_pos |-> 0]

IdleUnit == [valid |-> FALSE, step |-> 0, result |-> 0]

RsInit ==
  /\ rs_entries = [f \in Fu |-> EmptyStation]
  /\ busy = {}
  /\ working = [f \in Fu |-> Idle(FALSE)]
  /\ unit = [f \in Fu |-> IdleUnit]

-----------------------------------------------------------------------------
(* The results of the cycle.  lsq_fu is what the load queue answers the    *)
(* load units: per unit [valid, value].                                    *)

Loaded(f) == working[f].inst # NOP

OperandsIn(f) == Loaded(f) /\ working[f].rs_value_valid

\* Mutation: a store waits for an answer of the load queue.
StoresNeverDone(f, lsq_fu) ==
  /\ OperandsIn(f)
  /\ IF f \in FU_LS THEN lsq_fu[f].valid
     ELSE ~working[f].selected /\ unit[f].valid

fu_result_valid(f, lsq_fu) ==
  /\ OperandsIn(f)
  /\ IF f \in FU_LS THEN wr_mem(working[f].inst) \/ lsq_fu[f].valid
     ELSE ~working[f].selected /\ unit[f].valid

\* A branch compares its operands in the registered block and adds its
\* target without one.
TakesBranch(f) ==
  /\ f \in FU_BEQ
  /\ \/ uncond_branch(working[f].inst)
     \/ cond_branch(working[f].inst) /\ unit[f].result = 1

UnitResult(f, lsq_fu) ==
  LET w == working[f]
  IN  IF f \in FU_LS
      THEN IF wr_mem(w.inst) THEN 0 ELSE Trim(lsq_fu[f].value, w.inst.size)
      ELSE IF f \in FU_BEQ
      THEN alu_result(w.inst, w.rs_value[1], w.rs_value[2])
      ELSE unit[f].result

NoCdb == [valid |-> FALSE, tag |-> 0, value |-> 0, take_branch |-> FALSE,
          branch_target |-> 0]

rs_cdb(f, lsq_fu) ==
  LET npc == NPC(working[f].PC)
      res == UnitResult(f, lsq_fu)
      taken == TakesBranch(f)
  IN  [valid |-> TRUE, tag |-> rs_entries[f].T_dest,
       value |-> IF taken THEN npc ELSE res,
       take_branch |-> taken,
       branch_target |-> IF taken THEN res ELSE npc]

\* The result a bus carries, of the unit it has granted (Selection).
CdbOf(granted, lsq_fu) ==
  IF granted = {} THEN NoCdb
  ELSE rs_cdb(CHOOSE f \in granted : TRUE, lsq_fu)

-----------------------------------------------------------------------------
(* Dispatch.  A slot takes the lowest free station of its category; a      *)
(* station whose result is granted in this cycle counts as free.           *)

fu_type(i) ==
  IF cond_branch(i) \/ uncond_branch(i) THEN FU_BEQ
  ELSE IF mult_op(i) THEN FU_MULT
  ELSE IF rd_mem(i) \/ wr_mem(i) THEN FU_LS
  ELSE FU_ALU

BothLs(i0, i1) == fu_type(i0) = FU_LS /\ fu_type(i1) = FU_LS

id_valid(id) == id.valid /\ ~isHalt(id.inst) /\ ~isIllegal(id.inst)

FirstFree(cat, taken) ==
  {f \in cat \ taken : \A h \in cat \ taken : f <= h}

\* What the station remembers of operand k: mt, reg and rob are what the map
\* table, the register file and the reorder buffer answer.
Operand(i, k, mt, reg, rob) ==
  IF k \notin req_reg(i) THEN [tag |-> 0, V |-> 0, V_ready |-> TRUE]
  ELSE IF mt.tag = ZERO_TAG
  THEN [tag |-> ZERO_TAG, V |-> reg, V_ready |-> TRUE]
  ELSE [tag |-> mt.tag, V |-> rob, V_ready |-> mt.ready]

Heard(info, cdb) ==
  IF cdb.valid /\ info.tag = cdb.tag /\ ~info.V_ready
  THEN [tag |-> cdb.tag, V |-> cdb.value, V_ready |-> TRUE]
  ELSE info

\* Mutation: stations are released after they are taken.
ReleasedLast(granted, d0, d1) == (busy \cup d0 \cup d1) \ granted

\* The stations after the cycle: released, written (d0, d1 are the stations
\* the slots take and s0, s1 what goes there), then the results of the
\* cycle, which a station that is written in it hears too.
NextBusy(granted, d0, d1) == (busy \ granted) \cup d0 \cup d1

\* Mutation: a station that is written does not hear the results of the cycle.
DeafWhenWritten(f, granted, d0, s0, d1, s1, cdb0, cdb1) ==
  LET e == IF f \in d1 THEN s1
           ELSE IF f \in d0 THEN s0
           ELSE IF f \in granted \cap busy THEN EmptyStation
           ELSE rs_entries[f]
  IN  IF f \in d0 \cup d1 \/ f \notin busy \ granted THEN e
      ELSE [e EXCEPT !.rs_entry_info =
              [k \in 1 .. 2 |-> Heard(Heard(@[k], cdb0), cdb1)]]

NextStation(f, granted, d0, s0, d1, s1, cdb0, cdb1) ==
  LET e == IF f \in d1 THEN s1
           ELSE IF f \in d0 THEN s0
           ELSE IF f \in granted \cap busy THEN EmptyStation
           ELSE rs_entries[f]
  IN  IF f \notin NextBusy(granted, d0, d1) THEN e
      ELSE [e EXCEPT !.rs_entry_info =
              [k \in 1 .. 2 |-> Heard(Heard(@[k], cdb0), cdb1)]]

-----------------------------------------------------------------------------
(* The units.                                                              *)

\* The working register takes instruction id, with the operands that its
\* station holds at the end of the cycle.
Load(id, info, pos) ==
  [inst |-> id.inst, PC |-> id.PC, selected |-> TRUE,
   rs_value |-> <<info[1].V, info[2].V>>,
   rs_value_valid |-> info[1].V_ready /\ info[2].V_ready,
   storeq_pos |-> pos]

NextWorking(f, granted, new, id, info, pos) ==
  LET w == working[f]
  IN  IF f \in granted
      THEN IF new THEN Load(id, info, pos) ELSE Idle(TRUE)
      ELSE IF new /\ ~Loaded(f) THEN Load(id, info, pos)
      ELSE IF /\ Loaded(f) /\ ~w.rs_value_valid
              /\ info[1].V_ready /\ info[2].V_ready
      THEN [w EXCEPT !.selected = TRUE, !.rs_value_valid = TRUE,
                     !.rs_value = <<info[1].V, info[2].V>>]
      ELSE [w EXCEPT !.selected = FALSE]

\* alu and brcond register their result while the operands are there; mlu
\* latches the operands while `selected' is up, works through its stages and
\* keeps the product.
NextUnit(f) ==
  LET w == working[f]
      v1 == w.rs_value[1]
      v2 == w.rs_value[2]
  IN  IF ~w.rs_value_valid \/ f \in FU_LS THEN IdleUnit
      ELSE IF f \in FU_BEQ
      THEN [valid |-> TRUE, step |-> 0, result |-> IF v1 = v2 THEN 1 ELSE 0]
      ELSE IF f \in FU_ALU
      THEN [valid |-> TRUE, step |-> 0, result |-> alu_result(w.inst, v1, v2)]
      ELSE IF w.selected
      THEN [valid |-> FALSE, step |-> 0,
            result |-> alu_result(w.inst, v1, v2)]
      ELSE IF unit[f].step = NUM_STAGE THEN [unit[f] EXCEPT !.valid = TRUE]
      ELSE [unit[f] EXCEPT !.step = @ + 1]

\* A squash clears the stations and the working registers; the registers of
\* the units follow one cycle later.
RsFlush ==
  /\ rs_entries' = [f \in Fu |-> EmptyStation]
  /\ busy' = {}
  /\ working' = [f \in Fu |-> Idle(FALSE)]

\* p0 and p1 are the places in the store queue that go with the instructions.
RsUpdate(granted, id0, d0, s0, p0, id1, d1, s1, p1, cdb0, cdb1) ==
  LET next == [f \in Fu |->
                 NextStation(f, granted, d0, s0, d1, s1, cdb0, cdb1)]
  IN  /\ rs_entries' = next
      /\ busy' = NextBusy(granted, d0, d1)
      /\ working' = [f \in Fu |->
           IF f \in d0
           THEN NextWorking(f, granted, TRUE, id0, next[f].rs_entry_info, p0)
           ELSE NextWorking(f, granted, f \in d1, id1,
                            next[f].rs_entry_info, p1)]

RsStep(squash, granted, id0, d0, s0, p0, id1, d1, s1, p1, cdb0, cdb1) ==
  /\ IF squash THEN RsFlush
     ELSE RsUpdate(granted, id0, d0, s0, p0, id1, d1, s1, p1, cdb0, cdb1)
  /\ unit' = [f \in Fu |-> NextUnit(f)]
=============================================================================
