-------------------------------- MODULE Front --------------------------------
(***************************************************************************)
(* Fetch and decode: verilog/dispatch_stage_2.sv and the pipeline register *)
(* behind it in pipeline.sv.  Two instructions of one aligned pair are     *)
(* fetched in a cycle; those the back end refuses are fetched again.       *)
(*                                                                         *)
(* A packet is [valid, inst, PC, NPC_out, take_branch]; the other fields   *)
(* of ID_EX_PACKET are functions of inst and PC (module Isa).              *)
(***************************************************************************)
EXTENDS Isa

VARIABLES
  PC_reg,
  just_squash,  \* the last cycle squashed
  id_packet_out_0,
  id_packet_out_1

frontVars == <<PC_reg, just_squash, id_packet_out_0, id_packet_out_1>>

\* The packet after reset and squash.
NoPacket == [valid |-> FALSE, inst |-> NOP, PC |-> 0, NPC_out |-> 0,
             take_branch |-> FALSE]

FrontInit ==
  /\ PC_reg = 0
  /\ just_squash = FALSE
  /\ id_packet_out_0 = NoPacket
  /\ id_packet_out_1 = NoPacket

\* The first instruction to fetch: one that was refused, or the next one.
working_PC_reg(dispatch_enable_0, dispatch_enable_1) ==
  IF just_squash THEN PC_reg
  ELSE IF ~dispatch_enable_0 THEN id_packet_out_0.PC
  ELSE IF ~dispatch_enable_1 /\ id_packet_out_1.valid THEN id_packet_out_1.PC
  ELSE PC_reg

\* The upper half of a pair has no instruction behind it.
Upper(pc) == pc % 2 = 1

\* The instruction words of a fetch at pc.  A miss of the instruction cache
\* reads as zero; slot 1 is off behind the upper half and behind a branch
\* that is predicted taken.
inst_0(text, pc, hit) == IF hit THEN Fetch(text, pc) ELSE ILLEGAL

inst_1(text, pc, hit, taken_0) ==
  IF Upper(pc) \/ taken_0 THEN NOP
  ELSE IF hit THEN Fetch(text, NPC(pc)) ELSE ILLEGAL

id_packet(i, pc, hit, predict) ==
  [valid |-> valid_inst(i) /\ hit, inst |-> i, PC |-> pc,
   NPC_out |-> predict.NPC_out, take_branch |-> predict.branch_predict]

\* The next fetch, when nothing squashes.
next_PC(pc, p0, p1) ==
  IF p0.take_branch \/ Upper(pc) THEN p0.NPC_out ELSE p1.NPC_out

PC_enable(pc, p0, p1) ==
  p0.valid /\ (Upper(pc) \/ p0.take_branch \/ p1.valid)

FrontStep(squash, target, pc, p0, p1) ==
  IF squash
  THEN /\ PC_reg' = target
       /\ just_squash' = TRUE
       /\ id_packet_out_0' = NoPacket
       /\ id_packet_out_1' = NoPacket
  ELSE /\ PC_reg' = IF PC_enable(pc, p0, p1) THEN next_PC(pc, p0, p1)
                    ELSE PC_reg
       /\ just_squash' = FALSE
       /\ id_packet_out_0' = p0
       /\ id_packet_out_1' = p1
=============================================================================
