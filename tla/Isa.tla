--------------------------------- MODULE Isa ---------------------------------
(***************************************************************************)
(* The instruction set as far as the control of the pipeline can tell its  *)
(* instructions apart, and the machine a programmer sees: one instruction  *)
(* after the other.                                                        *)
(*                                                                         *)
(* Words are 0 .. WORD - 1 and hold two bytes of BYTE values each; an      *)
(* instruction address counts instructions, so PC[2] of the source is      *)
(* pc % 2.  Decoding (verilog/decoder.sv, the dest_reg and req_reg muxes   *)
(* of dispatch_stage_2.sv) and execution (fu_base_block.sv, the operand    *)
(* muxes of fu_*.sv) keep one representative per class of instruction:     *)
(*   li    no source register           (LUI, AUIPC)                       *)
(*   add   two sources, one cycle       (ADD .. SRA)                       *)
(*   mul   two sources, several cycles  (MUL ..)                           *)
(*   beq   conditional branch           (BEQ .. BGEU)                      *)
(*   jal / jalr, load / store of a byte or a word, wfi, illegal            *)
(***************************************************************************)
EXTENDS Integers

CONSTANTS
  Reg,          \* register numbers
  WORD,         \* number of values of a register
  BYTE,         \* number of values of a byte; WORD = BYTE * BYTE
  MEM_BYTES     \* bytes of data memory

ZERO_REG == 0

Value == 0 .. WORD - 1
ByteAddr == 0 .. MEM_BYTES - 1
Pc == 0 .. WORD - 1

ASSUME IsaAssumption ==
  /\ Reg \subseteq Nat /\ 0 \in Reg
  /\ BYTE \in Nat /\ BYTE >= 2 /\ BYTE % 2 = 0 /\ WORD = BYTE * BYTE
  /\ MEM_BYTES \in Nat /\ MEM_BYTES >= 2 /\ MEM_BYTES % 2 = 0

-----------------------------------------------------------------------------
(* Decoding.                                                               *)

\* What the decoder makes of the all-zero word, and of an invalid input.
ILLEGAL == [op |-> "illegal", rd |-> 0, rs1 |-> 0, rs2 |-> 0, imm |-> 0,
            size |-> 2]
NOP == [op |-> "nop", rd |-> 0, rs1 |-> 0, rs2 |-> 0, imm |-> 0, size |-> 2]

\* The words of a text.
Op == {"li", "add", "mul", "beq", "jal", "jalr", "load", "store", "wfi",
       "illegal"}
Instruction == [op : Op, rd : Reg, rs1 : Reg, rs2 : Reg, imm : Value,
                size : {1, 2}]

cond_branch(i) == i.op = "beq"
uncond_branch(i) == i.op \in {"jal", "jalr"}
mult_op(i) == i.op = "mul"
rd_mem(i) == i.op = "load"
wr_mem(i) == i.op = "store"
isHalt(i) == i.op = "wfi"
isIllegal(i) == i.op = "illegal"

\* valid_inst of the decoder; its comment says that a halt is not valid, its
\* assignment says that it is.
valid_inst(i) == ~isIllegal(i) /\ i.op # "nop"

dest_reg_idx(i) ==
  IF i.op \in {"li", "add", "mul", "jal", "jalr", "load"} THEN i.rd
  ELSE ZERO_REG

\* The operands an instruction waits for.
req_reg(i) ==
  CASE i.op \in {"li", "jal"} -> {}
    [] i.op \in {"jalr", "load"} -> {1}
    [] OTHER -> {1, 2}

input_reg_idx(i, k) ==
  IF k \notin req_reg(i) THEN 0 ELSE IF k = 1 THEN i.rs1 ELSE i.rs2

-----------------------------------------------------------------------------
(* Execution, of operands v1 and v2.                                       *)

NPC(pc) == (pc + 1) % WORD

take_branch(i, v1, v2) ==
  uncond_branch(i) \/ (cond_branch(i) /\ v1 = v2)

\* The result of the unit: a sum, a product, or where a branch goes.
alu_result(i, v1, v2) ==
  CASE i.op = "li" -> i.imm
    [] i.op = "mul" -> (v1 * v2) % WORD
    [] i.op \in {"beq", "jal"} -> i.imm
    [] i.op = "jalr" -> (v1 + i.imm) % WORD
    [] OTHER -> (v1 + v2) % WORD

next_pc(i, pc, v1, v2) ==
  IF take_branch(i, v1, v2) THEN alu_result(i, v1, v2) ELSE NPC(pc)

address(i, v1) == (v1 + i.imm) % MEM_BYTES

Trim(v, size) == IF size = 1 THEN v % BYTE ELSE v

\* Little endian; a word lies at an even address.
Align(a, size) == IF size = 2 THEN a - (a % 2) ELSE a

MemRead(m, a, size) ==
  IF size = 1 THEN m[a]
  ELSE m[Align(a, 2)] + BYTE * m[Align(a, 2) + 1]

MemWrite(m, a, size, v) ==
  IF size = 1 THEN [m EXCEPT ![a] = v % BYTE]
  ELSE [m EXCEPT ![Align(a, 2)] = v % BYTE,
                 ![Align(a, 2) + 1] = v \div BYTE]

-----------------------------------------------------------------------------
(* The sequential machine: s is the program counter, the registers and the *)
(* data memory.                                                            *)

Fetch(prog, pc) == IF pc \in DOMAIN prog THEN prog[pc] ELSE ILLEGAL

Execute(prog, s) ==
  LET i == Fetch(prog, s.pc)
      v1 == s.regs[i.rs1]
      v2 == s.regs[i.rs2]
      result == CASE uncond_branch(i) -> NPC(s.pc)
                  [] rd_mem(i) -> MemRead(s.mem, address(i, v1), i.size)
                  [] OTHER -> alu_result(i, v1, v2)
  IN  [pc |-> next_pc(i, s.pc, v1, v2),
       regs |-> IF dest_reg_idx(i) = ZERO_REG THEN s.regs
                ELSE [s.regs EXCEPT ![i.rd] = result],
       mem |-> IF wr_mem(i)
               THEN MemWrite(s.mem, address(i, v1), i.size, v2)
               ELSE s.mem]

Runnable(prog, s) ==
  ~isHalt(Fetch(prog, s.pc)) /\ ~isIllegal(Fetch(prog, s.pc))
=============================================================================
