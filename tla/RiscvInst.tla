------------------------------ MODULE RiscvInst ------------------------------
(***************************************************************************)
(* Instructions as the test bench reads them: inst_t of                    *)
(* testbench/riscv_inst.h, which takes a word apart and puts it together   *)
(* again, get_opcode_str of visual_c_hooks.cpp, which names it in the      *)
(* debugger, and print_stage of pipe_print.c, which names it in            *)
(* pipeline.out.                                                           *)
(*                                                                         *)
(* The tables of the instructions are in the code three times: in decode,  *)
(* in select and in print_stage.  They are three times here, too.          *)
(*                                                                         *)
(* A word is its fields; bits 31..20 are funct7 and rs2.  The constants of *)
(* op_t are written like the strings; imm_value is the number sign_imm     *)
(* makes of it.                                                            *)
(***************************************************************************)
EXTENDS Integers

CONSTANTS
  Funct7s,   \* values of bits 31..25 that words are made of
  Regs       \* values of the three fields of five bits

ASSUME InstAssumption == Funct7s \subseteq 0 .. 127 /\ Regs \subseteq 0 .. 31

VARIABLES
  inst,   \* the word, and whether the stage that holds it is valid
  unit,   \* the inst_t: what decode or assign made of the word
  text,   \* the names the debugger and the printer give it
  step    \* how far it is

instVars == <<inst, unit, text, step>>

Opcodes == {55, 23, 111, 103, 99, 3, 35, 19, 51, 15, 115} \* 0x37, 0x17, 0x6f ..
Undefined == 43                                          \* any other opcode

Words == [opcode : Opcodes \cup {Undefined}, rd : Regs, funct3 : 0 .. 7,
          rs1 : Regs, rs2 : Regs, funct7 : Funct7s]

Upper(w) == w.funct7 * 32 + w.rs2           \* funct12
Bits(v, hi, lo) == (v \div 2^lo) % 2^(hi - lo + 1)
NOOP_INST == [opcode |-> 19, rd |-> 0, funct3 |-> 0, rs1 |-> 0, rs2 |-> 0,
              funct7 |-> 0]

-----------------------------------------------------------------------------
(* decode: the tables, one switch in another.                              *)

branch_str(funct3) ==
  CASE funct3 = 0 -> "beq" [] funct3 = 1 -> "bne" [] funct3 = 4 -> "blt"
    [] funct3 = 5 -> "bge" [] funct3 = 6 -> "bltu" [] funct3 = 7 -> "bgeu"
    [] OTHER -> "invalid"

load_str(funct3) ==
  CASE funct3 = 0 -> "lb" [] funct3 = 1 -> "lh" [] funct3 = 2 -> "lw"
    [] funct3 = 4 -> "lbu" [] funct3 = 5 -> "lhu" [] OTHER -> "invalid"

store_str(funct3) ==
  CASE funct3 = 0 -> "sb" [] funct3 = 1 -> "sh" [] funct3 = 2 -> "sw"
    [] OTHER -> "invalid"

immediate_str(funct3, funct7) ==
  CASE funct3 = 0 -> "addi" [] funct3 = 2 -> "slti" [] funct3 = 3 -> "sltiu"
    [] funct3 = 4 -> "xori" [] funct3 = 6 -> "ori" [] funct3 = 7 -> "andi"
    [] funct3 = 1 /\ funct7 = 0 -> "slli" [] funct3 = 5 /\ funct7 = 0 -> "srli"
    [] funct3 = 5 /\ funct7 = 32 -> "srai" [] OTHER -> "invalid"

\* By funct7 << 4 | funct3.
arithmetic_str(key) ==
  CASE key = 0 -> "add" [] key = 512 -> "sub" [] key = 1 -> "sll"
    [] key = 2 -> "slt" [] key = 3 -> "sltu" [] key = 4 -> "xor"
    [] key = 5 -> "srl" [] key = 517 -> "sra" [] key = 6 -> "or"
    [] key = 7 -> "and" [] key = 16 -> "mul" [] key = 17 -> "mulh"
    [] key = 18 -> "mulhsu" [] key = 19 -> "mulhu" [] key = 20 -> "div"
    [] key = 21 -> "divu" [] key = 22 -> "rem" [] key = 23 -> "remu"
    [] OTHER -> "invalid"

system_str(funct3, funct12) ==
  CASE funct3 = 0 /\ funct12 = 0 -> "ecall" [] funct3 = 0 /\ funct12 = 1 -> "ebreak"
    [] funct3 = 0 /\ funct12 = 261 -> "wfi"
    [] funct3 = 0 /\ funct12 \notin {0, 1, 261} -> "system"
    [] funct3 = 1 -> "csrrw" [] funct3 = 2 -> "csrrs" [] funct3 = 3 -> "csrrc"
    [] funct3 = 5 -> "csrrwi" [] funct3 = 6 -> "csrrsi" [] funct3 = 7 -> "csrrci"
    [] OTHER -> "invalid"

\* What has a name and no op.
Unimplemented == {"invalid", "div", "divu", "rem", "remu", "fence", "ecall",
                  "ebreak", "system", "csrrw", "csrrs", "csrrc", "csrrwi",
                  "csrrsi", "csrrci"}

riscv_t == {"RType", "IType", "SType", "UType", "PType"}
imm_t == {"Rimm", "Iimm", "Simm", "Bimm", "Uimm", "Jimm"}

str(w) ==
  CASE w.opcode = 55  -> "LUI"
    [] w.opcode = 23  -> "auipc"
    [] w.opcode = 111 -> "jal"
    [] w.opcode = 103 -> "jalr"
    [] w.opcode = 99  -> branch_str(w.funct3)
    [] w.opcode = 3   -> load_str(w.funct3)
    [] w.opcode = 35  -> store_str(w.funct3)
    [] w.opcode = 19  -> immediate_str(w.funct3, w.funct7)
    [] w.opcode = 51  -> arithmetic_str(w.funct7 * 16 + w.funct3)
    [] w.opcode = 15  -> "fence"
    [] w.opcode = 115 -> system_str(w.funct3, Upper(w))
    [] OTHER -> "invalid"

\* The format, and that of the immediate.  For a fence and for an undefined
\* opcode nothing is assigned: what was in memory stays.
Formats(opcode) ==
  CASE opcode \in {55, 23}     -> {<<"UType", "Uimm">>}
    [] opcode = 111            -> {<<"UType", "Jimm">>}
    [] opcode \in {103, 3, 19} -> {<<"IType", "Iimm">>}
    [] opcode = 99             -> {<<"SType", "Bimm">>}
    [] opcode = 35             -> {<<"SType", "Simm">>}
    [] opcode = 51             -> {<<"RType", "Rimm">>}
    [] opcode = 115            -> {<<"PType", "Rimm">>}
    [] OTHER                   -> riscv_t \X imm_t

\* imm_value, by the format; 0 where the format has none.
analyze(w, imm) ==
  LET sign == w.funct7 \div 64
      high == w.funct7 % 64
  IN  CASE imm = "Iimm" ->
             IF w.opcode = 19 /\ w.funct3 \in {1, 5} THEN w.rs2
             ELSE high * 32 + w.rs2 - sign * 2^11
        [] imm = "Simm" -> high * 32 + w.rd - sign * 2^11
        [] imm = "Bimm" ->
             2 * (w.rd \div 2 + high * 2^4 + (w.rd % 2) * 2^10) - sign * 2^12
        [] imm = "Uimm" ->
             w.funct7 * 2^13 + w.rs2 * 2^8 + w.rs1 * 2^3 + w.funct3
        [] imm = "Jimm" ->
             2 * (w.rs2 \div 2 + high * 2^4 + (w.rs2 % 2) * 2^10
                    + (w.rs1 * 8 + w.funct3) * 2^11) - sign * 2^20
        [] OTHER -> 0

decode(w) ==
  {[op |-> IF str(w) \in Unimplemented THEN "INVALID"
           ELSE IF str(w) = "LUI" THEN "lui" ELSE str(w),
    str |-> str(w), riscv |-> f[1], imm |-> f[2], imm_value |-> analyze(w, f[2]),
    opcode |-> w.opcode, rd |-> w.rd, funct3 |-> w.funct3, rs1 |-> w.rs1,
    rs2 |-> w.rs2, funct7 |-> w.funct7, funct12 |-> Upper(w)] :
   f \in Formats(w.opcode)}

-----------------------------------------------------------------------------
(* select: the fields an op has.  Its immediate is an Iimm for jalr, loads *)
(* and immediates, and a Uimm for jal, which has one of its own kind.      *)

ImmediateOps == [addi |-> 0, slti |-> 2, sltiu |-> 3, andi |-> 7, ori |-> 6,
                 xori |-> 4, slli |-> 1, srli |-> 5, srai |-> 5]
UpperOps == [lui |-> 55, auipc |-> 23]
ArithmeticOps == [add |-> 0, slt |-> 2, sltu |-> 3, and |-> 7, or |-> 6,
                  xor |-> 4, sll |-> 1, srl |-> 5, sra |-> 5, sub |-> 0]
MultiplyOps == [mul |-> 0, mulh |-> 1, mulhu |-> 3, mulhsu |-> 2]
JumpOps == [jal |-> 111, jalr |-> 103]
BranchOps == [beq |-> 0, bne |-> 1, blt |-> 4, bltu |-> 6, bge |-> 5, bgeu |-> 7]
MemoryOps == [lb |-> 0, lh |-> 1, lw |-> 2, lbu |-> 4, lhu |-> 5,
              sb |-> 0, sh |-> 1, sw |-> 2]

\* A field that is not set keeps what was in memory; encode reads none of them,
\* 0 stands for it.
select(op) ==
  LET Sel(riscv, imm, opcode, funct3, funct7) ==
        [riscv |-> riscv, imm |-> imm, opcode |-> opcode, funct3 |-> funct3,
         funct7 |-> funct7, funct12 |-> IF op = "wfi" THEN 261 ELSE 0]
      bit30 == IF op \in {"srai", "sra", "sub"} THEN 32 ELSE 0
  IN  CASE op \in DOMAIN ImmediateOps ->
             Sel("IType", "Iimm", 19, ImmediateOps[op], bit30)
        [] op \in DOMAIN UpperOps -> Sel("UType", "Uimm", UpperOps[op], 0, 0)
        [] op \in DOMAIN ArithmeticOps ->
             Sel("RType", "Rimm", 51, ArithmeticOps[op], bit30)
        [] op = "jal"  -> Sel("UType", "Uimm", JumpOps[op], 0, 0)
        [] op = "jalr" -> Sel("IType", "Iimm", JumpOps[op], 0, 0)
        [] op \in DOMAIN BranchOps -> Sel("SType", "Bimm", 99, BranchOps[op], 0)
        [] op \in {"lb", "lh", "lw", "lbu", "lhu"} ->
             Sel("IType", "Iimm", 3, MemoryOps[op], 0)
        [] op \in {"sb", "sh", "sw"} -> Sel("SType", "Simm", 35, MemoryOps[op], 0)
        [] op \in DOMAIN MultiplyOps -> Sel("RType", "Rimm", 51, MultiplyOps[op], 1)
        [] op = "wfi"  -> Sel("PType", "Rimm", 115, 0, 0)

assign(i, sel) ==
  [x \in DOMAIN i |-> IF x \in DOMAIN sel THEN sel[x] ELSE i[x]]

-----------------------------------------------------------------------------
(* encode: the word of an inst_t.                                          *)

Put(i, rd, funct3, rs1, rs2, funct7) ==
  [opcode |-> i.opcode, rd |-> rd, funct3 |-> funct3, rs1 |-> rs1, rs2 |-> rs2,
   funct7 |-> funct7]

\* Bit 31 of the word is not written for a Simm.
encode(i) ==
  LET v == i.imm_value
  IN  CASE i.riscv = "RType" -> Put(i, i.rd, i.funct3, i.rs1, i.rs2, i.funct7)
        [] i.riscv = "IType" ->
             Put(i, i.rd, i.funct3, i.rs1, Bits(v, 4, 0),
                 IF i.op \in {"slli", "srli", "srai"} THEN i.funct7
                 ELSE Bits(v, 11, 5))
        [] i.riscv = "SType" ->
             Put(i,
                 CASE i.imm = "Simm" -> Bits(v, 4, 0)
                   [] i.imm = "Bimm" -> Bits(v, 11, 11) + 2 * Bits(v, 4, 1)
                   [] OTHER -> 0,
                 i.funct3, i.rs1, i.rs2,
                 CASE i.imm = "Simm" -> Bits(v, 10, 5)
                   [] i.imm = "Bimm" -> Bits(v, 10, 5) + 64 * Bits(v, 12, 12)
                   [] OTHER -> 0)
        [] i.riscv = "UType" ->
             (CASE i.imm = "Uimm" ->
                     Put(i, i.rd, Bits(v, 2, 0), Bits(v, 7, 3), Bits(v, 12, 8),
                         Bits(v, 19, 13))
                [] i.imm = "Jimm" ->
                     Put(i, i.rd, Bits(v, 14, 12), Bits(v, 19, 15),
                         Bits(v, 11, 11) + 2 * Bits(v, 4, 1),
                         Bits(v, 10, 5) + 64 * Bits(v, 20, 20))
                [] OTHER -> Put(i, i.rd, 0, 0, 0, 0))
        [] i.riscv = "PType" ->
             Put(i, i.rd, i.funct3, i.rs1, i.funct12 % 32, i.funct12 \div 32)

-----------------------------------------------------------------------------
(* The names.                                                              *)

\* The debugger reads the validity as a character: 'x' is not valid.
get_opcode_str(w, valid) ==
  IF valid # "1" THEN "-" ELSE IF w = NOOP_INST THEN "nop" ELSE str(w)

\* Mutation: the shifts are told apart by another bit.
ShiftName(funct3, funct7) ==
  CASE funct7 = 0 -> <<"slli", "srli">>[funct3 \div 5 + 1]
    [] funct3 = 5 /\ funct7 = 64 -> "srai"
    [] OTHER -> "invalid"

\* The printer's word is an int: what it shifts down keeps its sign.
Signed(funct7) == IF funct7 < 64 THEN funct7 ELSE funct7 - 128

shift_name(funct3, funct7) ==
  CASE funct7 = 0 -> <<"slli", "srli">>[funct3 \div 5 + 1]
    [] funct3 = 5 /\ funct7 = 32 -> "srai"
    [] OTHER -> "invalid"

\* By funct7: <<funct3 = 0, 1, .. >>.
arithmetic_name(funct3, funct7) ==
  CASE funct7 = 0 ->
         <<"add", "sll", "slt", "sltu", "xor", "srl", "or", "and">>[funct3 + 1]
    [] funct7 = 32 /\ funct3 \in {0, 5} -> IF funct3 = 0 THEN "sub" ELSE "sra"
    [] funct7 = 1 ->
         <<"mul", "mulh", "mulhsu", "mulhu", "div", "divu", "rem", "remu">>
           [funct3 + 1]
    [] OTHER -> "invalid"

system_name(funct3, funct12) ==
  IF funct3 = 0
  THEN CASE funct12 = 0 -> "ecall" [] funct12 = 1 -> "ebreak"
         [] funct12 = 261 -> "wfi" [] OTHER -> "system"
  ELSE <<"csrrw", "csrrs", "csrrc", "invalid", "csrrwi", "csrrsi", "csrrci">>
         [funct3]

instruction_name(w) ==
  LET funct7 == Signed(w.funct7)
      Name(names) == names[w.funct3 + 1]
  IN  CASE w.opcode = 55  -> "lui"
        [] w.opcode = 23  -> "auipc"
        [] w.opcode = 111 -> "jal"
        [] w.opcode = 103 -> "jalr"
        [] w.opcode = 99 ->
             Name(<<"beq", "bne", "invalid", "invalid", "blt", "bge", "bltu",
                    "bgeu">>)
        [] w.opcode = 3 ->
             Name(<<"lb", "lh", "lw", "invalid", "lbu", "lhu", "invalid",
                    "invalid">>)
        [] w.opcode = 35 ->
             IF w.funct3 < 3 THEN <<"sb", "sh", "sw">>[w.funct3 + 1]
             ELSE "invalid"
        [] w.opcode = 19 ->
             IF w.funct3 \in {1, 5} THEN shift_name(w.funct3, funct7)
             ELSE Name(<<"addi", "", "slti", "sltiu", "xori", "", "ori", "andi">>)
        [] w.opcode = 51  -> arithmetic_name(w.funct3, funct7)
        [] w.opcode = 15  -> "fence"
        [] w.opcode = 115 -> system_name(w.funct3, funct7 * 32 + w.rs2)
        [] OTHER -> "invalid"

print_stage(w, valid) ==
  IF valid = "0" THEN "-" ELSE IF w = NOOP_INST THEN "nop" ELSE instruction_name(w)

-----------------------------------------------------------------------------
(* A word is named by both, taken apart, and put together again: from the  *)
(* fields it had, or from those select gives its op.                       *)

InstInit ==
  /\ inst \in [word : Words, valid : {"0", "1", "x"}]
  /\ inst.valid # "1" => inst.word.rd = inst.word.rs1 /\ inst.word.rs1 = inst.word.rs2
  /\ unit = <<>> /\ text = <<>> /\ step = "fetched"

Decode ==
  /\ step = "fetched" /\ step' = "decoded"
  /\ unit' \in decode(inst.word)
  /\ text' = <<get_opcode_str(inst.word, inst.valid),
               print_stage(inst.word, IF inst.valid = "x" THEN "0" ELSE inst.valid)>>
  /\ UNCHANGED inst

Assign ==
  /\ step = "decoded" /\ unit.op # "INVALID" /\ step' = "assigned"
  /\ unit' = assign(unit, select(unit.op))
  /\ UNCHANGED <<inst, text>>

Encode ==
  /\ step \in {"decoded", "assigned"}
  /\ step' = IF step = "decoded" THEN "encoded" ELSE "encoded anew"
  /\ unit' = [word |-> encode(unit), op |-> unit.op]
  /\ UNCHANGED <<inst, text>>

InstNext == Decode \/ Assign \/ Encode

InstSpec == InstInit /\ [][InstNext]_instVars

-----------------------------------------------------------------------------
(* Properties.                                                             *)

\* The debugger and the printer give a word one name, but for the letters of
\* LUI (visual_c_hooks.cpp shows riscv_inst.h's string, pipe_print.c prints
\* "lui"): two tables that are kept apart say the same of every field.
NamesAgree ==
  step # "fetched" =>
    text[1] = text[2] \/ text = <<"LUI", "lui">>

\* A word that has an op, taken apart by decode, is put together again by
\* encode, and so it is from the fields that select knows.  Three exceptions:
\* bit 31 of a store is lost in both (riscv_inst.h:921-923), so a store whose
\* bit 31 is set never comes back; and from the fields of select neither jal,
\* whose immediate is a Uimm there, nor jalr, which decode takes for one
\* whatever its funct3, has to come back.
RoundTrip ==
  step \in {"encoded", "encoded anew"} /\ unit.op # "INVALID" =>
    LET word == inst.word
        kept == IF word.opcode = 35 THEN [word EXCEPT !.funct7 = @ % 64] ELSE word
    IN  \/ unit.word = kept
        \/ step = "encoded anew" /\ unit.op \in {"jal", "jalr"}

\* Both, with these exceptions.
TablesAgree == NamesAgree /\ RoundTrip
=============================================================================
