---------------------------- MODULE P6Core_proofs ----------------------------
(***************************************************************************)
(* Proofs about the core, for every program text, every size of the        *)
(* reorder buffer and of the store queue, every set of units, every answer *)
(* of the predictors and every delay of the caches.                        *)
(***************************************************************************)
EXTENDS P6Core, Order_proofs

\* The proofs about the reorder buffer, applied to the one of the core.
R == INSTANCE Rob_proofs WITH IdPacket <- {}, CdbPacket <- {}

-----------------------------------------------------------------------------
(* The types of the registers.                                             *)

Decoded == Instruction \cup {NOP}

Packet == [valid : BOOLEAN, inst : Decoded, PC : Pc, NPC_out : Pc,
           take_branch : BOOLEAN]

Info == [tag : 0 .. ROB_SIZE, V : Value, V_ready : BOOLEAN]

StationType == [T_dest : RobIdx, rs_entry_info : [1 .. 2 -> Info]]

WorkingType == [inst : Decoded, PC : Pc, selected : BOOLEAN,
                rs_value : Value \X Value, rs_value_valid : BOOLEAN,
                storeq_pos : 0 .. NO_SQ_POS]

UnitType == [valid : BOOLEAN, step : 0 .. NUM_STAGE, result : Value]

LoadType == [addr : ByteAddr, mem_size : 0 .. 2, valid : BOOLEAN,
             filled : BOOLEAN, sq_pos : 0 .. NO_SQ_POS]

StoreType == [addr : ByteAddr, mem_size : 0 .. 2, filled : BOOLEAN,
              value : Value]

FrontTyped ==
  /\ program \in Programs
  /\ PC_reg \in Pc /\ just_squash \in BOOLEAN
  /\ id_packet_out_0 \in Packet /\ id_packet_out_1 \in Packet

MapTyped ==
  /\ Tag \in [Reg -> 0 .. ROB_SIZE]
  /\ ready_in_ROB \in [Reg -> BOOLEAN]
  /\ registers \in [Reg -> Value]

RsTyped ==
  /\ rs_entries \in [Fu -> StationType]
  /\ busy \in SUBSET Fu
  /\ working \in [Fu -> WorkingType]
  /\ unit \in [Fu -> UnitType]

LsqTyped ==
  /\ lq_entries \in [FU_LS -> LoadType]
  /\ lq_retire_valid \in [FU_LS -> BOOLEAN]
  /\ lq_value \in [FU_LS -> Value]
  /\ lq_selection \in FU_LS
  /\ sq_entries \in [SqIdx -> StoreType]
  /\ sq_head \in SqIdx /\ sq_tail \in SqIdx /\ sq_counter \in Int
  /\ sq_rob_valid \in BOOLEAN

Typed ==
  /\ FrontTyped
  /\ MapTyped
  /\ RsTyped
  /\ LsqTyped
  /\ RobInv
  /\ mem \in [ByteAddr -> 0 .. BYTE - 1]
  /\ commit_PC \in Pc

-----------------------------------------------------------------------------
(* What the front end offers is the text, in pairs.                        *)

FromText(p) == p.valid => /\ p.inst = Fetch(program, p.PC)
                          /\ valid_inst(p.inst)

PairOffered ==
  /\ FromText(id_packet_out_0) /\ FromText(id_packet_out_1)
  /\ id_packet_out_1.valid =>
       /\ ~Upper(id_packet_out_0.PC) /\ ~id_packet_out_0.take_branch
       /\ id_packet_out_1.PC = NPC(id_packet_out_0.PC)
       /\ ~Phantoms => id_packet_out_0.valid

\* What the prediction of an instruction leaves in a packet, and in an entry.
Predicted(i, p) ==
  /\ p.take_branch => cond_branch(i)
  /\ ~p.take_branch /\ ~uncond_branch(i) => p.NPC_out = NPC(p.PC)

PacketsPredicted ==
  /\ id_packet_out_0.valid => Predicted(id_packet_out_0.inst, id_packet_out_0)
  /\ id_packet_out_1.valid => Predicted(id_packet_out_1.inst, id_packet_out_1)

FrontGood == PairOffered /\ PacketsPredicted

-----------------------------------------------------------------------------
(* Stations, units and entries.                                            *)

Waiting == {t \in Live : ~rob_entries[t].ready /\ ~rob_entries[t].halt}

UnitsWork ==
  /\ \A f \in busy : rs_entries[f].T_dest \in Waiting
  /\ \A t \in Waiting : \E f \in busy : rs_entries[f].T_dest = t
  /\ \A f, g \in busy : rs_entries[f].T_dest = rs_entries[g].T_dest => f = g
  /\ \A f \in busy :
       /\ working[f].PC = rob_entries[rs_entries[f].T_dest].PC
       /\ working[f].inst = Fetch(program, working[f].PC)
       /\ f \in fu_type(working[f].inst)

\* The map table, without CHOOSE.
RenamesYoungestOf(r) ==
  \/ Tag[r] = ZERO_TAG /\ ~ready_in_ROB[r] /\ Writers(r) = {}
  \/ /\ Tag[r] \in Writers(r)
     /\ \A u \in Writers(r) : Age(u) <= Age(Tag[r])
     /\ ready_in_ROB[r] = rob_entries[Tag[r]].ready

Renames ==
  /\ Tag[ZERO_REG] = ZERO_TAG
  /\ \A r \in Reg \ {ZERO_REG} : RenamesYoungestOf(r)

OperandComes(f, k) ==
  LET o == rs_entries[f].rs_entry_info[k]
  IN  ~o.V_ready => /\ o.tag \in Live
                    /\ ~rob_entries[o.tag].ready
                    /\ Age(o.tag) < Age(rs_entries[f].T_dest)

OperandsCome == \A f \in busy, k \in 1 .. 2 : OperandComes(f, k)

-----------------------------------------------------------------------------
(* The path of the program through the reorder buffer.                     *)

\* The instruction an entry stands for.
Word(t) == Fetch(program, rob_entries[t].PC)

\* Behind a jump, which is always squashed, and behind a halt, which never
\* retires, the entries may be any.
Ends(i) == uncond_branch(i) \/ isHalt(i)

GoodEntry(e, i) ==
  /\ valid_inst(i)
  /\ e.halt = isHalt(i) /\ e.store = wr_mem(i)
  /\ e.dest_reg_idx = dest_reg_idx(i)
  /\ cond_branch(i) => e.is_branch
  /\ Predicted(i, e)
  /\ e.ready => /\ ~isHalt(i)
                /\ Diverted(e) \/ (~uncond_branch(i)
                                   /\ e.branch_target = e.NPC_out)
  /\ ~e.ready => ~e.mis_pred

EntryGood(t) == GoodEntry(rob_entries[t], Word(t))

EntriesGood == \A t \in Live : EntryGood(t)

\* A word in the upper half of a pair that does not decode, behind one that
\* can fall through to it: the front end dispatches the one in front of it
\* over and over.
DeadEnds ==
  \E pc \in Pc : /\ ~Upper(pc)
                 /\ valid_inst(Fetch(program, pc))
                 /\ ~Ends(Fetch(program, pc))
                 /\ isIllegal(Fetch(program, NPC(pc)))

Leads(t, pc) == Ends(Word(t)) \/ pc = rob_entries[t].NPC_out

Stuck == \E t \in Live : Resolved(t)

\* pc is where the program goes on behind the youngest entry.
GoesOn(pc) ==
  /\ rob_counter = 0 => pc = commit_PC
  /\ \A t \in Live : Age(t) = rob_counter - 1 => Leads(t, pc)

FrontPath ==
  LET p0 == id_packet_out_0
      p1 == id_packet_out_1
  IN  IF just_squash
      THEN rob_counter = 0 /\ PC_reg = commit_PC /\ ~p0.valid /\ ~p1.valid
      ELSE /\ GoesOn(p0.PC)
           /\ ~p0.valid => PC_reg = p0.PC
           /\ p1.valid => PC_reg = p1.NPC_out
           /\ p0.valid /\ ~p1.valid => PC_reg = p0.NPC_out \/ Ends(p0.inst)

RobPath ==
  /\ \A t \in Live : Age(t) = 0 => rob_entries[t].PC = commit_PC
  /\ \A t, u \in Live : Age(u) = Age(t) + 1 => Leads(t, rob_entries[u].PC)

PathGood == RobPath /\ (~Stuck => FrontPath)

-----------------------------------------------------------------------------
(* The operators of the instruction set.                                   *)

LEMMA WordIs ==
  /\ WORD \in Nat /\ WORD >= 4 /\ BYTE \in Nat /\ 2 <= BYTE /\ BYTE <= WORD
  /\ Pc = Value /\ 0 \in Value /\ 1 \in Value
<1>1. BYTE \in Nat /\ 2 <= BYTE /\ WORD = BYTE * BYTE
  BY IsaAssumption
<1>2. BYTE * BYTE \in Nat /\ 2 * BYTE <= BYTE * BYTE
  BY <1>1
<1>. QED  BY <1>1, <1>2 DEF Pc, Value

LEMMA ModIs ==
  ASSUME NEW a \in Int, NEW n \in Nat, n > 0  PROVE a % n \in 0 .. n - 1
OBVIOUS

LEMMA NpcIs == ASSUME NEW pc \in Pc  PROVE NPC(pc) \in Pc
BY WordIs, ModIs DEF NPC, Pc

LEMMA NopIs == NOP \notin Instruction /\ NOP.op = "nop" /\ ~valid_inst(NOP)
BY DEF NOP, Instruction, Op, valid_inst, isIllegal

LEMMA DestIs == ASSUME NEW i \in Decoded  PROVE dest_reg_idx(i) \in Reg
BY IsaAssumption
   DEF Decoded, Instruction, NOP, dest_reg_idx, ZERO_REG

LEMMA SourceIs ==
  ASSUME NEW i \in Decoded, NEW k \in 1 .. 2  PROVE input_reg_idx(i, k) \in Reg
BY IsaAssumption DEF Decoded, Instruction, NOP, input_reg_idx

LEMMA AluIs ==
  ASSUME NEW i \in Decoded, NEW v1 \in Value, NEW v2 \in Value
  PROVE  alu_result(i, v1, v2) \in Value
<1>1. WORD \in Nat /\ WORD > 0 /\ v1 \in Int /\ v2 \in Int /\ i.imm \in Value
  BY WordIs, IsaAssumption DEF Value, Decoded, Instruction, NOP
<1>2. (v1 * v2) % WORD \in Value
  <2>1. v1 * v2 \in Int
    BY <1>1
  <2>. QED  BY <1>1, <2>1, ModIs DEF Value
<1>3. (v1 + v2) % WORD \in Value /\ (v1 + i.imm) % WORD \in Value
  BY <1>1, ModIs DEF Value
<1>. QED  BY <1>1, <1>2, <1>3 DEF alu_result

LEMMA AddressIs ==
  ASSUME NEW i \in Decoded, NEW v1 \in Value
  PROVE  address(i, v1) \in ByteAddr
<1>1. v1 + i.imm \in Int
  BY WordIs, IsaAssumption DEF Value, Decoded, Instruction, NOP
<1>. QED  BY <1>1, ModIs, IsaAssumption DEF address, ByteAddr

LEMMA TrimIs ==
  ASSUME NEW v \in Value, NEW s  PROVE Trim(v, s) \in Value
<1>1. v % BYTE \in 0 .. BYTE - 1
  BY WordIs, ModIs DEF Value
<1>. QED  BY <1>1, WordIs DEF Trim, Value

MemType == [ByteAddr -> 0 .. BYTE - 1]

LEMMA AlignIs ==
  ASSUME NEW a \in ByteAddr
  PROVE  Align(a, 2) \in ByteAddr /\ Align(a, 2) + 1 \in ByteAddr
BY IsaAssumption DEF Align, ByteAddr

LEMMA MemReadIs ==
  ASSUME NEW m \in MemType, NEW a \in ByteAddr, NEW s
  PROVE  MemRead(m, a, s) \in Value
<1> DEFINE lo == m[Align(a, 2)]
           hi == m[Align(a, 2) + 1]
<1>1. m[a] \in 0 .. BYTE - 1 /\ lo \in 0 .. BYTE - 1 /\ hi \in 0 .. BYTE - 1
  BY AlignIs DEF MemType
<1> HIDE DEF lo, hi
<1>2. BYTE * hi \in Nat /\ BYTE * hi <= BYTE * (BYTE - 1)
  BY <1>1, WordIs
<1>3. BYTE * (BYTE - 1) = WORD - BYTE
  BY IsaAssumption
<1>4. lo + BYTE * hi \in Value
  BY <1>1, <1>2, <1>3, WordIs DEF Value
<1>5. m[a] \in Value
  BY <1>1, WordIs DEF Value
<1>. QED  BY <1>4, <1>5 DEF MemRead, lo, hi

LEMMA MemWriteIs ==
  ASSUME NEW m \in MemType, NEW a \in ByteAddr, NEW s, NEW v \in Value
  PROVE  MemWrite(m, a, s, v) \in MemType
<1>1. v \in Nat /\ v < BYTE * BYTE /\ BYTE \in Nat /\ BYTE > 0
  BY WordIs, IsaAssumption DEF Value
<1>2. v % BYTE \in 0 .. BYTE - 1
  BY <1>1, ModIs
<1>3. v \div BYTE \in 0 .. BYTE - 1
  BY <1>1
<1>. QED  BY <1>2, <1>3 DEF MemWrite, MemType

-----------------------------------------------------------------------------
(* One clock cycle, with the choices that it leaves open.                  *)

Moves(grant, slow, late) ==
  LET d == Dispatch(busy \ (grant[1] \cup grant[2]))
  IN  /\ ~halt
      /\ grant \in Grants(Requests) /\ slow \in BOOLEAN /\ late \in BOOLEAN
      /\ Back(grant, d, Reply(slow), StoreTaken(late))
      /\ FetchPair(working_PC_reg(d.en0, d.en1), IcacheMiss)
      /\ MemStep(late)
      /\ Commit(sq_rob_valid)
      /\ program' = program

LEMMA CycleIs == Cycle => \E grant, slow, late : Moves(grant, slow, late)
<1> SUFFICES ASSUME Cycle PROVE \E grant, slow, late : Moves(grant, slow, late)
  OBVIOUS
<1>1. PICK grant \in Grants(Requests),
           slow \in IF lsq_load_dc.valid THEN DcacheMiss ELSE {FALSE},
           late \in IF lsq_store_dc(sq_retire).valid THEN DcacheMiss
                    ELSE {FALSE} :
        LET d == Dispatch(busy \ (grant[1] \cup grant[2]))
        IN  /\ Back(grant, d, Reply(slow), StoreTaken(late))
            /\ FetchPair(working_PC_reg(d.en0, d.en1), IcacheMiss)
            /\ MemStep(late)
            /\ Commit(sq_rob_valid)
  BY DEF Cycle, Clock
<1>2. ~halt /\ program' = program
  BY DEF Cycle, Clock
<1>3. slow \in BOOLEAN /\ late \in BOOLEAN
  BY CoreAssumption
<1>4. Moves(grant, slow, late)
  BY <1>1, <1>2, <1>3 DEF Moves
<1>. QED  BY <1>4

\* A bus carries the result of at most one unit, which asks; the buses serve
\* different units.
Granted(s) == s = {} \/ \E f \in Requests : s = {f}

LEMMA GrantIs ==
  ASSUME NEW grant \in Grants(Requests)
  PROVE  /\ Granted(grant[1]) /\ Granted(grant[2])
         /\ grant[1] \cap grant[2] = {}
<1>1. \A S \in SUBSET Requests : \A s \in One(Urgent(S)) :
        s = {} \/ \E f \in S : s = {f}
  BY DEF One, Urgent
<1>2. PICK a \in One(Urgent(Requests \cap HALF_0)),
           b \in One(Urgent(Requests \ HALF_0)) : grant = <<a, b>>
  BY DEF Grants
<1>3. /\ a = {} \/ \E f \in Requests \cap HALF_0 : a = {f}
      /\ b = {} \/ \E f \in Requests \ HALF_0 : b = {f}
  BY <1>1
<1>4. grant[1] = a /\ grant[2] = b
  BY <1>2
<1>. QED  BY <1>3, <1>4 DEF Granted

LEMMA FetchIs ==
  ASSUME FrontTyped, NEW pc  PROVE Fetch(program, pc) \in Instruction
<1>1. ILLEGAL \in Instruction
  BY IsaAssumption, WordIs DEF ILLEGAL, Instruction, Op
<1>2. \A a \in DOMAIN program : program[a] \in Instruction
  BY CoreAssumption DEF FrontTyped
<1>. QED  BY <1>1, <1>2 DEF Fetch

\* The result that a bus carries.
Carried(s) == CdbOf(s, lsq_fu)

LEMMA ResultIs ==
  ASSUME RsTyped, LsqTyped, NEW f \in Fu
  PROVE  /\ UnitResult(f, lsq_fu) \in Value
         /\ TakesBranch(f) \in BOOLEAN
<1>1. /\ working[f] \in WorkingType /\ unit[f] \in UnitType
      /\ working[f].rs_value[1] \in Value /\ working[f].rs_value[2] \in Value
      /\ working[f].inst \in Decoded
  BY DEF RsTyped, WorkingType
<1>2. f \in FU_LS => lsq_fu[f].value \in Value
  BY DEF LsqTyped, lsq_fu
<1>3. f \in FU_LS => Trim(lsq_fu[f].value, working[f].inst.size) \in Value
  BY <1>2, TrimIs
<1>4. alu_result(working[f].inst, working[f].rs_value[1],
                 working[f].rs_value[2]) \in Value
  BY <1>1, AluIs
<1>5. unit[f].result \in Value
  BY <1>1 DEF UnitType
<1>. QED  BY <1>3, <1>4, <1>5, WordIs DEF UnitResult, TakesBranch

LEMMA CarriedIs ==
  ASSUME Typed, NEW s, Granted(s)
  PROVE  /\ Carried(s) \in CdbEntry
         /\ Carried(s).valid <=> s # {}
         /\ \A f \in s : Carried(s) = rs_cdb(f, lsq_fu)
         /\ \A f \in s : Carried(s).tag = rs_entries[f].T_dest
<1>1. CASE s = {}
  BY <1>1, WordIs, CoreAssumption DEF Carried, CdbOf, NoCdb, CdbEntry
<1>2. CASE \E f \in Requests : s = {f}
  <2>1. PICK f \in Requests : s = {f}
    BY <1>2
  <2>2. Carried(s) = rs_cdb(f, lsq_fu)
    BY <2>1 DEF Carried, CdbOf
  <2>3. f \in Fu /\ working[f].PC \in Pc /\ rs_entries[f].T_dest \in 0 .. ROB_SIZE
    BY CoreAssumption
       DEF Requests, Typed, RsTyped, WorkingType, StationType, RobIdx
  <2>4. NPC(working[f].PC) \in Pc
    BY <2>3, NpcIs
  <2>5. UnitResult(f, lsq_fu) \in Value /\ TakesBranch(f) \in BOOLEAN
    BY <2>3, ResultIs DEF Typed
  <2>6. rs_cdb(f, lsq_fu) \in CdbEntry /\ rs_cdb(f, lsq_fu).valid
        /\ rs_cdb(f, lsq_fu).tag = rs_entries[f].T_dest
    BY <2>3, <2>4, <2>5, WordIs DEF rs_cdb, CdbEntry
  <2>. QED  BY <2>1, <2>2, <2>6
<1>. QED  BY <1>1, <1>2 DEF Granted

\* The stations that the slots take.
Taken(grant) == busy \ (grant[1] \cup grant[2])

Takes(u, inst, taken, yes) ==
  /\ u = {} \/ \E f \in Fu \ taken : u = {f} /\ f \in fu_type(inst)
  /\ u # {} <=> yes

LEMMA FirstFreeIs ==
  ASSUME NEW inst, NEW taken
  PROVE  \/ FirstFree(fu_type(inst), taken) = {}
         \/ \E f \in Fu \ taken : /\ FirstFree(fu_type(inst), taken) = {f}
                                  /\ f \in fu_type(inst)
<1>1. fu_type(inst) \subseteq Fu /\ Fu \subseteq Nat
  BY SelectionAssumption DEF fu_type, Fu
<1>2. ASSUME NEW f \in FirstFree(fu_type(inst), taken),
             NEW h \in FirstFree(fu_type(inst), taken)
      PROVE  f = h
  <2>1. f \in Nat /\ h \in Nat /\ f <= h /\ h <= f
    BY <1>1 DEF FirstFree
  <2>. QED  BY <2>1
<1>3. FirstFree(fu_type(inst), taken) \subseteq (Fu \ taken) \cap fu_type(inst)
  BY <1>1 DEF FirstFree
<1>. QED  BY <1>2, <1>3

LEMMA DispatchIs ==
  ASSUME NEW taken
  PROVE  LET d == Dispatch(taken)
         IN  /\ d.en0 \in BOOLEAN /\ d.en1 \in BOOLEAN
             /\ d.en0 => ~rob_full_0
             /\ d.en1 => d.en0 /\ ~rob_full_1
             /\ Takes(d.u0, id_packet_out_0.inst, taken,
                      d.en0 /\ id_valid(id_packet_out_0))
             /\ Takes(d.u1, id_packet_out_1.inst, taken \cup d.u0,
                      d.en1 /\ id_valid(id_packet_out_1))
             /\ d.en1 => ~BothLs(id_packet_out_0.inst, id_packet_out_1.inst)
             /\ d.en0 /\ wr_mem(id_packet_out_0.inst) => ~storeq_full
             /\ d.en1 /\ wr_mem(id_packet_out_1.inst) => ~storeq_full
<1> DEFINE d == Dispatch(taken)
           i0 == id_packet_out_0.inst
           i1 == id_packet_out_1.inst
           out0 == FirstFree(fu_type(i0), taken)
           out1 == FirstFree(fu_type(i1), taken \cup d.u0)
<1>1. /\ d.en0 = (~rob_full_0 /\ ~(out0 = {} \/ (wr_mem(i0) /\ storeq_full)))
      /\ d.u0 = IF d.en0 /\ id_valid(id_packet_out_0) THEN out0 ELSE {}
      /\ d.en1 = (~rob_full_1
                  /\ ~(\/ out0 = {} \/ (wr_mem(i0) /\ storeq_full)
                       \/ out1 = {}
                       \/ BothLs(i0, i1)
                       \/ wr_mem(i1) /\ storeq_full))
      /\ d.u1 = IF d.en1 /\ id_valid(id_packet_out_1) /\ ~BothLs(i0, i1)
                THEN out1 ELSE {}
  BY DEF Dispatch
<1>2. Takes(d.u0, i0, taken, d.en0 /\ id_valid(id_packet_out_0))
  <2>1. out0 = {} \/ \E f \in Fu \ taken : out0 = {f} /\ f \in fu_type(i0)
    BY FirstFreeIs
  <2> HIDE DEF d, out0, i0
  <2>. QED  BY <1>1, <2>1 DEF Takes
<1>3. Takes(d.u1, i1, taken \cup d.u0, d.en1 /\ id_valid(id_packet_out_1))
  <2>1. \/ out1 = {}
        \/ \E f \in Fu \ (taken \cup d.u0) : out1 = {f} /\ f \in fu_type(i1)
    <3> DEFINE u == d.u0
    <3> HIDE DEF d, u
    <3>1. \/ FirstFree(fu_type(i1), taken \cup u) = {}
          \/ \E f \in Fu \ (taken \cup u) :
               FirstFree(fu_type(i1), taken \cup u) = {f} /\ f \in fu_type(i1)
      BY FirstFreeIs
    <3>. QED  BY <3>1 DEF u
  <2> HIDE DEF d, out0, out1, i1
  <2>. QED  BY <1>1, <2>1 DEF Takes
<1> HIDE DEF d, out0, out1, i0, i1
<1>4. rob_full_0 => rob_full_1
  BY DEF rob_full_1
<1>5. /\ d.en0 \in BOOLEAN /\ d.en1 \in BOOLEAN
      /\ d.en0 => ~rob_full_0
      /\ d.en1 => d.en0 /\ ~rob_full_1
      /\ d.en1 => ~BothLs(i0, i1)
      /\ d.en0 /\ wr_mem(i0) => ~storeq_full
      /\ d.en1 /\ wr_mem(i1) => ~storeq_full
  BY <1>1, <1>4
<1>. QED  BY <1>2, <1>3, <1>5 DEF d, i0, i1

-----------------------------------------------------------------------------
(* The reorder buffer keeps its invariant in the core.                     *)

LEMMA RobAssumed == R!RobAssumption
BY IsaAssumption, CoreAssumption, WordIs
   DEF R!RobAssumption, ZERO_REG, Value, Pc, R!IdRobPacket, R!CdbEntry

LEMMA SameInv == (R!RobInv <=> RobInv) /\ ((R!RobInv)' <=> RobInv')
BY DEF R!RobInv, RobInv, R!RobTypeOK, RobTypeOK, R!WindowAgrees, WindowAgrees,
       R!DeadSlotsClear, DeadSlotsClear, R!RobIdx, RobIdx, R!RobEntry, RobEntry,
       R!InWindow, InWindow, R!Age, Age, R!EmptyEntry, EmptyEntry

LEMMA SameStep ==
  ASSUME NEW id0, NEW id1, NEW cdb0, NEW cdb1, NEW acked
  PROVE  /\ R!RobReset <=> RobReset
         /\ R!RobMove(id0, id1, cdb0, cdb1, acked)
              <=> RobMove(id0, id1, cdb0, cdb1, acked)
BY DEF R!RobReset, RobReset, R!RobMove, RobMove, R!RobAdvance, RobAdvance,
       R!RobCount, RobCount, R!RobSucc, RobSucc, R!NextEntry, NextEntry,
       R!Accepted_0, Accepted_0, R!Accepted_1, Accepted_1, R!NewEntry,
       NewEntry, R!Retired, Retired, R!AfterCdb, AfterCdb, R!Hits, Hits,
       R!Complete, Complete, R!EmptyEntry, EmptyEntry, R!squash_0, squash_0,
       R!retire_valid_0, retire_valid_0, R!retire_valid_1, retire_valid_1,
       R!Diverted, Diverted, R!HeadEntry, HeadEntry, R!SecondEntry,
       SecondEntry, R!rob_head_plus_1, rob_head_plus_1, R!rob_tail_plus_1,
       rob_tail_plus_1, R!rob_empty, rob_empty, R!RobIdx, RobIdx

LEMMA SameDispatch ==
  ASSUME NEW id0, NEW id1,
         id0.dispatch_enable => ~rob_full_0, id1.dispatch_enable => ~rob_full_1
  PROVE  R!DispatchEnable(id0, id1)
<1>1. R!EarlyBranch = EarlyBranch
  BY DEF R!EarlyBranch, EarlyBranch, R!FirstResolved, FirstResolved,
         R!Resolved, Resolved, R!rob_empty, rob_empty, R!RobIdx, RobIdx
<1>. QED
  BY <1>1 DEF R!DispatchEnable, R!rob_full_0, rob_full_0, R!rob_full_1,
              rob_full_1, R!early_branch_valid, early_branch_valid

\* The ports of the reorder buffer in a cycle.
Port_0(grant) == ToRob(id_packet_out_0, Dispatch(Taken(grant)).en0)
Port_1(grant) == ToRob(id_packet_out_1, Dispatch(Taken(grant)).en1)

LEMMA PortIs ==
  ASSUME FrontTyped, NEW p \in {id_packet_out_0, id_packet_out_1},
         NEW en \in BOOLEAN
  PROVE  ToRob(p, en) \in IdRobPacket
<1>1. p \in Packet /\ p.inst \in Decoded
  BY DEF FrontTyped, Packet
<1>2. dest_reg_idx(p.inst) \in Reg
  BY <1>1, DestIs
<1>3. /\ wr_mem(p.inst) \in BOOLEAN /\ isHalt(p.inst) \in BOOLEAN
      /\ isIllegal(p.inst) \in BOOLEAN
      /\ (cond_branch(p.inst) \/ uncond_branch(id_packet_out_1.inst)) \in BOOLEAN
  BY DEF wr_mem, isHalt, isIllegal, cond_branch, uncond_branch
<1>. QED  BY <1>1, <1>2, <1>3 DEF ToRob, Packet, IdRobPacket

LEMMA PortsAre ==
  ASSUME FrontTyped, NEW grant
  PROVE  /\ Port_0(grant) \in IdRobPacket /\ Port_1(grant) \in IdRobPacket
         /\ R!DispatchEnable(Port_0(grant), Port_1(grant))
<1> DEFINE d == Dispatch(Taken(grant))
<1>1. /\ d.en0 \in BOOLEAN /\ d.en1 \in BOOLEAN
      /\ d.en0 => ~rob_full_0
      /\ d.en1 => ~rob_full_1
  BY DispatchIs
<1> HIDE DEF d
<1>2. Port_0(grant) = ToRob(id_packet_out_0, d.en0)
      /\ Port_1(grant) = ToRob(id_packet_out_1, d.en1)
  BY DEF d, Port_0, Port_1
<1>3. Port_0(grant) \in IdRobPacket /\ Port_1(grant) \in IdRobPacket
  BY <1>1, <1>2, PortIs
<1>4. Port_0(grant).dispatch_enable = d.en0
      /\ Port_1(grant).dispatch_enable = d.en1
  BY <1>2 DEF ToRob
<1>. QED  BY <1>1, <1>3, <1>4, SameDispatch

LEMMA RobStepIs ==
  ASSUME NEW grant, NEW slow, NEW late, Moves(grant, slow, late)
  PROVE  RobStep(Port_0(grant), Port_1(grant), Carried(grant[1]),
                 Carried(grant[2]), sq_rob_valid)
BY DEF Moves, Back, Port_0, Port_1, Carried, Taken

LEMMA RobMoves ==
  ASSUME Typed, NEW grant, NEW slow, NEW late, Moves(grant, slow, late)
  PROVE  RobInv'
<1>1. /\ Port_0(grant) \in IdRobPacket /\ Port_1(grant) \in IdRobPacket
      /\ R!DispatchEnable(Port_0(grant), Port_1(grant))
  BY PortsAre DEF Typed
<1>2. Granted(grant[1]) /\ Granted(grant[2])
  BY GrantIs DEF Moves
<1>3. Carried(grant[1]) \in CdbEntry /\ Carried(grant[2]) \in CdbEntry
  BY <1>2, CarriedIs
<1>4. R!IdRobPacket = IdRobPacket /\ R!CdbEntry = CdbEntry
  BY DEF R!IdRobPacket, IdRobPacket, R!CdbEntry, CdbEntry
<1>5. R!RobInv /\ sq_rob_valid \in BOOLEAN
  BY SameInv DEF Typed, LsqTyped
<1>6. CASE squash(sq_rob_valid)
  <2>1. R!RobReset
    BY <1>6, RobStepIs, SameStep DEF RobStep
  <2>2. (R!RobInv)'
    BY <2>1, RobAssumed, R!RobInvReset
  <2>. QED  BY <2>2, SameInv
<1>7. CASE ~squash(sq_rob_valid)
  <2>1. R!RobMove(Port_0(grant), Port_1(grant), Carried(grant[1]),
                  Carried(grant[2]), sq_rob_valid)
    BY <1>7, RobStepIs, SameStep DEF RobStep
  <2>2. (R!RobInv)'
    BY <1>1, <1>3, <1>4, <1>5, <2>1, RobAssumed, R!RobInvMove
  <2>. QED  BY <2>2, SameInv
<1>. QED  BY <1>6, <1>7

-----------------------------------------------------------------------------
(* The other registers keep their types.                                   *)

LEMMA SuccIs ==
  ASSUME NEW t \in RobIdx  PROVE RobSucc(t) \in RobIdx /\ RobSucc(t) # t
BY CoreAssumption DEF RobSucc, RobIdx

LEMMA EntriesAre ==
  ASSUME RobInv
  PROVE  /\ rob_head \in RobIdx /\ rob_tail \in RobIdx
         /\ rob_head_plus_1 \in RobIdx /\ rob_tail_plus_1 \in RobIdx
         /\ rob_counter \in 0 .. ROB_SIZE
         /\ \A t \in RobIdx : rob_entries[t] \in RobEntry
         /\ HeadEntry \in RobEntry /\ SecondEntry \in RobEntry
<1>1. /\ rob_head \in RobIdx /\ rob_tail \in RobIdx
      /\ rob_counter \in 0 .. ROB_SIZE
      /\ \A t \in RobIdx : rob_entries[t] \in RobEntry
  BY DEF RobInv, RobTypeOK
<1>2. rob_head_plus_1 \in RobIdx /\ rob_tail_plus_1 \in RobIdx
  BY <1>1, SuccIs DEF rob_head_plus_1, rob_tail_plus_1
<1>. QED  BY <1>1, <1>2 DEF HeadEntry, SecondEntry

\* The register writes of the cycle, and what the map table hears of them.
Write_0 == rob_reg_0(sq_rob_valid)
Write_1 == rob_reg_1(sq_rob_valid)
Mt_0 == ToMt(Write_0, rob_head, rob_tail)
Mt_1 == ToMt(Write_1, rob_head_plus_1, rob_tail_plus_1)

\* The registers that the slots rename, and the stations that they fill.
Renamed_0(grant) == RdDispatch(id_packet_out_0, Dispatch(Taken(grant)).en0)
Renamed_1(grant) == RdDispatch(id_packet_out_1, Dispatch(Taken(grant)).en1)

Asked_0 ==
  [k \in 1 .. 2 |->
     Lookup_0(Mt_0, Mt_1, input_reg_idx(id_packet_out_0.inst, k))]
Asked_1(grant) ==
  [k \in 1 .. 2 |->
     Lookup_1(Mt_0, Mt_1, Renamed_0(grant),
              input_reg_idx(id_packet_out_1.inst, k))]

Station_0 == Station(id_packet_out_0.inst, rob_tail, Asked_0, Write_0, Write_1)
Station_1(grant) ==
  Station(id_packet_out_1.inst, rob_tail_plus_1, Asked_1(grant), Write_0,
          Write_1)

Freed(grant) == grant[1] \cup grant[2]
Taken_0(grant) == Dispatch(Taken(grant)).u0
Taken_1(grant) == Dispatch(Taken(grant)).u1

LEMMA StepsAre ==
  ASSUME NEW grant, NEW slow, NEW late, Moves(grant, slow, late)
  PROVE  /\ RegStep(Write_0, Write_1)
         /\ MtStep(squash(sq_rob_valid), Mt_0, Mt_1, Renamed_0(grant),
                   Renamed_1(grant), Carried(grant[1]), Carried(grant[2]))
         /\ RsStep(squash(sq_rob_valid), Freed(grant),
                   id_packet_out_0, Taken_0(grant), Station_0,
                   storeq_pos(id_packet_out_0),
                   id_packet_out_1, Taken_1(grant), Station_1(grant),
                   storeq_pos(id_packet_out_1),
                   Carried(grant[1]), Carried(grant[2]))
         /\ LsqStep(squash(sq_rob_valid),
                    rs_lsq(Taken_0(grant), Taken_1(grant)), fu_lsq, sq_retire,
                    Reply(slow), StoreTaken(late))
BY DEF Moves, Back, Write_0, Write_1, Mt_0, Mt_1, Renamed_0, Renamed_1,
       Asked_0, Asked_1, Station_0, Station_1, Freed, Taken_0, Taken_1,
       Carried, Taken

LEMMA WritesAre ==
  ASSUME RobInv
  PROVE  /\ Write_0.dest_value \in Value /\ Write_1.dest_value \in Value
         /\ Mt_0.rob_tail = rob_tail /\ Mt_1.rob_tail = rob_tail_plus_1
         /\ Mt_0.rob_head = rob_head /\ Mt_1.rob_head = rob_head_plus_1
<1>1. HeadEntry.value \in Value /\ SecondEntry.value \in Value
  BY EntriesAre DEF RobEntry
<1>. QED
  BY <1>1 DEF Write_0, Write_1, rob_reg_0, rob_reg_1, RegWrite, Mt_0, Mt_1, ToMt

LEMMA MapTypeMoves ==
  ASSUME Typed, NEW grant, NEW slow, NEW late, Moves(grant, slow, late)
  PROVE  MapTyped'
<1>1. /\ Write_0.dest_value \in Value /\ Write_1.dest_value \in Value
      /\ Mt_0.rob_tail \in 0 .. ROB_SIZE /\ Mt_1.rob_tail \in 0 .. ROB_SIZE
      /\ ZERO_TAG \in 0 .. ROB_SIZE
  BY WritesAre, EntriesAre, CoreAssumption DEF Typed, RobIdx
<1>2. registers' \in [Reg -> Value]
  BY <1>1, StepsAre DEF RegStep, Typed, MapTyped
<1>3. Tag' \in [Reg -> 0 .. ROB_SIZE] /\ ready_in_ROB' \in [Reg -> BOOLEAN]
  <2>1. CASE squash(sq_rob_valid)
    BY <1>1, <2>1, StepsAre DEF MtStep
  <2>2. CASE ~squash(sq_rob_valid)
    <3>1. MtUpdate(Mt_0, Mt_1, Renamed_0(grant), Renamed_1(grant),
                   Carried(grant[1]), Carried(grant[2]))
      BY <2>2, StepsAre DEF MtStep
    <3>. QED  BY <1>1, <3>1 DEF MtUpdate, Typed, MapTyped
  <2>. QED  BY <2>1, <2>2
<1>. QED  BY <1>2, <1>3 DEF MapTyped

LEMMA LookupIs ==
  ASSUME Typed, NEW r \in Reg, NEW d
  PROVE  /\ Lookup_0(Mt_0, Mt_1, r)
              \in [tag : 0 .. ROB_SIZE, ready : BOOLEAN]
         /\ Lookup_1(Mt_0, Mt_1, d, r)
              \in [tag : 0 .. ROB_SIZE, ready : BOOLEAN]
<1>1. /\ Mt_0.rob_tail \in 0 .. ROB_SIZE /\ ZERO_TAG \in 0 .. ROB_SIZE
      /\ Tag[r] \in 0 .. ROB_SIZE /\ ready_in_ROB[r] \in BOOLEAN
  BY WritesAre, EntriesAre, CoreAssumption DEF Typed, RobIdx, MapTyped
<1>. QED  BY <1>1 DEF Lookup_0, Lookup_1

LEMMA OperandIs ==
  ASSUME Typed, NEW i, NEW k \in 1 .. 2,
         NEW mt \in [tag : 0 .. ROB_SIZE, ready : BOOLEAN], NEW r \in Reg
  PROVE  Operand(i, k, mt, rd_out(Write_0, Write_1, r), rob_value(mt.tag))
           \in Info
<1>1. rd_out(Write_0, Write_1, r) \in Value
  BY WritesAre, WordIs DEF Typed, MapTyped, rd_out
<1>2. rob_value(mt.tag) \in Value
  <2>1. mt.tag # ZERO_TAG => mt.tag \in RobIdx
    BY CoreAssumption DEF RobIdx
  <2>2. \A t \in RobIdx : rob_entries[t].value \in Value
    BY EntriesAre DEF Typed, RobEntry
  <2>. QED  BY <2>1, <2>2, WordIs DEF rob_value
<1>. QED
  BY <1>1, <1>2, WordIs, CoreAssumption DEF Operand, Info

LEMMA StationIs ==
  ASSUME Typed, NEW i \in Decoded, NEW t \in RobIdx,
         NEW mt, \A k \in 1 .. 2 :
                   mt[k] \in [tag : 0 .. ROB_SIZE, ready : BOOLEAN]
  PROVE  Station(i, t, mt, Write_0, Write_1) \in StationType
<1>1. ASSUME NEW k \in 1 .. 2
      PROVE  Operand(i, k, mt[k],
                     rd_out(Write_0, Write_1, input_reg_idx(i, k)),
                     rob_value(mt[k].tag)) \in Info
  BY SourceIs, OperandIs
<1>. QED  BY <1>1 DEF Station, StationType

LEMMA StationsAre ==
  ASSUME Typed, NEW grant
  PROVE  Station_0 \in StationType /\ Station_1(grant) \in StationType
<1>1. id_packet_out_0.inst \in Decoded /\ id_packet_out_1.inst \in Decoded
  BY DEF Typed, FrontTyped, Packet
<1>2. \A k \in 1 .. 2 :
        /\ Asked_0[k] \in [tag : 0 .. ROB_SIZE, ready : BOOLEAN]
        /\ Asked_1(grant)[k] \in [tag : 0 .. ROB_SIZE, ready : BOOLEAN]
  BY <1>1, SourceIs, LookupIs DEF Asked_0, Asked_1
<1>3. rob_tail \in RobIdx /\ rob_tail_plus_1 \in RobIdx
  BY EntriesAre DEF Typed
<1>. QED  BY <1>1, <1>2, <1>3, StationIs DEF Station_0, Station_1

\* The stations of the next cycle.
NextOf(grant) ==
  [f \in Fu |-> NextStation(f, Freed(grant), Taken_0(grant), Station_0,
                            Taken_1(grant), Station_1(grant),
                            Carried(grant[1]), Carried(grant[2]))]

LEMMA HeardIs ==
  ASSUME NEW i \in Info, NEW cdb \in CdbEntry  PROVE Heard(i, cdb) \in Info
BY DEF Heard, Info, CdbEntry

LEMMA EmptyAre ==
  /\ EmptyStation \in StationType
  /\ \A sel \in BOOLEAN : Idle(sel) \in WorkingType /\ Idle(sel).inst = NOP
  /\ IdleUnit \in UnitType
<1>1. EmptyInfo \in Info
  BY WordIs, CoreAssumption DEF EmptyInfo, Info
<1>2. <<EmptyInfo, EmptyInfo>> \in [1 .. 2 -> Info]
  BY <1>1
<1>3. EmptyStation \in StationType
  BY <1>2, CoreAssumption DEF EmptyStation, StationType, RobIdx
<1>4. 0 \in 0 .. NO_SQ_POS /\ 0 \in 0 .. NUM_STAGE
  BY CoreAssumption, RsAssumption DEF NO_SQ_POS
<1>5. \A sel \in BOOLEAN : Idle(sel) \in WorkingType /\ Idle(sel).inst = NOP
  BY <1>4, WordIs DEF Idle, WorkingType, Decoded
<1>6. IdleUnit \in UnitType
  BY <1>4, WordIs DEF IdleUnit, UnitType
<1>. QED  BY <1>3, <1>5, <1>6

LEMMA NextOfIs ==
  ASSUME Typed, NEW grant \in Grants(Requests)
  PROVE  NextOf(grant) \in [Fu -> StationType]
<1>1. EmptyStation \in StationType
  BY EmptyAre
<1>2. Carried(grant[1]) \in CdbEntry /\ Carried(grant[2]) \in CdbEntry
  BY GrantIs, CarriedIs
<1>3. ASSUME NEW e \in StationType
      PROVE  [e EXCEPT !.rs_entry_info =
                [k \in 1 .. 2 |-> Heard(Heard(@[k], Carried(grant[1])),
                                        Carried(grant[2]))]] \in StationType
  <2>1. ASSUME NEW k \in 1 .. 2
        PROVE  Heard(Heard(e.rs_entry_info[k], Carried(grant[1])),
                     Carried(grant[2])) \in Info
    BY <1>2, HeardIs DEF StationType
  <2>. QED  BY <2>1 DEF StationType
<1>4. ASSUME NEW f \in Fu  PROVE NextOf(grant)[f] \in StationType
  <2>1. Station_0 \in StationType /\ Station_1(grant) \in StationType
        /\ rs_entries[f] \in StationType
    BY StationsAre DEF Typed, RsTyped
  <2> DEFINE e == IF f \in Taken_1(grant) THEN Station_1(grant)
                  ELSE IF f \in Taken_0(grant) THEN Station_0
                  ELSE IF f \in Freed(grant) \cap busy THEN EmptyStation
                  ELSE rs_entries[f]
  <2>2. e \in StationType
    BY <1>1, <2>1
  <2>3. NextOf(grant)[f]
          = IF f \notin NextBusy(Freed(grant), Taken_0(grant), Taken_1(grant))
            THEN e
            ELSE [e EXCEPT !.rs_entry_info =
                    [k \in 1 .. 2 |-> Heard(Heard(@[k], Carried(grant[1])),
                                            Carried(grant[2]))]]
    BY DEF NextOf, NextStation
  <2> HIDE DEF e
  <2>. QED  BY <1>3, <2>2, <2>3
<1>. QED  BY <1>4 DEF NextOf

LEMMA StepRsIs ==
  ASSUME NEW grant, NEW slow, NEW late, Moves(grant, slow, late),
         ~squash(sq_rob_valid)
  PROVE  /\ rs_entries' = NextOf(grant)
         /\ busy' = NextBusy(Freed(grant), Taken_0(grant), Taken_1(grant))
         /\ working' = [f \in Fu |->
              IF f \in Taken_0(grant)
              THEN NextWorking(f, Freed(grant), TRUE, id_packet_out_0,
                               NextOf(grant)[f].rs_entry_info,
                               storeq_pos(id_packet_out_0))
              ELSE NextWorking(f, Freed(grant), f \in Taken_1(grant),
                               id_packet_out_1,
                               NextOf(grant)[f].rs_entry_info,
                               storeq_pos(id_packet_out_1))]
BY StepsAre DEF RsStep, RsUpdate, NextOf

LEMMA SquashRsIs ==
  ASSUME NEW grant, NEW slow, NEW late, Moves(grant, slow, late),
         squash(sq_rob_valid)
  PROVE  /\ rs_entries' = [f \in Fu |-> EmptyStation]
         /\ busy' = {}
         /\ working' = [f \in Fu |-> Idle(FALSE)]
BY StepsAre DEF RsStep, RsFlush

LEMMA LoadIs ==
  ASSUME Typed, NEW p \in Packet, NEW info \in [1 .. 2 -> Info]
  PROVE  Load(p, info, storeq_pos(p)) \in WorkingType
<1>1. storeq_pos(p) \in 0 .. NO_SQ_POS
  BY CoreAssumption
     DEF storeq_pos, storeq_tail, NO_SQ_POS, Typed, LsqTyped, SqIdx
<1>2. info[1] \in Info /\ info[2] \in Info
  OBVIOUS
<1>3. /\ info[1].V \in Value /\ info[2].V \in Value
      /\ (info[1].V_ready /\ info[2].V_ready) \in BOOLEAN
  BY <1>2 DEF Info
<1>. QED  BY <1>1, <1>3 DEF Load, WorkingType, Packet

LEMMA NextWorkingIs ==
  ASSUME Typed, NEW f \in Fu, NEW granted, NEW new \in BOOLEAN,
         NEW p \in Packet, NEW info \in [1 .. 2 -> Info]
  PROVE  NextWorking(f, granted, new, p, info, storeq_pos(p)) \in WorkingType
<1>1. Load(p, info, storeq_pos(p)) \in WorkingType
  BY LoadIs
<1>2. Idle(TRUE) \in WorkingType
  BY EmptyAre
<1>3. working[f] \in WorkingType /\ info[1] \in Info /\ info[2] \in Info
  BY DEF Typed, RsTyped
<1>4. info[1].V \in Value /\ info[2].V \in Value
  BY <1>3 DEF Info
<1>5. /\ [working[f] EXCEPT !.selected = TRUE, !.rs_value_valid = TRUE,
                            !.rs_value = <<info[1].V, info[2].V>>]
           \in WorkingType
      /\ [working[f] EXCEPT !.selected = FALSE] \in WorkingType
  BY <1>3, <1>4 DEF WorkingType
<1>. QED  BY <1>1, <1>2, <1>5 DEF NextWorking

LEMMA NextUnitIs ==
  ASSUME Typed, NEW f \in Fu  PROVE NextUnit(f) \in UnitType
<1>1. /\ working[f].inst \in Decoded /\ unit[f] \in UnitType
      /\ working[f].rs_value[1] \in Value /\ working[f].rs_value[2] \in Value
  BY DEF Typed, RsTyped, WorkingType
<1>2. alu_result(working[f].inst, working[f].rs_value[1],
                 working[f].rs_value[2]) \in Value
  BY <1>1, AluIs
<1>3. 0 \in 0 .. NUM_STAGE /\ NUM_STAGE \in Nat
  BY RsAssumption
<1>4. [unit[f] EXCEPT !.valid = TRUE] \in UnitType
  BY <1>1 DEF UnitType
<1>5. unit[f].step # NUM_STAGE => [unit[f] EXCEPT !.step = @ + 1] \in UnitType
  BY <1>1, <1>3 DEF UnitType
<1>. QED
  BY <1>2, <1>3, <1>4, <1>5, EmptyAre, WordIs DEF NextUnit, UnitType

LEMMA TakenAre ==
  ASSUME NEW grant
  PROVE  /\ Taken_0(grant) \subseteq Fu \ Taken(grant)
         /\ Taken_1(grant) \subseteq Fu \ Taken(grant)
         /\ Taken_0(grant) \cap Taken_1(grant) = {}
<1> DEFINE d == Dispatch(Taken(grant))
<1>1. /\ Takes(d.u0, id_packet_out_0.inst, Taken(grant),
               d.en0 /\ id_valid(id_packet_out_0))
      /\ Takes(d.u1, id_packet_out_1.inst, Taken(grant) \cup d.u0,
               d.en1 /\ id_valid(id_packet_out_1))
  BY DispatchIs
<1> HIDE DEF d
<1>2. /\ d.u0 \subseteq Fu \ Taken(grant)
      /\ d.u1 \subseteq Fu \ (Taken(grant) \cup d.u0)
  BY <1>1 DEF Takes
<1>. QED  BY <1>2 DEF Taken_0, Taken_1, d

LEMMA RsTypeMoves ==
  ASSUME Typed, NEW grant, NEW slow, NEW late, Moves(grant, slow, late)
  PROVE  RsTyped'
<1>1. unit' \in [Fu -> UnitType]
  BY NextUnitIs, StepsAre DEF RsStep
<1>2. CASE squash(sq_rob_valid)
  <2>1. /\ rs_entries' \in [Fu -> StationType] /\ busy' \in SUBSET Fu
        /\ working' \in [Fu -> WorkingType]
    BY <1>2, SquashRsIs, EmptyAre
  <2>. QED  BY <1>1, <2>1 DEF RsTyped
<1>3. CASE ~squash(sq_rob_valid)
  <2>1. grant \in Grants(Requests)
    BY DEF Moves
  <2>2. NextOf(grant) \in [Fu -> StationType]
    BY <2>1, NextOfIs
  <2>3. busy' \in SUBSET Fu
    BY <1>3, StepRsIs, TakenAre DEF NextBusy, Typed, RsTyped
  <2>4. id_packet_out_0 \in Packet /\ id_packet_out_1 \in Packet
    BY DEF Typed, FrontTyped
  <2>5. \A f \in Fu : NextOf(grant)[f].rs_entry_info \in [1 .. 2 -> Info]
    BY <2>2 DEF StationType
  <2>6. ASSUME NEW f \in Fu
        PROVE  /\ NextWorking(f, Freed(grant), TRUE, id_packet_out_0,
                              NextOf(grant)[f].rs_entry_info,
                              storeq_pos(id_packet_out_0)) \in WorkingType
               /\ NextWorking(f, Freed(grant), f \in Taken_1(grant),
                              id_packet_out_1, NextOf(grant)[f].rs_entry_info,
                              storeq_pos(id_packet_out_1)) \in WorkingType
    <3> DEFINE info == NextOf(grant)[f].rs_entry_info
               new == f \in Taken_1(grant)
    <3>1. info \in [1 .. 2 -> Info] /\ new \in BOOLEAN
      BY <2>5
    <3> HIDE DEF info, new
    <3>2. /\ NextWorking(f, Freed(grant), TRUE, id_packet_out_0, info,
                         storeq_pos(id_packet_out_0)) \in WorkingType
          /\ NextWorking(f, Freed(grant), new, id_packet_out_1, info,
                         storeq_pos(id_packet_out_1)) \in WorkingType
      BY <2>4, <3>1, NextWorkingIs
    <3>. QED  BY <3>2 DEF info, new
  <2>7. working' \in [Fu -> WorkingType]
    BY <1>3, <2>6, StepRsIs
  <2>. QED  BY <1>1, <1>3, <2>2, <2>3, <2>7, StepRsIs DEF RsTyped
<1>. QED  BY <1>2, <1>3

\* The answers that the data cache can give, and what the units compute.
LEMMA FuLsqIs ==
  ASSUME RsTyped, NEW i \in FU_LS
  PROVE  /\ fu_lsq[i].addr \in ByteAddr /\ fu_lsq[i].value \in Value
         /\ fu_lsq[i].mem_size \in 0 .. 2
<1>1. i \in Fu
  BY DEF Fu
<1>2. /\ working[i].inst \in Decoded
      /\ working[i].rs_value[1] \in Value /\ working[i].rs_value[2] \in Value
  BY <1>1 DEF RsTyped, WorkingType
<1>3. address(working[i].inst, working[i].rs_value[1]) \in ByteAddr
  BY <1>2, AddressIs
<1>4. working[i].inst.size \in 0 .. 2
  BY <1>2 DEF Decoded, Instruction, NOP
<1>. QED  BY <1>2, <1>3, <1>4 DEF fu_lsq

LEMMA ReplyIs ==
  ASSUME Typed, mem \in MemType, NEW slow  PROVE Reply(slow).value \in Value
<1>1. lsq_load_dc.addr \in ByteAddr
  BY DEF Typed, LsqTyped, LoadType, lsq_load_dc
<1>. QED  BY <1>1, MemReadIs, WordIs DEF Reply

LEMMA SelectionIs == LqReset.selection \in FU_LS
<1>1. FU_LS \in SUBSET Nat
  BY SelectionAssumption DEF Fu
<1>. QED  BY <1>1, LeastNat, CoreAssumption DEF LqReset

LEMMA LoadEntryIs ==
  ASSUME Typed, NEW disp, NEW i \in FU_LS
  PROVE  LoadEntry(disp, fu_lsq, sq_retire, i) \in LoadType
<1>1. /\ lq_entries[i] \in LoadType
      /\ storeq_tail \in 0 .. NO_SQ_POS /\ NO_SQ_POS \in 0 .. NO_SQ_POS
  BY CoreAssumption DEF Typed, LsqTyped, storeq_tail, NO_SQ_POS, SqIdx
<1>2. fu_lsq[i].addr \in ByteAddr /\ fu_lsq[i].mem_size \in 0 .. 2
  BY FuLsqIs DEF Typed
<1>3. 0 \in ByteAddr
  BY IsaAssumption DEF ByteAddr
<1> DEFINE e == IF LoadDispatched(disp, i)
                THEN [addr |-> 0, mem_size |-> 0, valid |-> TRUE,
                      filled |-> FALSE, sq_pos |-> storeq_tail]
                ELSE IF LoadComputed(fu_lsq, i)
                THEN [addr |-> fu_lsq[i].addr, mem_size |-> fu_lsq[i].mem_size,
                      valid |-> TRUE, filled |-> TRUE,
                      sq_pos |-> lq_entries[i].sq_pos]
                ELSE lq_entries[i]
<1>4. e \in LoadType
  BY <1>1, <1>2, <1>3 DEF LoadType
<1>5. LoadEntry(disp, fu_lsq, sq_retire, i)
        = IF sq_retire /\ e.sq_pos = sq_head
          THEN [e EXCEPT !.sq_pos = NO_SQ_POS] ELSE e
  BY DEF LoadEntry
<1> HIDE DEF e
<1>. QED  BY <1>1, <1>4, <1>5 DEF LoadType

LEMMA LqTypeMoves ==
  ASSUME Typed, NEW disp, NEW reply, reply.value \in Value,
         LqUpdate(disp, fu_lsq, sq_retire, reply)
  PROVE  /\ lq_entries' \in [FU_LS -> LoadType]
         /\ lq_retire_valid' \in [FU_LS -> BOOLEAN]
         /\ lq_value' \in [FU_LS -> Value]
         /\ lq_selection' \in FU_LS
<1> DEFINE e == [i \in FU_LS |-> LoadEntry(disp, fu_lsq, sq_retire, i)]
           done0 == [i \in FU_LS |-> StillDone(disp, fu_lsq, i)]
           stop == [i \in FU_LS |-> IF Searches(e[i], done0[i])
                                    THEN Stop(e[i]) ELSE {}]
           forwards(i) == \E j \in stop[i] : sq_entries[j].filled
           clear(i) == Searches(e[i], done0[i]) /\ stop[i] = {}
           answered(i) == reply.valid /\ i = lq_selection
           entry == [i \in FU_LS |->
                       IF clear(i) THEN [e[i] EXCEPT !.sq_pos = NO_SQ_POS]
                       ELSE e[i]]
           done == [i \in FU_LS |-> done0[i] \/ forwards(i) \/ answered(i)]
           asking == {i \in FU_LS : Asks(entry[i], done[i])}
<1>1. /\ lq_entries' = entry
      /\ lq_retire_valid' = done
      /\ lq_value' = [i \in FU_LS |->
           IF answered(i) THEN reply.value
           ELSE IF forwards(i)
           THEN sq_entries[CHOOSE j \in stop[i] : TRUE].value
           ELSE lq_value[i]]
      /\ lq_selection' =
           IF lq_selection \in asking \/ asking = {} THEN lq_selection
           ELSE CHOOSE i \in asking : \A j \in asking : j <= i
  BY DEF LqUpdate
<1>2. entry \in [FU_LS -> LoadType]
  <2>1. e \in [FU_LS -> LoadType]
    BY LoadEntryIs
  <2>2. NO_SQ_POS \in 0 .. NO_SQ_POS
    BY CoreAssumption DEF NO_SQ_POS
  <2> HIDE DEF e
  <2>. QED  BY <2>1, <2>2 DEF LoadType
<1>3. done \in [FU_LS -> BOOLEAN]
  OBVIOUS
<1>4. \A i \in FU_LS : stop[i] \subseteq SqIdx
  BY DEF Stop, Before
<1>5. lq_value' \in [FU_LS -> Value]
  <2> HIDE DEF stop
  <2>1. \A i \in FU_LS :
          forwards(i) => sq_entries[CHOOSE j \in stop[i] : TRUE].value \in Value
    BY <1>4 DEF Typed, LsqTyped, StoreType
  <2>. QED  BY <1>1, <2>1 DEF Typed, LsqTyped
<1>6. lq_selection' \in FU_LS
  <2>1. asking \in SUBSET FU_LS
    OBVIOUS
  <2> HIDE DEF asking
  <2>2. FU_LS \in SUBSET Nat /\ IsFiniteSet(asking)
    BY <2>1, SelectionAssumption, CoreAssumption, FS_Subset DEF Fu
  <2>3. asking # {} => \E i \in asking : \A j \in asking : j <= i
    BY <2>1, <2>2, GreatestOf
  <2>. QED  BY <1>1, <2>1, <2>3 DEF Typed, LsqTyped
<1>. QED  BY <1>1, <1>2, <1>3, <1>5, <1>6

LEMMA SqSuccIs == ASSUME NEW j \in SqIdx  PROVE SqSucc(j) \in SqIdx
BY CoreAssumption DEF SqSucc, SqIdx

LEMMA SqTypeMoves ==
  ASSUME Typed, NEW disp, NEW ack \in BOOLEAN, SqUpdate(disp, fu_lsq, ack)
  PROVE  /\ sq_entries' \in [SqIdx -> StoreType]
         /\ sq_head' \in SqIdx /\ sq_tail' \in SqIdx /\ sq_counter' \in Int
         /\ sq_rob_valid' \in BOOLEAN
<1>1. /\ sq_entries \in [SqIdx -> StoreType] /\ sq_head \in SqIdx
      /\ sq_tail \in SqIdx /\ sq_counter \in Int
  BY DEF Typed, LsqTyped
<1>2. /\ sq_head' \in SqIdx /\ sq_tail' \in SqIdx /\ sq_counter' \in Int
      /\ sq_rob_valid' \in BOOLEAN
  BY <1>1, SqSuccIs DEF SqUpdate
<1>3. EmptyStore \in StoreType
  BY IsaAssumption, WordIs DEF EmptyStore, StoreType, ByteAddr
<1>4. ASSUME NEW S \in SUBSET FU_LS, S # {}
      PROVE  (CHOOSE x \in S : \A y \in S : y <= x) \in FU_LS
  <2>1. FU_LS \in SUBSET Nat /\ IsFiniteSet(S)
    BY SelectionAssumption, CoreAssumption, FS_Subset DEF Fu
  <2>2. \E i \in S : \A j \in S : j <= i
    BY <1>4, <2>1, GreatestOf
  <2>. QED  BY <2>2
<1>5. ASSUME NEW i \in FU_LS
      PROVE  [addr |-> fu_lsq[i].addr, mem_size |-> fu_lsq[i].mem_size,
              filled |-> TRUE, value |-> fu_lsq[i].value] \in StoreType
  BY FuLsqIs DEF Typed, StoreType
<1>6. sq_entries' = [j \in SqIdx |->
        LET by == StoreComputed(fu_lsq, j)
            i == CHOOSE x \in by : \A y \in by : y <= x
        IN  IF by # {}
            THEN [addr |-> fu_lsq[i].addr, mem_size |-> fu_lsq[i].mem_size,
                  filled |-> TRUE, value |-> fu_lsq[i].value]
            ELSE IF ack /\ j = sq_head THEN EmptyStore
            ELSE sq_entries[j]]
  BY DEF SqUpdate
<1>7. ASSUME NEW j \in SqIdx  PROVE sq_entries'[j] \in StoreType
  <2> DEFINE by == StoreComputed(fu_lsq, j)
             i == CHOOSE x \in by : \A y \in by : y <= x
  <2>1. by \in SUBSET FU_LS
    BY DEF StoreComputed
  <2>2. sq_entries'[j]
          = IF by # {}
            THEN [addr |-> fu_lsq[i].addr, mem_size |-> fu_lsq[i].mem_size,
                  filled |-> TRUE, value |-> fu_lsq[i].value]
            ELSE IF ack /\ j = sq_head THEN EmptyStore
            ELSE sq_entries[j]
    BY <1>6
  <2>3. by # {} => i \in FU_LS
    <3> HIDE DEF by
    <3>. QED  BY <1>4, <2>1
  <2> HIDE DEF by, i
  <2>. QED  BY <1>1, <1>3, <1>5, <2>2, <2>3
<1>8. sq_entries' \in [SqIdx -> StoreType]
  BY <1>6, <1>7
<1>. QED  BY <1>2, <1>8

LEMMA LsqEmptyTyped ==
  /\ LqReset.entries \in [FU_LS -> LoadType]
  /\ LqReset.retire_valid \in [FU_LS -> BOOLEAN]
  /\ LqReset.value \in [FU_LS -> Value]
  /\ LqReset.selection \in FU_LS
  /\ EmptyStore \in StoreType
  /\ 0 \in SqIdx
BY SelectionIs, IsaAssumption, CoreAssumption, WordIs
   DEF LqReset, EmptyLoad, LoadType, ByteAddr, NO_SQ_POS, EmptyStore, StoreType,
       SqIdx

LEMMA LsqTypeMoves ==
  ASSUME Typed, NEW grant, NEW slow, NEW late, Moves(grant, slow, late)
  PROVE  LsqTyped'
<1>1. LsqStep(squash(sq_rob_valid),
              rs_lsq(Taken_0(grant), Taken_1(grant)), fu_lsq, sq_retire,
              Reply(slow), StoreTaken(late))
  BY StepsAre
<1>2. CASE squash(sq_rob_valid)
  <2>1. /\ lq_entries' = LqReset.entries
        /\ lq_retire_valid' = LqReset.retire_valid
        /\ lq_value' = LqReset.value
        /\ lq_selection' = LqReset.selection
    BY <1>1, <1>2 DEF LsqStep, LqStep
  <2>2. /\ sq_entries' = [j \in SqIdx |-> EmptyStore]
        /\ sq_head' = 0 /\ sq_tail' = 0 /\ sq_counter' = 0
        /\ sq_rob_valid' \in BOOLEAN
    BY <1>1, <1>2 DEF LsqStep, SqStep
  <2>. QED  BY <2>1, <2>2, LsqEmptyTyped DEF LsqTyped
<1>3. CASE ~squash(sq_rob_valid)
  <2>1. Reply(slow).value \in Value
    BY ReplyIs DEF Typed, MemType
  <2>2. StoreTaken(late) \in BOOLEAN
    BY DEF StoreTaken
  <2>3. /\ LqUpdate(rs_lsq(Taken_0(grant), Taken_1(grant)), fu_lsq, sq_retire,
                    Reply(slow))
        /\ SqUpdate(rs_lsq(Taken_0(grant), Taken_1(grant)), fu_lsq,
                    StoreTaken(late))
    BY <1>1, <1>3 DEF LsqStep, LqStep, SqStep
  <2>. QED  BY <2>1, <2>2, <2>3, LqTypeMoves, SqTypeMoves DEF LsqTyped
<1>. QED  BY <1>2, <1>3

-----------------------------------------------------------------------------
(* The front end.                                                          *)

\* A pair of packets that was fetched at pc.
Fetched(pc, p0, p1) ==
  /\ p0 \in Packet /\ p1 \in Packet
  /\ p0.PC = pc /\ p1.PC = NPC(pc)
  /\ FromText(p0) /\ FromText(p1)
  /\ p0.valid => Predicted(p0.inst, p0)
  /\ p1.valid => Predicted(p1.inst, p1)
  /\ p1.valid => /\ ~Upper(pc) /\ ~p0.take_branch
                 /\ ~Phantoms => p0.valid
  /\ p0.valid /\ ~p1.valid /\ ~Upper(pc) /\ ~p0.take_branch
       => isIllegal(Fetch(program, NPC(pc)))
  /\ MayMiss(pc, IcacheMiss) = {FALSE} /\ valid_inst(Fetch(program, pc))
       => p0.valid

LEMMA GuessIs ==
  ASSUME NEW i, NEW pc \in Pc, NEW v, NEW g \in Guesses(i, pc, v)
  PROVE  /\ g.NPC_out \in Pc /\ g.branch_predict \in BOOLEAN
         /\ g.branch_predict => cond_branch(i)
         /\ ~g.branch_predict /\ ~uncond_branch(i) => g.NPC_out = NPC(pc)
<1>1. NPC(pc) \in Pc /\ Targets \subseteq Pc
  BY NpcIs, CoreAssumption
<1> DEFINE to(t, taken) == [branch_predict |-> taken, NPC_out |-> t]
<1>2. \/ g = to(NPC(pc), FALSE)
      \/ cond_branch(i) /\ \E t \in Targets : g = to(t, TRUE)
      \/ uncond_branch(i) /\ \E t \in Targets : g = to(t, FALSE)
  BY DEF Guesses
<1>3. CASE g = to(NPC(pc), FALSE)
  BY <1>1, <1>3
<1>4. CASE cond_branch(i) /\ \E t \in Targets : g = to(t, TRUE)
  BY <1>1, <1>4
<1>5. CASE uncond_branch(i) /\ \E t \in Targets : g = to(t, FALSE)
  BY <1>1, <1>5
<1>. QED  BY <1>2, <1>3, <1>4, <1>5

LEMMA PacketIs ==
  ASSUME NEW i \in Decoded, NEW pc \in Pc, NEW hit \in BOOLEAN,
         NEW g \in Guesses(i, pc, hit), hit => i = NOP \/ i = Fetch(program, pc)
  PROVE  LET p == id_packet(i, pc, hit, g)
         IN  /\ p \in Packet /\ p.PC = pc /\ p.inst = i
             /\ FromText(p) /\ (p.valid => Predicted(p.inst, p))
             /\ p.valid <=> hit /\ valid_inst(i)
             /\ p.take_branch = g.branch_predict
<1> DEFINE p == id_packet(i, pc, hit, g)
<1>1. /\ g.NPC_out \in Pc /\ g.branch_predict \in BOOLEAN
      /\ g.branch_predict => cond_branch(i)
      /\ ~g.branch_predict /\ ~uncond_branch(i) => g.NPC_out = NPC(pc)
  BY GuessIs
<1>2. /\ p.valid = (valid_inst(i) /\ hit) /\ p.inst = i /\ p.PC = pc
      /\ p.NPC_out = g.NPC_out /\ p.take_branch = g.branch_predict
      /\ p = [valid |-> p.valid, inst |-> p.inst, PC |-> p.PC,
              NPC_out |-> p.NPC_out, take_branch |-> p.take_branch]
  BY DEF id_packet
<1>3. valid_inst(i) \in BOOLEAN
  BY DEF valid_inst
<1>4. p \in Packet
  BY <1>1, <1>3 DEF id_packet, Packet
<1> HIDE DEF p
<1>5. FromText(p)
  BY <1>2, NopIs DEF FromText
<1>6. Predicted(p.inst, p)
  BY <1>1, <1>2 DEF Predicted
<1>. QED  BY <1>2, <1>4, <1>5, <1>6 DEF p

LEMMA FetchPairIs ==
  ASSUME FrontTyped, NEW pc \in Pc, FetchPair(pc, IcacheMiss)
  PROVE  \E p0, p1 : /\ Fetched(pc, p0, p1)
                     /\ FrontStep(squash(sq_rob_valid),
                                  squash_target(sq_rob_valid), pc, p0, p1)
<1> DEFINE Steps(p0, p1) ==
             FrontStep(squash(sq_rob_valid), squash_target(sq_rob_valid), pc,
                       p0, p1)
<1>a. PICK miss \in MayMiss(pc, IcacheMiss) :
        \E g0 \in Guesses(inst_0(program, pc, ~miss), pc, ~miss) :
        \E g1 \in Guesses(inst_1(program, pc, ~miss, g0.branch_predict),
                          NPC(pc), ~miss) :
          Steps(id_packet(inst_0(program, pc, ~miss), pc, ~miss, g0),
                id_packet(inst_1(program, pc, ~miss, g0.branch_predict),
                          NPC(pc), ~miss, g1))
  BY DEF FetchPair
<1>b. PICK g0 \in Guesses(inst_0(program, pc, ~miss), pc, ~miss) :
        \E g1 \in Guesses(inst_1(program, pc, ~miss, g0.branch_predict),
                          NPC(pc), ~miss) :
          Steps(id_packet(inst_0(program, pc, ~miss), pc, ~miss, g0),
                id_packet(inst_1(program, pc, ~miss, g0.branch_predict),
                          NPC(pc), ~miss, g1))
  BY <1>a
<1>1. PICK g1 \in Guesses(inst_1(program, pc, ~miss, g0.branch_predict),
                          NPC(pc), ~miss) :
        Steps(id_packet(inst_0(program, pc, ~miss), pc, ~miss, g0),
              id_packet(inst_1(program, pc, ~miss, g0.branch_predict),
                        NPC(pc), ~miss, g1))
  BY <1>b
<1> DEFINE hit == ~miss
           i0 == inst_0(program, pc, hit)
           i1 == inst_1(program, pc, hit, g0.branch_predict)
           p0 == id_packet(i0, pc, hit, g0)
           p1 == id_packet(i1, NPC(pc), hit, g1)
           w0 == Fetch(program, pc)
           w1 == Fetch(program, NPC(pc))
<1>2. hit \in BOOLEAN
  OBVIOUS
<1>3. /\ w0 \in Instruction /\ w1 \in Instruction /\ ILLEGAL \in Instruction
      /\ NPC(pc) \in Pc
  <2>1. ILLEGAL \in Instruction
    BY IsaAssumption, WordIs DEF ILLEGAL, Instruction, Op
  <2>. QED  BY <2>1, FetchIs, NpcIs
<1>4. /\ i0 \in Decoded /\ i1 \in Decoded
      /\ hit => i0 = w0
      /\ hit => i1 = NOP \/ i1 = w1
      /\ Upper(pc) \/ g0.branch_predict => i1 = NOP
      /\ hit /\ ~Upper(pc) /\ ~g0.branch_predict => i1 = w1
  BY <1>3 DEF inst_0, inst_1, Decoded
<1>5. \A i \in Instruction : valid_inst(i) <=> ~isIllegal(i)
  BY DEF Instruction, Op, valid_inst, isIllegal
<1>6. /\ MayMiss(pc, IcacheMiss) = {FALSE} => hit
      /\ g0 \in Guesses(i0, pc, hit) /\ g1 \in Guesses(i1, NPC(pc), hit)
  OBVIOUS
<1>7. FrontStep(squash(sq_rob_valid), squash_target(sq_rob_valid), pc, p0, p1)
  BY <1>1
<1> HIDE DEF hit, w0, w1, i0, i1
<1>8. /\ p0 \in Packet /\ p0.PC = pc /\ p0.inst = i0
      /\ FromText(p0) /\ (p0.valid => Predicted(p0.inst, p0))
      /\ p0.valid <=> hit /\ valid_inst(i0)
      /\ p0.take_branch = g0.branch_predict
  <2>1. hit => i0 = NOP \/ i0 = Fetch(program, pc)
    BY <1>4 DEF w0
  <2>. QED  BY <1>2, <1>4, <1>6, <2>1, PacketIs
<1>9. /\ p1 \in Packet /\ p1.PC = NPC(pc) /\ p1.inst = i1
      /\ FromText(p1) /\ (p1.valid => Predicted(p1.inst, p1))
      /\ p1.valid <=> hit /\ valid_inst(i1)
  <2>1. hit => i1 = NOP \/ i1 = Fetch(program, NPC(pc))
    BY <1>4 DEF w1
  <2>2. NPC(pc) \in Pc
    BY <1>3
  <2>. QED  BY <1>2, <1>4, <1>6, <2>1, <2>2, PacketIs
<1> HIDE DEF p0, p1
<1>10. ~Phantoms /\ ~Upper(pc) /\ valid_inst(w1) => valid_inst(w0)
  BY <1>3, <1>5 DEF Phantoms, w0, w1
<1>11. Fetched(pc, p0, p1)
  BY <1>3, <1>4, <1>5, <1>6, <1>8, <1>9, <1>10, NopIs DEF Fetched, w0, w1
<1>. QED  BY <1>7, <1>11

LEMMA TargetsAre ==
  ASSUME Typed
  PROVE  /\ squash_target(sq_rob_valid) \in Pc
         /\ HeadEntry.branch_target \in Pc /\ SecondEntry.branch_target \in Pc
BY EntriesAre DEF Typed, squash_target, RobEntry

LEMMA WorkingPcIs ==
  ASSUME FrontTyped, NEW en0, NEW en1  PROVE working_PC_reg(en0, en1) \in Pc
BY DEF FrontTyped, Packet, working_PC_reg

LEMMA FrontMoves ==
  ASSUME Typed, NEW grant, NEW slow, NEW late, Moves(grant, slow, late)
  PROVE  LET d == Dispatch(Taken(grant))
             pc == working_PC_reg(d.en0, d.en1)
         IN  /\ pc \in Pc
             /\ \E p0, p1 :
                  /\ Fetched(pc, p0, p1)
                  /\ FrontStep(squash(sq_rob_valid),
                               squash_target(sq_rob_valid), pc, p0, p1)
<1> DEFINE d == Dispatch(Taken(grant))
           pc == working_PC_reg(d.en0, d.en1)
<1>1. pc \in Pc
  BY WorkingPcIs DEF Typed
<1>2. FetchPair(pc, IcacheMiss)
  BY DEF Moves, Taken
<1> HIDE DEF pc
<1>. QED  BY <1>1, <1>2, FetchPairIs DEF Typed, pc

LEMMA NoPacketIs ==
  /\ NoPacket \in Packet /\ ~NoPacket.valid /\ NoPacket.PC = 0
  /\ 0 \in Pc
BY WordIs DEF NoPacket, Packet, Decoded

LEMMA FrontTypeMoves ==
  ASSUME Typed, NEW grant, NEW slow, NEW late, Moves(grant, slow, late)
  PROVE  FrontTyped'
<1>1. PICK pc, p0, p1 :
        /\ pc \in Pc
        /\ Fetched(pc, p0, p1)
        /\ FrontStep(squash(sq_rob_valid), squash_target(sq_rob_valid), pc,
                     p0, p1)
  BY FrontMoves
<1>2. /\ p0 \in Packet /\ p1 \in Packet
      /\ p0.NPC_out \in Pc /\ p1.NPC_out \in Pc
  BY <1>1 DEF Fetched, Packet
<1>3. program' \in Programs
  BY DEF Moves, Typed, FrontTyped
<1>. QED
  BY <1>1, <1>2, <1>3, TargetsAre, NoPacketIs
     DEF FrontStep, next_PC, FrontTyped, Typed

LEMMA FrontGoodMoves ==
  ASSUME Typed, FrontGood, NEW grant, NEW slow, NEW late,
         Moves(grant, slow, late)
  PROVE  FrontGood'
<1>1. PICK pc, p0, p1 :
        /\ pc \in Pc
        /\ Fetched(pc, p0, p1)
        /\ FrontStep(squash(sq_rob_valid), squash_target(sq_rob_valid), pc,
                     p0, p1)
  BY FrontMoves
<1>2. program' = program
  BY DEF Moves
<1>3. CASE squash(sq_rob_valid)
  BY <1>1, <1>3, NoPacketIs
     DEF FrontStep, FrontGood, PairOffered, PacketsPredicted, FromText
<1>4. CASE ~squash(sq_rob_valid)
  <2>1. id_packet_out_0' = p0 /\ id_packet_out_1' = p1
    BY <1>1, <1>4 DEF FrontStep
  <2>2. FromText(id_packet_out_0)' /\ FromText(id_packet_out_1)'
    BY <1>1, <1>2, <2>1 DEF Fetched, FromText
  <2>3. Phantoms' <=> Phantoms
    BY <1>2 DEF Phantoms
  <2>4. PairOffered'
    BY <1>1, <2>1, <2>2, <2>3 DEF PairOffered, Fetched
  <2>5. PacketsPredicted'
    BY <1>1, <2>1 DEF PacketsPredicted, Fetched
  <2>. QED  BY <2>4, <2>5 DEF FrontGood
<1>. QED  BY <1>3, <1>4

-----------------------------------------------------------------------------
(* The types hold.                                                         *)

LEMMA MemTypeMoves ==
  ASSUME Typed, NEW grant, NEW slow, NEW late, Moves(grant, slow, late)
  PROVE  mem' \in MemType
<1> DEFINE st == lsq_store_dc(sq_retire)
<1>1. st.addr \in ByteAddr /\ st.value \in Value /\ mem \in MemType
  BY DEF Typed, LsqTyped, StoreType, lsq_store_dc, MemType
<1>2. mem' = IF StoreTaken(late)
             THEN MemWrite(mem, st.addr, st.mem_size, st.value) ELSE mem
  BY DEF Moves, MemStep
<1> HIDE DEF st
<1>. QED  BY <1>1, <1>2, MemWriteIs

LEMMA TypedInit == CoreInit => Typed
<1> SUFFICES ASSUME CoreInit PROVE Typed
  OBVIOUS
<1>1. FrontTyped
  BY NoPacketIs DEF CoreInit, FrontInit, FrontTyped
<1>2. MapTyped
  BY CoreAssumption DEF CoreInit, MtInit, MapTyped
<1>3. RsTyped
  BY EmptyAre DEF CoreInit, RsInit, RsTyped
<1>4. LsqTyped
  <2>1. sq_rob_valid \in BOOLEAN
    BY DEF CoreInit, LsqInit
  <2>. QED  BY <2>1, LsqEmptyTyped DEF CoreInit, LsqInit, LsqTyped
<1>5. RobInv
  <2>1. R!RobInit
    BY DEF CoreInit, RobInit, R!RobInit, R!RobIdx, RobIdx, R!EmptyEntry,
           EmptyEntry
  <2>. QED  BY <2>1, RobAssumed, R!RobInvInit, SameInv
<1>6. mem \in [ByteAddr -> 0 .. BYTE - 1] /\ commit_PC \in Pc
  BY WordIs DEF CoreInit, Value
<1>. QED  BY <1>1, <1>2, <1>3, <1>4, <1>5, <1>6 DEF Typed

LEMMA TypedMoves ==
  ASSUME Typed, NEW grant, NEW slow, NEW late, Moves(grant, slow, late)
  PROVE  Typed'
<1>1. commit_PC' \in Pc
  BY TargetsAre DEF Moves, Commit, Typed
<1>2. mem' \in [ByteAddr -> 0 .. BYTE - 1]
  BY MemTypeMoves DEF MemType
<1>. QED
  BY <1>1, <1>2, FrontTypeMoves, MapTypeMoves, RsTypeMoves, LsqTypeMoves,
     RobMoves DEF Typed

-----------------------------------------------------------------------------
(* A station is taken exactly while its unit has an instruction.           *)

Loads == busy = {f \in Fu : Loaded(f)}

LEMMA LoadsInit == CoreInit => Loads
BY DEF CoreInit, RsInit, Loads, Loaded, Idle

LEMMA RequestsAre == ASSUME Loads  PROVE Requests \subseteq busy
BY DEF Loads, Requests, fu_result_valid, OperandsIn

LEMMA FreedIs ==
  ASSUME Loads, NEW grant \in Grants(Requests)
  PROVE  /\ Freed(grant) \subseteq busy
         /\ Taken(grant) = busy \ Freed(grant)
<1>1. Granted(grant[1]) /\ Granted(grant[2])
  BY GrantIs
<1>. QED  BY <1>1, RequestsAre DEF Granted, Freed, Taken

\* The slots whose instructions execute.
Starts_0(grant) == Dispatch(Taken(grant)).en0 /\ id_valid(id_packet_out_0)
Starts_1(grant) == Dispatch(Taken(grant)).en1 /\ id_valid(id_packet_out_1)

LEMMA StartsAre ==
  ASSUME NEW grant
  PROVE  /\ Takes(Taken_0(grant), id_packet_out_0.inst, Taken(grant),
                  Starts_0(grant))
         /\ Takes(Taken_1(grant), id_packet_out_1.inst,
                  Taken(grant) \cup Taken_0(grant), Starts_1(grant))
BY DispatchIs DEF Taken_0, Taken_1, Starts_0, Starts_1

\* What becomes of one unit, and of its station.
KeepsWork(f) ==
  /\ working'[f].inst = working[f].inst
  /\ working'[f].PC = working[f].PC
  /\ working'[f].storeq_pos = working[f].storeq_pos
  /\ rs_entries'[f].T_dest = rs_entries[f].T_dest

GetsWork(f, p, t) ==
  /\ working'[f].inst = p.inst
  /\ working'[f].PC = p.PC
  /\ working'[f].storeq_pos = storeq_pos(p)
  /\ rs_entries'[f].T_dest = t
  /\ id_valid(p) /\ f \in fu_type(p.inst)

LEMMA OldWorking ==
  ASSUME NEW f, NEW granted, NEW p, NEW info, NEW pos, f \notin granted,
         working[f] \in WorkingType
  PROVE  LET w == NextWorking(f, granted, FALSE, p, info, pos)
         IN  w.inst = working[f].inst /\ w.PC = working[f].PC
             /\ w.storeq_pos = working[f].storeq_pos
BY DEF NextWorking, WorkingType

LEMMA StationMoves ==
  ASSUME Typed, NEW grant \in Grants(Requests), Loads, NEW f \in Fu
  PROVE  /\ f \in Taken_1(grant) =>
              NextOf(grant)[f].T_dest = rob_tail_plus_1
         /\ f \in Taken_0(grant) => NextOf(grant)[f].T_dest = rob_tail
         /\ f \in busy \ Freed(grant) =>
              NextOf(grant)[f].T_dest = rs_entries[f].T_dest
<1> DEFINE e == IF f \in Taken_1(grant) THEN Station_1(grant)
                ELSE IF f \in Taken_0(grant) THEN Station_0
                ELSE IF f \in Freed(grant) \cap busy THEN EmptyStation
                ELSE rs_entries[f]
<1>1. /\ Station_0 \in StationType /\ Station_1(grant) \in StationType
      /\ rs_entries[f] \in StationType /\ EmptyStation \in StationType
  BY StationsAre, EmptyAre DEF Typed, RsTyped
<1>2. e \in StationType
  BY <1>1
<1>3. \/ NextOf(grant)[f] = e
      \/ NextOf(grant)[f]
           = [e EXCEPT !.rs_entry_info =
                [k \in 1 .. 2 |-> Heard(Heard(@[k], Carried(grant[1])),
                                        Carried(grant[2]))]]
  BY DEF NextOf, NextStation
<1>4. NextOf(grant)[f].T_dest = e.T_dest
  <2> HIDE DEF e
  <2>. QED  BY <1>2, <1>3 DEF StationType
<1>5. Station_0.T_dest = rob_tail /\ Station_1(grant).T_dest = rob_tail_plus_1
  BY DEF Station_0, Station_1, Station
<1>6. /\ Taken_0(grant) \subseteq Fu \ (busy \ Freed(grant))
      /\ Taken_1(grant) \subseteq Fu \ (busy \ Freed(grant))
      /\ Taken_0(grant) \cap Taken_1(grant) = {}
  BY TakenAre, FreedIs
<1>. QED  BY <1>4, <1>5, <1>6

LEMMA UnitMoves ==
  ASSUME Typed, Loads, NEW grant, NEW slow, NEW late,
         Moves(grant, slow, late), ~squash(sq_rob_valid), NEW f \in Fu
  PROVE  /\ f \in Taken_0(grant) => GetsWork(f, id_packet_out_0, rob_tail)
         /\ f \in Taken_1(grant) =>
              GetsWork(f, id_packet_out_1, rob_tail_plus_1)
         /\ f \in busy \ Freed(grant) => KeepsWork(f)
         /\ f \notin busy' => working'[f].inst = NOP
         /\ f \in busy' <=> \/ f \in busy \ Freed(grant)
                            \/ f \in Taken_0(grant) \/ f \in Taken_1(grant)
<1>1. grant \in Grants(Requests) /\ working[f] \in WorkingType
  BY DEF Moves, Typed, RsTyped
<1>2. /\ Taken_0(grant) \subseteq Fu \ (busy \ Freed(grant))
      /\ Taken_1(grant) \subseteq Fu \ (busy \ Freed(grant))
      /\ Taken_0(grant) \cap Taken_1(grant) = {}
      /\ Freed(grant) \subseteq busy
  BY <1>1, TakenAre, FreedIs
<1>3. f \in busy <=> Loaded(f)
  BY DEF Loads
<1>4. f \in busy' <=> \/ f \in busy \ Freed(grant)
                      \/ f \in Taken_0(grant) \/ f \in Taken_1(grant)
  BY StepRsIs DEF NextBusy
<1> DEFINE info == NextOf(grant)[f].rs_entry_info
           pos0 == storeq_pos(id_packet_out_0)
           pos1 == storeq_pos(id_packet_out_1)
           freed == Freed(grant)
<1>5. ASSUME f \in Taken_0(grant)
      PROVE  GetsWork(f, id_packet_out_0, rob_tail)
  <2>1. working'[f] = NextWorking(f, freed, TRUE, id_packet_out_0, info, pos0)
    BY <1>5, StepRsIs
  <2>2. f \in freed \/ ~Loaded(f)
    BY <1>2, <1>3, <1>5
  <2>3. working'[f] = Load(id_packet_out_0, info, pos0)
    <3> HIDE DEF info, pos0, freed
    <3>. QED  BY <2>1, <2>2 DEF NextWorking
  <2>4. rs_entries'[f].T_dest = rob_tail
    BY <1>1, <1>5, StepRsIs, StationMoves
  <2>5. id_valid(id_packet_out_0) /\ f \in fu_type(id_packet_out_0.inst)
    BY <1>5, StartsAre DEF Takes, Starts_0
  <2>. QED  BY <2>3, <2>4, <2>5 DEF Load, GetsWork
<1>6. ASSUME f \in Taken_1(grant)
      PROVE  GetsWork(f, id_packet_out_1, rob_tail_plus_1)
  <2>1. working'[f] = NextWorking(f, freed, TRUE, id_packet_out_1, info, pos1)
    <3>1. working'[f] = NextWorking(f, freed, f \in Taken_1(grant),
                                    id_packet_out_1, info, pos1)
      BY <1>2, <1>6, StepRsIs
    <3>2. (f \in Taken_1(grant)) = TRUE
      BY <1>6
    <3>. QED  BY <3>1, <3>2
  <2>2. f \in freed \/ ~Loaded(f)
    BY <1>2, <1>3, <1>6
  <2>3. working'[f] = Load(id_packet_out_1, info, pos1)
    <3> HIDE DEF info, pos1, freed
    <3>. QED  BY <2>1, <2>2 DEF NextWorking
  <2>4. rs_entries'[f].T_dest = rob_tail_plus_1
    BY <1>1, <1>6, StepRsIs, StationMoves
  <2>5. id_valid(id_packet_out_1) /\ f \in fu_type(id_packet_out_1.inst)
    BY <1>6, StartsAre DEF Takes, Starts_1
  <2>. QED  BY <2>3, <2>4, <2>5 DEF Load, GetsWork
<1>7. ASSUME f \notin Taken_0(grant), f \notin Taken_1(grant)
      PROVE  working'[f]
               = NextWorking(f, freed, FALSE, id_packet_out_1, info, pos1)
  <2>1. (f \in Taken_1(grant)) = FALSE
    BY <1>7
  <2>. QED  BY <1>7, <2>1, StepRsIs
<1>8. ASSUME f \notin Taken_0(grant), f \notin Taken_1(grant), f \notin freed
      PROVE  /\ working'[f].inst = working[f].inst
             /\ working'[f].PC = working[f].PC
             /\ working'[f].storeq_pos = working[f].storeq_pos
  <2> HIDE DEF info, pos1, freed
  <2>. QED  BY <1>1, <1>7, <1>8, OldWorking
<1>9. ASSUME f \in busy \ freed  PROVE KeepsWork(f)
  <2>1. rs_entries'[f].T_dest = rs_entries[f].T_dest
    BY <1>1, <1>9, StepRsIs, StationMoves
  <2>2. f \notin Taken_0(grant) /\ f \notin Taken_1(grant)
    BY <1>2, <1>9
  <2>. QED  BY <1>8, <1>9, <2>1, <2>2 DEF KeepsWork
<1>10. ASSUME f \notin busy'  PROVE working'[f].inst = NOP
  <2>1. f \notin Taken_0(grant) /\ f \notin Taken_1(grant)
        /\ (f \in freed \/ f \notin busy)
    BY <1>4, <1>10
  <2>2. CASE f \in freed
    <3>1. working'[f] = Idle(TRUE)
      BY <1>7, <2>1, <2>2 DEF NextWorking
    <3>. QED  BY <3>1, EmptyAre
  <2>3. CASE f \notin freed
    BY <1>3, <1>8, <2>1, <2>3 DEF Loaded
  <2>. QED  BY <2>2, <2>3
<1>. QED  BY <1>4, <1>5, <1>6, <1>9, <1>10

LEMMA LoadsMoves ==
  ASSUME Typed, FrontGood, Loads, NEW grant, NEW slow, NEW late,
         Moves(grant, slow, late)
  PROVE  Loads'
<1>1. CASE squash(sq_rob_valid)
  BY <1>1, SquashRsIs, EmptyAre DEF Loads, Loaded
<1>2. CASE ~squash(sq_rob_valid)
  <2>1. \A p \in {id_packet_out_0, id_packet_out_1} :
          id_valid(p) => p.inst # NOP
    BY NopIs DEF FrontGood, PairOffered, FromText, id_valid
  <2>2. ASSUME NEW f \in Fu  PROVE f \in busy' <=> working'[f].inst # NOP
    BY <1>2, <2>1, UnitMoves DEF GetsWork, KeepsWork, Loads, Loaded
  <2>3. busy' \subseteq Fu
    BY TypedMoves DEF Typed, RsTyped
  <2>. QED  BY <2>2, <2>3 DEF Loads, Loaded
<1>. QED  BY <1>1, <1>2

-----------------------------------------------------------------------------
(* The window of the reorder buffer in a cycle that does not squash.       *)

LEMMA AgeIs ==
  ASSUME RobInv
  PROVE  /\ \A t \in RobIdx : /\ Age(t) \in 0 .. ROB_SIZE - 1
                              /\ t \in Live <=> Age(t) < rob_counter
         /\ \A t, u \in RobIdx : Age(t) = Age(u) => t = u
         /\ Age(rob_head) = 0 /\ Age(rob_head_plus_1) = 1
         /\ rob_counter < ROB_SIZE => Age(rob_tail) = rob_counter
         /\ rob_counter + 1 < ROB_SIZE =>
              Age(rob_tail_plus_1) = rob_counter + 1
<1>1. /\ rob_head \in RobIdx /\ rob_tail \in RobIdx
      /\ rob_counter \in 0 .. ROB_SIZE
      /\ rob_tail = IF rob_head + rob_counter < ROB_SIZE
                    THEN rob_head + rob_counter
                    ELSE rob_head + rob_counter - ROB_SIZE
  BY DEF RobInv, RobTypeOK, WindowAgrees
<1>2. \A t \in RobIdx : t \in Live <=> Age(t) < rob_counter
  BY DEF RobInv, WindowAgrees, InWindow, Live
<1>3. ROB_SIZE \in Nat /\ ROB_SIZE >= 2
  BY CoreAssumption
<1>4. /\ \A t \in RobIdx : Age(t) \in 0 .. ROB_SIZE - 1
      /\ \A t, u \in RobIdx : Age(t) = Age(u) => t = u
      /\ Age(rob_head) = 0 /\ Age(rob_head_plus_1) = 1
  BY <1>1, <1>3 DEF Age, RobIdx, RobSucc, rob_head_plus_1
<1>5. /\ rob_counter < ROB_SIZE => Age(rob_tail) = rob_counter
      /\ rob_counter + 1 < ROB_SIZE =>
           Age(rob_tail_plus_1) = rob_counter + 1
  BY <1>1, <1>3 DEF Age, RobIdx, RobSucc, rob_tail_plus_1
<1>. QED  BY <1>2, <1>4, <1>5

\* The slots whose instructions enter the buffer, and the entries that leave.
Enters_0(grant) == Accepted_0(Port_0(grant))
Enters_1(grant) == Accepted_1(Port_0(grant), Port_1(grant))

Leaves_0 == retire_valid_0(sq_rob_valid)
Leaves_1 == retire_valid_1(sq_rob_valid)
Leaves(t) == Retired(t, sq_rob_valid)
Left == RobCount(Leaves_0, Leaves_1)

Updated(grant, t) == AfterCdb(t, Carried(grant[1]), Carried(grant[2]))

LEMMA EntersAre ==
  ASSUME NEW grant
  PROVE  /\ Enters_0(grant) <=> /\ Dispatch(Taken(grant)).en0
                                /\ id_packet_out_0.valid
                                /\ ~isIllegal(id_packet_out_0.inst)
         /\ Enters_1(grant) <=> /\ Enters_0(grant)
                                /\ Dispatch(Taken(grant)).en1
                                /\ id_packet_out_1.valid
                                /\ ~isIllegal(id_packet_out_1.inst)
         /\ Enters_0(grant) => ~rob_full_0
         /\ Enters_1(grant) => ~rob_full_1
<1>1. /\ Dispatch(Taken(grant)).en0 => ~rob_full_0
      /\ Dispatch(Taken(grant)).en1 => ~rob_full_1
  BY DispatchIs
<1>. QED
  BY <1>1 DEF Enters_0, Enters_1, Accepted_0, Accepted_1, Port_0, Port_1, ToRob

LEMMA RoomIs ==
  ASSUME RobInv, NEW grant
  PROVE  /\ Enters_0(grant) => /\ rob_counter < ROB_SIZE
                               /\ rob_tail \notin Live
         /\ Enters_1(grant) => /\ rob_counter + 1 < ROB_SIZE
                               /\ rob_tail_plus_1 \notin Live
                               /\ Enters_0(grant)
         /\ rob_tail # rob_tail_plus_1
<1>1. /\ rob_counter \in 0 .. ROB_SIZE /\ rob_tail \in RobIdx
      /\ rob_tail_plus_1 \in RobIdx /\ rob_tail # rob_tail_plus_1
  BY EntriesAre, SuccIs DEF rob_tail_plus_1
<1>2. ROB_SIZE \in Nat
  BY CoreAssumption
<1>3. /\ Enters_0(grant) => rob_counter < ROB_SIZE
      /\ Enters_1(grant) => rob_counter + 1 < ROB_SIZE /\ Enters_0(grant)
  BY <1>1, <1>2, EntersAre DEF rob_full_0, rob_full_1
<1>. QED  BY <1>1, <1>3, AgeIs

LEMMA LeavesAre ==
  ASSUME Typed
  PROVE  /\ Leaves_0 => /\ rob_head \in Live /\ HeadEntry.ready
                        /\ rob_counter >= 1
         /\ Leaves_1 => /\ rob_head_plus_1 \in Live /\ SecondEntry.ready
                        /\ Leaves_0 /\ rob_counter >= 2
         /\ Left \in 0 .. 2 /\ Left <= rob_counter
         /\ \A t \in RobIdx : Leaves(t) <=> Age(t) < Left
<1>1. /\ rob_head \in RobIdx /\ rob_head_plus_1 \in RobIdx
      /\ rob_counter \in 0 .. ROB_SIZE
      /\ rob_head # rob_head_plus_1
  BY EntriesAre, SuccIs DEF Typed, rob_head_plus_1
<1>2. /\ Leaves_0 => rob_counter # 0 /\ HeadEntry.ready
      /\ Leaves_1 => SecondEntry.valid /\ SecondEntry.ready /\ Leaves_0
  BY DEF Leaves_0, Leaves_1, retire_valid_0, retire_valid_1, rob_empty
<1>3. /\ \A t \in RobIdx : /\ Age(t) \in 0 .. ROB_SIZE - 1
                           /\ t \in Live <=> Age(t) < rob_counter
      /\ \A t, u \in RobIdx : Age(t) = Age(u) => t = u
      /\ Age(rob_head) = 0 /\ Age(rob_head_plus_1) = 1
  BY AgeIs DEF Typed
<1>4. /\ Leaves_0 => rob_head \in Live /\ rob_counter >= 1
      /\ Leaves_1 => rob_head_plus_1 \in Live /\ rob_counter >= 2
  BY <1>1, <1>2, <1>3 DEF SecondEntry, Live
<1>5. Left \in 0 .. 2 /\ Left <= rob_counter
  BY <1>1, <1>2, <1>4 DEF Left, RobCount
<1>6. ASSUME NEW t \in RobIdx  PROVE Leaves(t) <=> Age(t) < Left
  <2>1. Leaves(t) <=> \/ Leaves_0 /\ t = rob_head
                      \/ Leaves_1 /\ t = rob_head_plus_1
    BY DEF Leaves, Retired, Leaves_0, Leaves_1
  <2>2. Age(t) \in Nat /\ (Age(t) = 0 => t = rob_head)
        /\ (Age(t) = 1 => t = rob_head_plus_1)
    BY <1>1, <1>3
  <2>3. Left = IF Leaves_1 THEN 2 ELSE IF Leaves_0 THEN 1 ELSE 0
    BY DEF Left, RobCount
  <2>. QED  BY <1>2, <1>3, <2>1, <2>2, <2>3
<1>. QED  BY <1>2, <1>4, <1>5, <1>6

LEMMA RobMoveIs ==
  ASSUME NEW grant, NEW slow, NEW late, Moves(grant, slow, late),
         ~squash(sq_rob_valid)
  PROVE  /\ rob_head' = RobAdvance(rob_head, Leaves_0, Leaves_1)
         /\ rob_tail' = RobAdvance(rob_tail, Enters_0(grant), Enters_1(grant))
         /\ rob_counter' = rob_counter - Left
                             + RobCount(Enters_0(grant), Enters_1(grant))
         /\ rob_entries' = [t \in RobIdx |->
              NextEntry(t, Port_0(grant), Port_1(grant), Carried(grant[1]),
                        Carried(grant[2]), sq_rob_valid)]
BY RobStepIs
   DEF RobStep, RobMove, Leaves_0, Leaves_1, Left, Enters_0, Enters_1

LEMMA EntryMoves ==
  ASSUME Typed, NEW grant, NEW slow, NEW late, Moves(grant, slow, late),
         ~squash(sq_rob_valid), NEW t \in RobIdx
  PROVE  /\ Enters_0(grant) /\ t = rob_tail =>
              rob_entries'[t] = NewEntry(Port_0(grant))
         /\ Enters_1(grant) /\ t = rob_tail_plus_1 =>
              rob_entries'[t] = NewEntry(Port_1(grant))
         /\ t \in Live /\ ~Leaves(t) => rob_entries'[t] = Updated(grant, t)
         /\ t \in Live' <=> \/ t \in Live /\ ~Leaves(t)
                            \/ Enters_0(grant) /\ t = rob_tail
                            \/ Enters_1(grant) /\ t = rob_tail_plus_1
<1>1. rob_entries'[t]
        = NextEntry(t, Port_0(grant), Port_1(grant), Carried(grant[1]),
                    Carried(grant[2]), sq_rob_valid)
  BY RobMoveIs
<1>2. /\ Enters_0(grant) => rob_tail \notin Live
      /\ Enters_1(grant) => rob_tail_plus_1 \notin Live /\ Enters_0(grant)
      /\ rob_tail # rob_tail_plus_1
  BY RoomIs DEF Typed
<1>3. Leaves(t) => t \in Live
  BY LeavesAre DEF Leaves, Retired, Leaves_0, Leaves_1
<1>4. /\ Enters_0(grant) /\ t = rob_tail =>
           rob_entries'[t] = NewEntry(Port_0(grant))
      /\ Enters_1(grant) /\ t = rob_tail_plus_1 =>
           rob_entries'[t] = NewEntry(Port_1(grant))
      /\ t \in Live /\ ~Leaves(t) => rob_entries'[t] = Updated(grant, t)
      /\ t \notin Live /\ ~(Enters_0(grant) /\ t = rob_tail)
           /\ ~(Enters_1(grant) /\ t = rob_tail_plus_1)
           => rob_entries'[t] = Updated(grant, t)
      /\ Leaves(t) => rob_entries'[t] = EmptyEntry
  BY <1>1, <1>2, <1>3
     DEF NextEntry, Enters_0, Enters_1, Leaves, Updated
<1>5. /\ NewEntry(Port_0(grant)).valid /\ NewEntry(Port_1(grant)).valid
      /\ ~EmptyEntry.valid
  BY DEF NewEntry, EmptyEntry
<1>6. Updated(grant, t).valid <=> t \in Live
  BY EntriesAre
     DEF Updated, AfterCdb, Hits, Complete, Live, Typed, RobEntry
<1>7. t \in Live' <=> rob_entries'[t].valid
  BY DEF Live
<1>. QED  BY <1>2, <1>3, <1>4, <1>5, <1>6, <1>7

LEMMA AgeMoves ==
  ASSUME Typed, NEW grant, NEW slow, NEW late, Moves(grant, slow, late),
         ~squash(sq_rob_valid), NEW t \in RobIdx
  PROVE  /\ t \in Live /\ ~Leaves(t) => Age(t)' = Age(t) - Left
         /\ Enters_0(grant) /\ t = rob_tail => Age(t)' = rob_counter - Left
         /\ Enters_1(grant) /\ t = rob_tail_plus_1 =>
              Age(t)' = rob_counter - Left + 1
<1>1. /\ rob_head \in RobIdx /\ rob_tail \in RobIdx
      /\ rob_counter \in 0 .. ROB_SIZE
      /\ rob_tail = IF rob_head + rob_counter < ROB_SIZE
                    THEN rob_head + rob_counter
                    ELSE rob_head + rob_counter - ROB_SIZE
  BY DEF Typed, RobInv, RobTypeOK, WindowAgrees
<1>2. rob_head' = RobAdvance(rob_head, Leaves_0, Leaves_1)
      /\ Left = RobCount(Leaves_0, Leaves_1)
  BY RobMoveIs DEF Left
<1>3. /\ Leaves_0 => rob_counter >= 1
      /\ Leaves_1 => Leaves_0 /\ rob_counter >= 2
      /\ t \in Live /\ ~Leaves(t) => Age(t) >= Left
  <2>1. Age(t) \in Int /\ Left \in Int
    BY AgeIs, LeavesAre DEF Typed
  <2>. QED  BY <2>1, LeavesAre
<1>4. /\ Enters_0(grant) => rob_counter < ROB_SIZE
      /\ Enters_1(grant) => rob_counter + 1 < ROB_SIZE
  BY RoomIs DEF Typed
<1>5. ROB_SIZE \in Nat /\ ROB_SIZE >= 2
  BY CoreAssumption
<1>6. Age(t)' = IF t >= rob_head' THEN t - rob_head'
                ELSE t - rob_head' + ROB_SIZE
  BY DEF Age
<1>7. Age(t) = IF t >= rob_head THEN t - rob_head
               ELSE t - rob_head + ROB_SIZE
  BY DEF Age
<1>8. t \in Live /\ ~Leaves(t) => Age(t)' = Age(t) - Left
  BY <1>1, <1>2, <1>3, <1>5, <1>6, <1>7
     DEF RobAdvance, RobCount, RobSucc, RobIdx
<1>9. Enters_0(grant) /\ t = rob_tail => Age(t)' = rob_counter - Left
  BY <1>1, <1>2, <1>3, <1>4, <1>5, <1>6
     DEF RobAdvance, RobCount, RobSucc, RobIdx
<1>10. Enters_1(grant) /\ t = rob_tail_plus_1 =>
         Age(t)' = rob_counter - Left + 1
  BY <1>1, <1>2, <1>3, <1>4, <1>5, <1>6
     DEF RobAdvance, RobCount, RobSucc, RobIdx, rob_tail_plus_1
<1>. QED  BY <1>8, <1>9, <1>10

-----------------------------------------------------------------------------
(* Results and entries.                                                    *)

\* Entry t gets its result in this cycle.
Finishes(grant, t) == \E f \in Freed(grant) : rs_entries[f].T_dest = t

\* What no result changes in an entry.
SameInst(d, e) ==
  /\ d.valid = e.valid /\ d.dest_reg_idx = e.dest_reg_idx
  /\ d.store = e.store /\ d.is_branch = e.is_branch
  /\ d.take_branch = e.take_branch /\ d.halt = e.halt
  /\ d.NPC_out = e.NPC_out /\ d.PC = e.PC

LEMMA CompleteIs ==
  ASSUME NEW e \in RobEntry, NEW c \in CdbEntry
  PROVE  /\ SameInst(Complete(e, c), e)
         /\ Complete(e, c).ready
         /\ Complete(e, c).value = c.value
         /\ Complete(e, c).mis_pred <=> (e.take_branch # c.take_branch)
         /\ Complete(e, c).branch_target = c.branch_target
BY DEF RobEntry, CdbEntry, Complete, SameInst

LEMMA UpdatedIs ==
  ASSUME Typed, NEW grant \in Grants(Requests), NEW t \in Live
  PROVE  /\ ~Finishes(grant, t) => Updated(grant, t) = rob_entries[t]
         /\ Finishes(grant, t) =>
              \E f \in Freed(grant) :
                /\ rs_entries[f].T_dest = t /\ rs_cdb(f, lsq_fu) \in CdbEntry
                /\ Updated(grant, t)
                     = Complete(rob_entries[t], rs_cdb(f, lsq_fu))
<1>1. Granted(grant[1]) /\ Granted(grant[2])
  BY GrantIs
<1>2. ASSUME NEW s, Granted(s)
      PROVE  Hits(Carried(s), t) <=> \E f \in s : rs_entries[f].T_dest = t
  <2>1. /\ Carried(s).valid <=> s # {}
        /\ \A f \in s : Carried(s).tag = rs_entries[f].T_dest
    BY <1>2, CarriedIs
  <2>. QED  BY <2>1 DEF Hits, Live
<1>3. ASSUME NEW s, Granted(s), NEW f \in s
      PROVE  Carried(s) = rs_cdb(f, lsq_fu) /\ Carried(s) \in CdbEntry
  BY <1>3, CarriedIs
<1>4. CASE Hits(Carried(grant[2]), t)
  <2>1. PICK f \in grant[2] : rs_entries[f].T_dest = t
    BY <1>1, <1>2, <1>4
  <2>2. Updated(grant, t) = Complete(rob_entries[t], Carried(grant[2]))
    BY <1>4 DEF Updated, AfterCdb
  <2>. QED  BY <1>1, <1>3, <2>1, <2>2 DEF Finishes, Freed
<1>5. CASE Hits(Carried(grant[1]), t) /\ ~Hits(Carried(grant[2]), t)
  <2>1. PICK f \in grant[1] : rs_entries[f].T_dest = t
    BY <1>1, <1>2, <1>5
  <2>2. Updated(grant, t) = Complete(rob_entries[t], Carried(grant[1]))
    BY <1>5 DEF Updated, AfterCdb
  <2>. QED  BY <1>1, <1>3, <2>1, <2>2 DEF Finishes, Freed
<1>6. CASE ~Hits(Carried(grant[1]), t) /\ ~Hits(Carried(grant[2]), t)
  BY <1>1, <1>2, <1>6 DEF Updated, AfterCdb, Finishes, Freed
<1>. QED  BY <1>4, <1>5, <1>6

LEMMA UpdatedKeeps ==
  ASSUME Typed, NEW grant \in Grants(Requests), NEW t \in Live
  PROVE  /\ SameInst(Updated(grant, t), rob_entries[t])
         /\ Updated(grant, t).ready <=> \/ rob_entries[t].ready
                                        \/ Finishes(grant, t)
<1>1. rob_entries[t] \in RobEntry
  BY EntriesAre DEF Typed, Live
<1>. QED  BY <1>1, UpdatedIs, CompleteIs DEF SameInst

LEMMA NewEntryIs ==
  ASSUME NEW id
  PROVE  LET e == NewEntry(id)
         IN  /\ e.valid /\ ~e.ready /\ e.dest_reg_idx = id.dest_reg_idx
             /\ e.store = id.store /\ e.is_branch = id.is_branch
             /\ ~e.mis_pred /\ e.take_branch = id.take_branch
             /\ e.halt = id.halt /\ e.NPC_out = id.NPC_out /\ e.PC = id.PC
BY DEF NewEntry

LEMMA PortFields ==
  ASSUME NEW grant
  PROVE  /\ Port_0(grant).dest_reg_idx = dest_reg_idx(id_packet_out_0.inst)
         /\ Port_0(grant).store = wr_mem(id_packet_out_0.inst)
         /\ cond_branch(id_packet_out_0.inst) => Port_0(grant).is_branch
         /\ Port_0(grant).take_branch = id_packet_out_0.take_branch
         /\ Port_0(grant).halt = isHalt(id_packet_out_0.inst)
         /\ Port_0(grant).NPC_out = id_packet_out_0.NPC_out
         /\ Port_0(grant).PC = id_packet_out_0.PC
         /\ Port_1(grant).dest_reg_idx = dest_reg_idx(id_packet_out_1.inst)
         /\ Port_1(grant).store = wr_mem(id_packet_out_1.inst)
         /\ cond_branch(id_packet_out_1.inst) => Port_1(grant).is_branch
         /\ Port_1(grant).take_branch = id_packet_out_1.take_branch
         /\ Port_1(grant).halt = isHalt(id_packet_out_1.inst)
         /\ Port_1(grant).NPC_out = id_packet_out_1.NPC_out
         /\ Port_1(grant).PC = id_packet_out_1.PC
BY DEF Port_0, Port_1, ToRob

-----------------------------------------------------------------------------
(* Every entry that waits has its unit.                                    *)

LEMMA StartsEnter ==
  ASSUME FrontGood, ~Phantoms, NEW grant
  PROVE  /\ Starts_0(grant) <=> Enters_0(grant)
                                /\ ~isHalt(id_packet_out_0.inst)
         /\ Starts_1(grant) <=> Enters_1(grant)
                                /\ ~isHalt(id_packet_out_1.inst)
<1>1. /\ id_packet_out_1.valid => id_packet_out_0.valid
      /\ id_packet_out_0.valid => ~isIllegal(id_packet_out_0.inst)
      /\ id_packet_out_1.valid => ~isIllegal(id_packet_out_1.inst)
  BY DEF FrontGood, PairOffered, FromText, valid_inst
<1>2. Dispatch(Taken(grant)).en1 => Dispatch(Taken(grant)).en0
  BY DispatchIs
<1>. QED  BY <1>1, <1>2, EntersAre DEF Starts_0, Starts_1, id_valid

LEMMA WaitingMoves ==
  ASSUME Typed, NEW grant, NEW slow, NEW late, Moves(grant, slow, late),
         ~squash(sq_rob_valid), NEW t \in RobIdx
  PROVE  t \in Waiting' <=>
           \/ t \in Waiting /\ ~Finishes(grant, t)
           \/ /\ Enters_0(grant) /\ t = rob_tail
              /\ ~isHalt(id_packet_out_0.inst)
           \/ /\ Enters_1(grant) /\ t = rob_tail_plus_1
              /\ ~isHalt(id_packet_out_1.inst)
<1>1. grant \in Grants(Requests)
  BY DEF Moves
<1>2. /\ Leaves(t) => rob_entries[t].ready
      /\ Enters_0(grant) => rob_tail \notin Live
      /\ Enters_1(grant) => rob_tail_plus_1 \notin Live /\ Enters_0(grant)
      /\ rob_tail # rob_tail_plus_1
  BY LeavesAre, RoomIs
     DEF Leaves, Retired, Leaves_0, Leaves_1, HeadEntry, SecondEntry, Typed
<1>3. t \in Waiting' <=> /\ t \in Live'
                         /\ ~rob_entries'[t].ready /\ ~rob_entries'[t].halt
  BY DEF Waiting
<1>4. CASE Enters_0(grant) /\ t = rob_tail
  BY <1>2, <1>3, <1>4, EntryMoves, NewEntryIs, PortFields DEF Waiting
<1>5. CASE Enters_1(grant) /\ t = rob_tail_plus_1
  BY <1>2, <1>3, <1>5, EntryMoves, NewEntryIs, PortFields DEF Waiting
<1>6. CASE /\ ~(Enters_0(grant) /\ t = rob_tail)
           /\ ~(Enters_1(grant) /\ t = rob_tail_plus_1)
  <2>1. CASE t \in Live /\ ~Leaves(t)
    <3>1. rob_entries'[t] = Updated(grant, t) /\ t \in Live'
      BY <2>1, EntryMoves
    <3>2. /\ Updated(grant, t).halt = rob_entries[t].halt
          /\ Updated(grant, t).ready <=> \/ rob_entries[t].ready
                                         \/ Finishes(grant, t)
      BY <1>1, <2>1, UpdatedKeeps DEF SameInst
    <3>. QED  BY <1>3, <1>6, <2>1, <3>1, <3>2 DEF Waiting
  <2>2. CASE ~(t \in Live /\ ~Leaves(t))
    BY <1>2, <1>3, <1>6, <2>2, EntryMoves DEF Waiting
  <2>. QED  BY <2>1, <2>2
<1>. QED  BY <1>4, <1>5, <1>6

\* A unit that goes on works for the same entry, one that starts for the
\* entry that its slot takes.
WorksFor(grant, f, t) ==
  \/ f \in busy \ Freed(grant) /\ rs_entries[f].T_dest = t
  \/ f \in Taken_0(grant) /\ t = rob_tail
  \/ f \in Taken_1(grant) /\ t = rob_tail_plus_1

LEMMA WorksForIs ==
  ASSUME Typed, Loads, NEW grant, NEW slow, NEW late,
         Moves(grant, slow, late), ~squash(sq_rob_valid), NEW f \in Fu, NEW t
  PROVE  f \in busy' /\ rs_entries'[f].T_dest = t <=> WorksFor(grant, f, t)
<1>1. grant \in Grants(Requests)
  BY DEF Moves
<1>2. /\ Taken_0(grant) \subseteq Fu \ (busy \ Freed(grant))
      /\ Taken_1(grant) \subseteq Fu \ (busy \ Freed(grant))
      /\ Taken_0(grant) \cap Taken_1(grant) = {}
  BY <1>1, TakenAre, FreedIs
<1>. QED
  BY <1>2, UnitMoves DEF GetsWork, KeepsWork, WorksFor

LEMMA UnitsWorkMoves ==
  ASSUME Typed, FrontGood, Loads, ~Phantoms, UnitsWork,
         NEW grant, NEW slow, NEW late, Moves(grant, slow, late)
  PROVE  UnitsWork'
<1>1. CASE squash(sq_rob_valid)
  <2>1. \A t \in RobIdx : ~rob_entries'[t].valid
    BY <1>1, RobStepIs DEF RobStep, RobReset, EmptyEntry
  <2>2. busy' = {}
    BY <1>1, SquashRsIs
  <2>. QED  BY <2>1, <2>2 DEF UnitsWork, Waiting, Live
<1>2. CASE ~squash(sq_rob_valid)
  <2>1. grant \in Grants(Requests)
    BY DEF Moves
  <2>2. /\ Enters_0(grant) => rob_tail \notin Live
        /\ Enters_1(grant) => rob_tail_plus_1 \notin Live /\ Enters_0(grant)
        /\ rob_tail # rob_tail_plus_1
        /\ rob_tail \in RobIdx /\ rob_tail_plus_1 \in RobIdx
    BY RoomIs, EntriesAre DEF Typed
  <2>3. /\ Starts_0(grant) <=> Enters_0(grant)
                               /\ ~isHalt(id_packet_out_0.inst)
        /\ Starts_1(grant) <=> Enters_1(grant)
                               /\ ~isHalt(id_packet_out_1.inst)
    BY StartsEnter
  <2>4. /\ Starts_0(grant) => \E f \in Fu : Taken_0(grant) = {f}
        /\ ~Starts_0(grant) => Taken_0(grant) = {}
        /\ Starts_1(grant) => \E f \in Fu : Taken_1(grant) = {f}
        /\ ~Starts_1(grant) => Taken_1(grant) = {}
    BY StartsAre DEF Takes
  <2>5. \A f \in busy : /\ rs_entries[f].T_dest \in Live
                        /\ rs_entries[f].T_dest \in Waiting
                        /\ f \in Fu /\ rs_entries[f].T_dest \in RobIdx
    BY DEF UnitsWork, Waiting, Live, Typed, RsTyped
  <2>6. \A f \in busy : Finishes(grant, rs_entries[f].T_dest)
                          <=> f \in Freed(grant)
    BY <2>1, FreedIs DEF Finishes, UnitsWork
  <2>7. \A f \in Fu : \A t : f \in busy' /\ rs_entries'[f].T_dest = t
                           <=> WorksFor(grant, f, t)
    BY <1>2, WorksForIs
  <2>8. busy' \subseteq Fu
    BY TypedMoves DEF Typed, RsTyped
  <2>9. ASSUME NEW f \in busy'  PROVE rs_entries'[f].T_dest \in Waiting'
    <3> DEFINE t == rs_entries'[f].T_dest
    <3>1. WorksFor(grant, f, t)
      BY <2>7, <2>8
    <3> HIDE DEF t
    <3>2. t \in RobIdx
      BY <2>2, <2>5, <3>1 DEF WorksFor
    <3>3. t \in Waiting'
      BY <1>2, <2>3, <2>4, <2>5, <2>6, <3>1, <3>2, WaitingMoves DEF WorksFor
    <3>. QED  BY <3>3 DEF t
  <2>10. ASSUME NEW t \in Waiting'
         PROVE  \E f \in busy' : rs_entries'[f].T_dest = t
    <3>1. t \in RobIdx
      BY DEF Waiting, Live
    <3>2. CASE t \in Waiting /\ ~Finishes(grant, t)
      <4>1. PICK f \in busy : rs_entries[f].T_dest = t
        BY <3>2 DEF UnitsWork
      <4>. QED  BY <2>5, <2>6, <2>7, <3>2, <4>1 DEF WorksFor
    <3>3. CASE Enters_0(grant) /\ t = rob_tail
               /\ ~isHalt(id_packet_out_0.inst)
      BY <2>3, <2>4, <2>7, <3>3 DEF WorksFor
    <3>4. CASE Enters_1(grant) /\ t = rob_tail_plus_1
               /\ ~isHalt(id_packet_out_1.inst)
      BY <2>3, <2>4, <2>7, <3>4 DEF WorksFor
    <3>. QED  BY <1>2, <3>1, <3>2, <3>3, <3>4, WaitingMoves
  <2>11. ASSUME NEW f \in busy', NEW g \in busy',
                rs_entries'[f].T_dest = rs_entries'[g].T_dest
         PROVE  f = g
    <3> DEFINE t == rs_entries'[f].T_dest
    <3>1. WorksFor(grant, f, t) /\ WorksFor(grant, g, t)
      BY <2>7, <2>8, <2>11
    <3> HIDE DEF t
    <3>. QED
      BY <2>2, <2>3, <2>4, <2>5, <3>1 DEF WorksFor, UnitsWork
  <2>12. ASSUME NEW f \in busy'
         PROVE  /\ working'[f].PC = rob_entries'[rs_entries'[f].T_dest].PC
                /\ working'[f].inst = Fetch(program', working'[f].PC)
                /\ f \in fu_type(working'[f].inst)
    <3>1. f \in Fu /\ program' = program
      BY <2>8 DEF Moves
    <3>2. CASE f \in busy \ Freed(grant)
      <4> DEFINE t == rs_entries[f].T_dest
      <4>1. /\ working'[f].inst = working[f].inst
            /\ working'[f].PC = working[f].PC
            /\ rs_entries'[f].T_dest = t
        BY <1>2, <3>1, <3>2, UnitMoves DEF KeepsWork
      <4>2. t \in Live /\ t \in RobIdx /\ ~rob_entries[t].ready
        BY <2>5, <3>2 DEF Waiting
      <4> HIDE DEF t
      <4>3. ~Leaves(t)
        BY <4>2, LeavesAre DEF Leaves, Retired, Leaves_0, Leaves_1, HeadEntry,
                               SecondEntry
      <4>4. rob_entries'[t].PC = rob_entries[t].PC
        BY <1>2, <2>1, <4>2, <4>3, EntryMoves, UpdatedKeeps DEF SameInst
      <4>. QED  BY <3>1, <3>2, <4>1, <4>4 DEF UnitsWork, t
    <3>3. CASE f \in Taken_0(grant)
      <4>1. GetsWork(f, id_packet_out_0, rob_tail)
        BY <1>2, <3>1, <3>3, UnitMoves
      <4>2. Enters_0(grant)
        BY <2>3, <2>4, <3>3
      <4>3. rob_entries'[rob_tail].PC = id_packet_out_0.PC
        BY <1>2, <2>2, <4>2, EntryMoves, NewEntryIs, PortFields
      <4>. QED
        BY <3>1, <4>1, <4>3
           DEF GetsWork, id_valid, FrontGood, PairOffered, FromText
    <3>4. CASE f \in Taken_1(grant)
      <4>1. GetsWork(f, id_packet_out_1, rob_tail_plus_1)
        BY <1>2, <3>1, <3>4, UnitMoves
      <4>2. Enters_1(grant)
        BY <2>3, <2>4, <3>4
      <4>3. rob_entries'[rob_tail_plus_1].PC = id_packet_out_1.PC
        BY <1>2, <2>2, <4>2, EntryMoves, NewEntryIs, PortFields
      <4>. QED
        BY <3>1, <4>1, <4>3
           DEF GetsWork, id_valid, FrontGood, PairOffered, FromText
    <3>. QED  BY <1>2, <3>1, <3>2, <3>3, <3>4, UnitMoves
  <2>. QED  BY <2>9, <2>10, <2>11, <2>12 DEF UnitsWork
<1>. QED  BY <1>1, <1>2

-----------------------------------------------------------------------------
(* The map table names the youngest writers.                               *)

LEMMA MtMoveIs ==
  ASSUME NEW grant, NEW slow, NEW late, Moves(grant, slow, late),
         ~squash(sq_rob_valid), NEW r \in Reg
  PROVE  /\ Tag'[r] = IF Renamed_1(grant) # ZERO_REG /\ r = Renamed_1(grant)
                      THEN rob_tail_plus_1
                      ELSE IF Renamed_0(grant) # ZERO_REG
                              /\ r = Renamed_0(grant)
                      THEN rob_tail
                      ELSE IF Cleared(Mt_0, Mt_1, r) THEN ZERO_TAG
                      ELSE Tag[r]
         /\ ready_in_ROB'[r] <=>
              /\ ~(Renamed_0(grant) # ZERO_REG /\ r = Renamed_0(grant))
              /\ ~(Renamed_1(grant) # ZERO_REG /\ r = Renamed_1(grant))
              /\ \/ Announced(Carried(grant[1]), r)
                 \/ Announced(Carried(grant[2]), r)
                 \/ ready_in_ROB[r] /\ ~Cleared(Mt_0, Mt_1, r)
<1>1. MtUpdate(Mt_0, Mt_1, Renamed_0(grant), Renamed_1(grant),
               Carried(grant[1]), Carried(grant[2]))
  BY StepsAre DEF MtStep
<1>2. Mt_0.rob_tail = rob_tail /\ Mt_1.rob_tail = rob_tail_plus_1
  BY DEF Mt_0, Mt_1, ToMt
<1>. QED  BY <1>1, <1>2 DEF MtUpdate

LEMMA ClearedIs ==
  ASSUME Typed, ~halt, NEW r \in Reg \ {ZERO_REG}, RenamesYoungestOf(r)
  PROVE  Cleared(Mt_0, Mt_1, r) <=> Tag[r] # ZERO_TAG /\ Leaves(Tag[r])
<1>1. /\ Mt_0.dest_valid <=> Leaves_0 /\ HeadEntry.dest_reg_idx # ZERO_REG
      /\ Mt_0.dest_reg_idx = HeadEntry.dest_reg_idx
      /\ Mt_0.rob_head = rob_head
      /\ Mt_1.dest_valid <=> Leaves_1 /\ SecondEntry.dest_reg_idx # ZERO_REG
      /\ Mt_1.dest_reg_idx = SecondEntry.dest_reg_idx
      /\ Mt_1.rob_head = rob_head_plus_1
  BY DEF Mt_0, Mt_1, ToMt, Write_0, Write_1, rob_reg_0, rob_reg_1, RegWrite,
         Leaves_0, Leaves_1
<1>2. Cleared(Mt_0, Mt_1, r) <=>
        \/ Leaves_0 /\ Tag[r] = rob_head /\ HeadEntry.dest_reg_idx = r
        \/ Leaves_1 /\ Tag[r] = rob_head_plus_1 /\ SecondEntry.dest_reg_idx = r
  BY <1>1 DEF Cleared, clear_valid
<1>3. Tag[r] # ZERO_TAG =>
        Tag[r] \in RobIdx /\ rob_entries[Tag[r]].dest_reg_idx = r
  BY DEF RenamesYoungestOf, Writers, Live
<1>4. rob_head # ZERO_TAG /\ rob_head_plus_1 # ZERO_TAG
  BY EntriesAre, CoreAssumption DEF Typed, RobIdx
<1>. QED
  BY <1>2, <1>3, <1>4
     DEF Leaves, Retired, Leaves_0, Leaves_1, HeadEntry, SecondEntry

LEMMA AnnouncedIs ==
  ASSUME Typed, NEW grant \in Grants(Requests), NEW r \in Reg
  PROVE  Announced(Carried(grant[1]), r) \/ Announced(Carried(grant[2]), r)
           <=> Finishes(grant, Tag[r])
<1>1. ASSUME NEW s, Granted(s)
      PROVE  Announced(Carried(s), r) <=>
               \E f \in s : rs_entries[f].T_dest = Tag[r]
  <2>1. /\ Carried(s).valid <=> s # {}
        /\ \A f \in s : Carried(s).tag = rs_entries[f].T_dest
    BY <1>1, CarriedIs
  <2>. QED  BY <2>1 DEF Announced
<1>2. Granted(grant[1]) /\ Granted(grant[2])
  BY GrantIs
<1>3. \A s : Granted(s) =>
        (Announced(Carried(s), r) <=> \E f \in s : rs_entries[f].T_dest = Tag[r])
  BY <1>1
<1>. QED  BY <1>2, <1>3 DEF Finishes, Freed

LEMMA FinishesIs ==
  ASSUME Typed, Loads, UnitsWork, NEW grant \in Grants(Requests), NEW t,
         Finishes(grant, t)
  PROVE  t \in Live /\ ~rob_entries[t].ready
BY FreedIs DEF Finishes, UnitsWork, Waiting

LEMMA RenamedAre ==
  ASSUME FrontGood, ~Phantoms, NEW grant, NEW r \in Reg \ {ZERO_REG}
  PROVE  /\ Renamed_0(grant) = r <=>
              Enters_0(grant) /\ dest_reg_idx(id_packet_out_0.inst) = r
         /\ Renamed_1(grant) = r <=>
              Enters_1(grant) /\ dest_reg_idx(id_packet_out_1.inst) = r
<1>1. \A i : isHalt(i) => dest_reg_idx(i) = ZERO_REG
  BY DEF isHalt, dest_reg_idx
<1>2. /\ Renamed_0(grant) = IF Starts_0(grant)
                            THEN dest_reg_idx(id_packet_out_0.inst)
                            ELSE ZERO_REG
      /\ Renamed_1(grant) = IF Starts_1(grant)
                            THEN dest_reg_idx(id_packet_out_1.inst)
                            ELSE ZERO_REG
  BY DEF Renamed_0, Renamed_1, RdDispatch, Starts_0, Starts_1
<1>. QED  BY <1>1, <1>2, StartsEnter

LEMMA WritersMove ==
  ASSUME Typed, FrontGood, ~Phantoms,
         NEW grant, NEW slow, NEW late, Moves(grant, slow, late),
         ~squash(sq_rob_valid), NEW r \in Reg \ {ZERO_REG}, NEW t \in RobIdx
  PROVE  t \in Writers(r)' <=> \/ t \in Writers(r) /\ ~Leaves(t)
                               \/ Renamed_0(grant) = r /\ t = rob_tail
                               \/ Renamed_1(grant) = r /\ t = rob_tail_plus_1
<1>1. t \in Writers(r)' <=> t \in Live' /\ rob_entries'[t].dest_reg_idx = r
  BY DEF Writers
<1>2. /\ Enters_0(grant) => rob_tail \notin Live
      /\ Enters_1(grant) => rob_tail_plus_1 \notin Live /\ Enters_0(grant)
      /\ rob_tail # rob_tail_plus_1
  BY RoomIs DEF Typed
<1>3. /\ Renamed_0(grant) = r <=>
           Enters_0(grant) /\ dest_reg_idx(id_packet_out_0.inst) = r
      /\ Renamed_1(grant) = r <=>
           Enters_1(grant) /\ dest_reg_idx(id_packet_out_1.inst) = r
  BY RenamedAre
<1>4. CASE Enters_0(grant) /\ t = rob_tail
  BY <1>1, <1>2, <1>3, <1>4, EntryMoves, NewEntryIs, PortFields DEF Writers
<1>5. CASE Enters_1(grant) /\ t = rob_tail_plus_1
  BY <1>1, <1>2, <1>3, <1>5, EntryMoves, NewEntryIs, PortFields DEF Writers
<1>6. CASE /\ ~(Enters_0(grant) /\ t = rob_tail)
           /\ ~(Enters_1(grant) /\ t = rob_tail_plus_1)
  <2>1. CASE t \in Live /\ ~Leaves(t)
    <3>1. rob_entries'[t] = Updated(grant, t) /\ t \in Live'
      BY <2>1, EntryMoves
    <3>2. Updated(grant, t).dest_reg_idx = rob_entries[t].dest_reg_idx
      BY <2>1, UpdatedKeeps DEF SameInst, Moves
    <3>. QED  BY <1>1, <1>3, <1>6, <2>1, <3>1, <3>2 DEF Writers
  <2>2. CASE ~(t \in Live /\ ~Leaves(t))
    BY <1>1, <1>3, <1>6, <2>2, EntryMoves DEF Writers
  <2>. QED  BY <2>1, <2>2
<1>. QED  BY <1>4, <1>5, <1>6

\* A register that names its youngest writer, after a cycle.
LEMMA RenamesIf ==
  ASSUME NEW r, NEW t \in RobIdx, Tag'[r] = t, t \in Writers(r)',
         \A u \in RobIdx : u \in Writers(r)' => Age(u)' <= Age(t)',
         ready_in_ROB'[r] = rob_entries'[t].ready
  PROVE  RenamesYoungestOf(r)'
<1>1. \A u \in Writers(r)' : u \in RobIdx
  BY DEF Writers, Live
<1>2. \A u \in Writers(r)' : Age(u)' <= Age(t)'
  BY <1>1
<1>. QED  BY <1>2 DEF RenamesYoungestOf, Age

LEMMA RenamesMovesOf ==
  ASSUME Typed, FrontGood, Loads, ~Phantoms, UnitsWork, Renames,
         NEW grant, NEW slow, NEW late, Moves(grant, slow, late),
         ~squash(sq_rob_valid), NEW r \in Reg \ {ZERO_REG}
  PROVE  RenamesYoungestOf(r)'
<1>1. grant \in Grants(Requests) /\ ~halt
  BY DEF Moves
<1>2. RenamesYoungestOf(r)
  BY DEF Renames
<1>3. /\ rob_tail \in RobIdx /\ rob_tail_plus_1 \in RobIdx
      /\ rob_counter \in Nat /\ Left \in Nat
      /\ \A t \in RobIdx : Age(t) \in Nat
  BY EntriesAre, LeavesAre, AgeIs DEF Typed
<1>4. /\ Renamed_0(grant) = r => Enters_0(grant)
      /\ Renamed_1(grant) = r => Enters_1(grant)
  BY RenamedAre
<1>5. \A t \in RobIdx :
        t \in Writers(r)' <=> \/ t \in Writers(r) /\ ~Leaves(t)
                              \/ Renamed_0(grant) = r /\ t = rob_tail
                              \/ Renamed_1(grant) = r /\ t = rob_tail_plus_1
  BY WritersMove
<1>6. \A t \in RobIdx :
        /\ t \in Writers(r) /\ ~Leaves(t) =>
             Age(t)' = Age(t) - Left /\ Age(t) < rob_counter
        /\ Renamed_0(grant) = r /\ t = rob_tail =>
             Age(t)' = rob_counter - Left
        /\ Renamed_1(grant) = r /\ t = rob_tail_plus_1 =>
             Age(t)' = rob_counter - Left + 1
  <2>1. \A t \in Writers(r) : t \in Live
    BY DEF Writers
  <2>. QED  BY <1>4, <2>1, AgeMoves, AgeIs DEF Typed
<1>7. CASE Renamed_1(grant) = r
  <2>1. PICK t \in RobIdx : t = rob_tail_plus_1
    BY <1>3
  <2>2. Tag'[r] = t /\ ~ready_in_ROB'[r] /\ ready_in_ROB'[r] \in BOOLEAN
    BY <1>7, <2>1, MtMoveIs, MapTypeMoves DEF MapTyped
  <2>3. ~rob_entries'[t].ready /\ rob_entries'[t].ready = FALSE
    <3>1. rob_entries'[t] = NewEntry(Port_1(grant))
      BY <1>4, <1>7, <2>1, EntryMoves
    <3>2. NewEntry(Port_1(grant)).ready = FALSE
      BY DEF NewEntry
    <3>. QED  BY <3>1, <3>2
  <2>4. \A u \in RobIdx : u \in Writers(r)' => Age(u)' <= Age(t)'
    BY <1>3, <1>5, <1>6, <1>7, <2>1
  <2>. QED  BY <1>5, <1>7, <2>1, <2>2, <2>3, <2>4, RenamesIf
<1>8. CASE Renamed_1(grant) # r /\ Renamed_0(grant) = r
  <2>1. PICK t \in RobIdx : t = rob_tail
    BY <1>3
  <2>2. Tag'[r] = t /\ ~ready_in_ROB'[r] /\ ready_in_ROB'[r] \in BOOLEAN
    BY <1>8, <2>1, MtMoveIs, MapTypeMoves DEF MapTyped
  <2>3. ~rob_entries'[t].ready /\ rob_entries'[t].ready = FALSE
    <3>1. rob_entries'[t] = NewEntry(Port_0(grant))
      BY <1>4, <1>8, <2>1, EntryMoves
    <3>2. NewEntry(Port_0(grant)).ready = FALSE
      BY DEF NewEntry
    <3>. QED  BY <3>1, <3>2
  <2>4. \A u \in RobIdx : u \in Writers(r)' => Age(u)' <= Age(t)'
    BY <1>3, <1>5, <1>6, <1>8, <2>1
  <2>. QED  BY <1>5, <1>8, <2>1, <2>2, <2>3, <2>4, RenamesIf
<1>9. CASE Renamed_1(grant) # r /\ Renamed_0(grant) # r
  <2>1. /\ Tag'[r] = IF Cleared(Mt_0, Mt_1, r) THEN ZERO_TAG ELSE Tag[r]
        /\ ready_in_ROB'[r] <=>
             \/ Finishes(grant, Tag[r])
             \/ ready_in_ROB[r] /\ ~Cleared(Mt_0, Mt_1, r)
    BY <1>1, <1>9, MtMoveIs, AnnouncedIs
  <2>2. Cleared(Mt_0, Mt_1, r) <=> Tag[r] # ZERO_TAG /\ Leaves(Tag[r])
    BY <1>1, <1>2, ClearedIs
  <2>3. \A t : Finishes(grant, t) =>
                 /\ t \in RobIdx /\ t # ZERO_TAG /\ ~Leaves(t)
                 /\ ~rob_entries[t].ready
    BY <1>1, FinishesIs, LeavesAre, CoreAssumption
       DEF Leaves, Retired, Leaves_0, Leaves_1, HeadEntry, SecondEntry, Live,
           RobIdx
  <2>4. Writers(r)' \subseteq RobIdx /\ Writers(r) \subseteq RobIdx
    BY DEF Writers, Live
  <2>5. CASE Tag[r] = ZERO_TAG /\ ~ready_in_ROB[r] /\ Writers(r) = {}
    <3>1. Writers(r)' = {}
      BY <1>5, <1>9, <2>4, <2>5
    <3>. QED  BY <2>1, <2>2, <2>3, <2>5, <3>1 DEF RenamesYoungestOf
  <2>6. ASSUME Tag[r] \in Writers(r),
               \A u \in Writers(r) : Age(u) <= Age(Tag[r]),
               ready_in_ROB[r] = rob_entries[Tag[r]].ready
        PROVE  RenamesYoungestOf(r)'
    <3>1. PICK t \in RobIdx : t = Tag[r]
      BY <2>4, <2>6
    <3>2. t \in Writers(r) /\ t # ZERO_TAG /\ t \in Live
          /\ \A u \in Writers(r) : Age(u) <= Age(t)
      BY <2>6, <3>1, CoreAssumption DEF RobIdx, Writers
    <3>3. CASE Leaves(t)
      <4>1. \A u \in Writers(r) : Leaves(u)
        <5>1. \A u \in RobIdx : Leaves(u) <=> Age(u) < Left
          BY LeavesAre
        <5>. QED  BY <1>3, <2>4, <3>2, <3>3, <5>1
      <4>2. Writers(r)' = {}
        BY <1>5, <1>9, <2>4, <4>1
      <4>. QED
        BY <2>1, <2>2, <2>3, <3>1, <3>2, <3>3, <4>2 DEF RenamesYoungestOf
    <3>4. CASE ~Leaves(t)
      <4>1. Tag'[r] = t /\ t \in Writers(r)'
        BY <1>5, <2>1, <2>2, <3>1, <3>2, <3>4
      <4>2. rob_entries'[t] = Updated(grant, t)
        BY <3>2, <3>4, EntryMoves
      <4>3. rob_entries'[t].ready <=> \/ rob_entries[t].ready
                                      \/ Finishes(grant, t)
        BY <1>1, <3>2, <4>2, UpdatedKeeps
      <4>4. ready_in_ROB'[r] <=> rob_entries'[t].ready
        BY <2>1, <2>2, <2>6, <3>1, <3>4, <4>3
      <4>5. ready_in_ROB'[r] \in BOOLEAN /\ rob_entries'[t].ready \in BOOLEAN
        BY MapTypeMoves, RobMoves
           DEF MapTyped, RobInv, RobTypeOK, RobEntry
      <4>6. \A u \in RobIdx : u \in Writers(r)' => Age(u)' <= Age(t)'
        BY <1>3, <1>5, <1>6, <1>9, <3>2, <3>4
      <4>. QED  BY <4>1, <4>4, <4>5, <4>6, RenamesIf
    <3>. QED  BY <3>3, <3>4
  <2>. QED  BY <1>2, <2>5, <2>6 DEF RenamesYoungestOf
<1>. QED  BY <1>7, <1>8, <1>9

LEMMA RenamesMoves ==
  ASSUME Typed, FrontGood, Loads, ~Phantoms, UnitsWork, Renames,
         NEW grant, NEW slow, NEW late, Moves(grant, slow, late)
  PROVE  Renames'
<1>1. CASE squash(sq_rob_valid)
  <2>1. \A t \in RobIdx : ~rob_entries'[t].valid
    BY <1>1, RobStepIs DEF RobStep, RobReset, EmptyEntry
  <2>2. \A r \in Reg : Tag'[r] = ZERO_TAG /\ ~ready_in_ROB'[r]
    BY <1>1, StepsAre DEF MtStep
  <2>3. \A r \in Reg : Writers(r)' = {}
    BY <2>1 DEF Writers, Live
  <2>4. ZERO_REG \in Reg
    BY IsaAssumption DEF ZERO_REG
  <2>. QED  BY <2>2, <2>3, <2>4 DEF Renames, RenamesYoungestOf
<1>2. CASE ~squash(sq_rob_valid)
  <2>1. ZERO_REG \in Reg
    BY IsaAssumption DEF ZERO_REG
  <2>2. Tag'[ZERO_REG] = ZERO_TAG
    BY <1>2, <2>1, MtMoveIs DEF Renames
  <2>3. \A r \in Reg \ {ZERO_REG} : RenamesYoungestOf(r)'
    BY <1>2, RenamesMovesOf
  <2>. QED  BY <2>2, <2>3 DEF Renames
<1>. QED  BY <1>1, <1>2

-----------------------------------------------------------------------------
(* No operand is missed.                                                   *)

\* What a station holds of an operand when the results have passed by.
AfterResults(grant, info) ==
  Heard(Heard(info, Carried(grant[1])), Carried(grant[2]))

LEMMA AfterResultsIs ==
  ASSUME Typed, NEW grant \in Grants(Requests), NEW info,
         ~AfterResults(grant, info).V_ready
  PROVE  /\ AfterResults(grant, info) = info /\ ~info.V_ready
         /\ ~Finishes(grant, info.tag)
<1>1. Granted(grant[1]) /\ Granted(grant[2])
  BY GrantIs
<1>2. \A s : Granted(s) =>
        /\ Carried(s).valid <=> s # {}
        /\ \A f \in s : Carried(s).tag = rs_entries[f].T_dest
  BY CarriedIs
<1>3. \A i, s : Granted(s) /\ ~Heard(i, Carried(s)).V_ready =>
        /\ Heard(i, Carried(s)) = i /\ ~i.V_ready
        /\ ~ \E f \in s : rs_entries[f].T_dest = i.tag
  BY <1>2 DEF Heard
<1>. QED  BY <1>1, <1>3 DEF AfterResults, Finishes, Freed

LEMMA WaitedForStays ==
  ASSUME Typed, NEW grant, NEW slow, NEW late, Moves(grant, slow, late),
         ~squash(sq_rob_valid), NEW t \in Live, ~rob_entries[t].ready,
         ~Finishes(grant, t)
  PROVE  t \in Live' /\ ~rob_entries'[t].ready /\ Age(t)' = Age(t) - Left
<1>1. t \in RobIdx /\ grant \in Grants(Requests)
  BY DEF Live, Moves
<1>2. ~Leaves(t)
  BY LeavesAre
     DEF Leaves, Retired, Leaves_0, Leaves_1, HeadEntry, SecondEntry
<1>3. t \in Live' /\ rob_entries'[t] = Updated(grant, t)
  BY <1>1, <1>2, EntryMoves
<1>. QED  BY <1>1, <1>2, <1>3, UpdatedKeeps, AgeMoves

\* The map table names an entry that waits, or has the operand.
LEMMA LookupWaits ==
  ASSUME Typed, Renames, NEW r \in Reg, Lookup_0(Mt_0, Mt_1, r).tag # ZERO_TAG,
         ~Lookup_0(Mt_0, Mt_1, r).ready
  PROVE  /\ Lookup_0(Mt_0, Mt_1, r).tag \in Live
         /\ ~rob_entries[Lookup_0(Mt_0, Mt_1, r).tag].ready
<1>1. Lookup_0(Mt_0, Mt_1, r).tag = Tag[r] /\ ~ready_in_ROB[r]
      /\ Tag[r] # ZERO_TAG
  BY DEF Lookup_0
<1>2. r # ZERO_REG
  BY <1>1 DEF Renames
<1>3. RenamesYoungestOf(r)
  BY <1>2 DEF Renames
<1>. QED  BY <1>1, <1>3 DEF RenamesYoungestOf, Writers

\* The operands that a slot takes along wait for older entries.
LEMMA OperandWaits ==
  ASSUME Typed, FrontGood, ~Phantoms, Renames, NEW grant, NEW slow, NEW late,
         Moves(grant, slow, late), ~squash(sq_rob_valid), NEW k \in 1 .. 2
  PROVE  LET o == AfterResults(grant, Station_0.rs_entry_info[k])
         IN  Enters_0(grant) /\ ~o.V_ready =>
               /\ o.tag \in Live' /\ ~rob_entries'[o.tag].ready
               /\ \A t \in RobIdx : t = o.tag => Age(t)' < rob_counter - Left
<1> DEFINE i == Station_0.rs_entry_info[k]
           o == AfterResults(grant, i)
           mt == Lookup_0(Mt_0, Mt_1, input_reg_idx(id_packet_out_0.inst, k))
<1>1. SUFFICES ASSUME Enters_0(grant), ~o.V_ready
               PROVE  /\ o.tag \in Live' /\ ~rob_entries'[o.tag].ready
                      /\ \A t \in RobIdx : t = o.tag =>
                            Age(t)' < rob_counter - Left
  OBVIOUS
<1>2. i = Operand(id_packet_out_0.inst, k, mt,
                  rd_out(Write_0, Write_1,
                         input_reg_idx(id_packet_out_0.inst, k)),
                  rob_value(mt.tag))
  BY DEF Station_0, Station, Asked_0
<1>3. grant \in Grants(Requests)
      /\ input_reg_idx(id_packet_out_0.inst, k) \in Reg
  BY SourceIs DEF Moves, Typed, FrontTyped, Packet
<1> HIDE DEF mt, i
<1>4. o = i /\ ~i.V_ready /\ ~Finishes(grant, i.tag)
  BY <1>1, <1>3, AfterResultsIs
<1>5. i.tag = mt.tag /\ mt.tag # ZERO_TAG /\ ~mt.ready
  BY <1>2, <1>4 DEF Operand
<1>6. mt.tag \in Live /\ ~rob_entries[mt.tag].ready
  BY <1>3, <1>5, LookupWaits DEF mt
<1>7. PICK t \in RobIdx : t = mt.tag
  BY <1>6 DEF Live
<1>8. /\ t \in Live' /\ ~rob_entries'[t].ready /\ Age(t)' = Age(t) - Left
      /\ Age(t) < rob_counter /\ Age(t) \in Nat /\ Left \in Nat
      /\ rob_counter \in Nat
  BY <1>4, <1>5, <1>6, <1>7, WaitedForStays, AgeIs, LeavesAre, EntriesAre
     DEF Typed
<1>. QED  BY <1>4, <1>5, <1>7, <1>8

LEMMA OperandWaits_1 ==
  ASSUME Typed, FrontGood, ~Phantoms, Renames, NEW grant, NEW slow, NEW late,
         Moves(grant, slow, late), ~squash(sq_rob_valid), NEW k \in 1 .. 2
  PROVE  LET o == AfterResults(grant, Station_1(grant).rs_entry_info[k])
         IN  Enters_1(grant) /\ ~o.V_ready =>
               /\ o.tag \in Live' /\ ~rob_entries'[o.tag].ready
               /\ \A t \in RobIdx : t = o.tag =>
                     Age(t)' < rob_counter - Left + 1
<1> DEFINE i == Station_1(grant).rs_entry_info[k]
           o == AfterResults(grant, i)
           r == input_reg_idx(id_packet_out_1.inst, k)
           mt == Lookup_1(Mt_0, Mt_1, Renamed_0(grant), r)
<1>1. SUFFICES ASSUME Enters_1(grant), ~o.V_ready
               PROVE  /\ o.tag \in Live' /\ ~rob_entries'[o.tag].ready
                      /\ \A t \in RobIdx : t = o.tag =>
                            Age(t)' < rob_counter - Left + 1
  OBVIOUS
<1>2. i = Operand(id_packet_out_1.inst, k, mt, rd_out(Write_0, Write_1, r),
                  rob_value(mt.tag))
  BY DEF Station_1, Station, Asked_1
<1>3. grant \in Grants(Requests) /\ r \in Reg
  BY SourceIs DEF Moves, Typed, FrontTyped, Packet
<1>4. Left \in Nat /\ rob_counter \in Nat /\ rob_tail \in RobIdx
  BY LeavesAre, EntriesAre DEF Typed
<1> HIDE DEF mt, i, r
<1>5. o = i /\ ~i.V_ready /\ ~Finishes(grant, i.tag)
  BY <1>1, <1>3, AfterResultsIs
<1>6. i.tag = mt.tag /\ mt.tag # ZERO_TAG /\ ~mt.ready
  BY <1>2, <1>5 DEF Operand
<1>7. CASE Renamed_0(grant) # ZERO_REG /\ Renamed_0(grant) = r
  <2>1. mt.tag = rob_tail
    BY <1>7, WritesAre DEF mt, Lookup_1, Typed
  <2>2. Enters_0(grant)
    BY <1>3, <1>7, RenamedAre
  <2>3. /\ rob_tail \in Live' /\ rob_entries'[rob_tail]
                                   = NewEntry(Port_0(grant))
        /\ \A t \in RobIdx : t = rob_tail => Age(t)' = rob_counter - Left
    BY <1>4, <2>2, EntryMoves, AgeMoves
  <2>. QED  BY <1>4, <1>5, <1>6, <2>1, <2>3, NewEntryIs
<1>8. CASE ~(Renamed_0(grant) # ZERO_REG /\ Renamed_0(grant) = r)
  <2>1. mt = Lookup_0(Mt_0, Mt_1, r)
    BY <1>8 DEF mt, Lookup_1
  <2>2. mt.tag \in Live /\ ~rob_entries[mt.tag].ready
    BY <1>3, <1>6, <2>1, LookupWaits
  <2>3. PICK t \in RobIdx : t = mt.tag
    BY <2>2 DEF Live
  <2>4. /\ t \in Live' /\ ~rob_entries'[t].ready /\ Age(t)' = Age(t) - Left
        /\ Age(t) < rob_counter /\ Age(t) \in Nat
    BY <1>5, <1>6, <2>2, <2>3, WaitedForStays, AgeIs DEF Typed
  <2>. QED  BY <1>4, <1>5, <1>6, <2>3, <2>4
<1>. QED  BY <1>7, <1>8

\* What a station holds after a cycle.
LEMMA NextInfoIs ==
  ASSUME Typed, Loads, NEW grant \in Grants(Requests), NEW f \in Fu,
         NEW k \in 1 .. 2
  PROVE  LET o == NextOf(grant)[f].rs_entry_info[k]
         IN  /\ f \in Taken_1(grant) =>
                  o = AfterResults(grant, Station_1(grant).rs_entry_info[k])
             /\ f \in Taken_0(grant) =>
                  o = AfterResults(grant, Station_0.rs_entry_info[k])
             /\ f \in busy \ Freed(grant) =>
                  o = AfterResults(grant, rs_entries[f].rs_entry_info[k])
<1> DEFINE e == IF f \in Taken_1(grant) THEN Station_1(grant)
                ELSE IF f \in Taken_0(grant) THEN Station_0
                ELSE IF f \in Freed(grant) \cap busy THEN EmptyStation
                ELSE rs_entries[f]
<1>1. /\ Station_0 \in StationType /\ Station_1(grant) \in StationType
      /\ rs_entries[f] \in StationType /\ EmptyStation \in StationType
  BY StationsAre, EmptyAre DEF Typed, RsTyped
<1>2. e \in StationType
  BY <1>1
<1>3. NextOf(grant)[f]
        = IF f \notin NextBusy(Freed(grant), Taken_0(grant), Taken_1(grant))
          THEN e
          ELSE [e EXCEPT !.rs_entry_info =
                  [j \in 1 .. 2 |-> AfterResults(grant, @[j])]]
  BY DEF NextOf, NextStation, AfterResults
<1>4. /\ Taken_0(grant) \cap Taken_1(grant) = {}
      /\ Taken_0(grant) \cap (busy \ Freed(grant)) = {}
      /\ Taken_1(grant) \cap (busy \ Freed(grant)) = {}
  BY TakenAre, FreedIs
<1>5. /\ f \in Taken_1(grant) => e = Station_1(grant)
      /\ f \in Taken_0(grant) => e = Station_0
      /\ f \in busy \ Freed(grant) => e = rs_entries[f]
  BY <1>4
<1> HIDE DEF e
<1>6. f \in NextBusy(Freed(grant), Taken_0(grant), Taken_1(grant)) =>
        NextOf(grant)[f].rs_entry_info[k]
          = AfterResults(grant, e.rs_entry_info[k])
  BY <1>2, <1>3 DEF StationType
<1>. QED  BY <1>5, <1>6 DEF NextBusy

LEMMA OperandsMoveOf ==
  ASSUME Typed, FrontGood, Loads, ~Phantoms, UnitsWork, Renames, OperandsCome,
         NEW grant, NEW slow, NEW late, Moves(grant, slow, late),
         ~squash(sq_rob_valid), NEW f \in busy', NEW k \in 1 .. 2
  PROVE  OperandComes(f, k)'
<1> DEFINE o == rs_entries'[f].rs_entry_info[k]
           t == rs_entries'[f].T_dest
<1>1. f \in Fu /\ grant \in Grants(Requests) /\ rs_entries' = NextOf(grant)
  BY TypedMoves, StepRsIs DEF Typed, RsTyped, Moves
<1>2. SUFFICES ASSUME ~o.V_ready
               PROVE  /\ o.tag \in Live' /\ ~rob_entries'[o.tag].ready
                      /\ \A u, v \in RobIdx : u = o.tag /\ v = t =>
                            Age(u)' < Age(v)'
  <2>1. t \in RobIdx
    BY <1>1, TypedMoves DEF Typed, RsTyped, StationType
  <2>. QED  BY <1>2, <2>1 DEF OperandComes, Live, Age
<1>3. WorksFor(grant, f, t)
  BY <1>1, WorksForIs
<1>4. /\ rob_tail \in RobIdx /\ rob_tail_plus_1 \in RobIdx
      /\ Left \in Nat /\ rob_counter \in Nat
      /\ \A u \in RobIdx : Age(u) \in Nat
  BY EntriesAre, LeavesAre, AgeIs DEF Typed
<1>5. /\ Starts_0(grant) => Enters_0(grant)
      /\ Starts_1(grant) => Enters_1(grant)
      /\ Taken_0(grant) # {} => Starts_0(grant)
      /\ Taken_1(grant) # {} => Starts_1(grant)
  BY StartsEnter, StartsAre DEF Takes
<1> HIDE DEF t
<1>6. CASE f \in Taken_0(grant)
  <2>1. o = AfterResults(grant, Station_0.rs_entry_info[k]) /\ Enters_0(grant)
    BY <1>1, <1>5, <1>6, NextInfoIs
  <2>2. t = rob_tail
    BY <1>1, <1>6, StationMoves DEF t
  <2>3. \A v \in RobIdx : v = rob_tail => Age(v)' = rob_counter - Left
    BY <2>1, AgeMoves
  <2> HIDE DEF o
  <2>4. /\ o.tag \in Live' /\ ~rob_entries'[o.tag].ready
        /\ \A u \in RobIdx : u = o.tag => Age(u)' < rob_counter - Left
    BY <1>2, <2>1, OperandWaits
  <2>. QED  BY <2>2, <2>3, <2>4
<1>7. CASE f \in Taken_1(grant)
  <2>1. o = AfterResults(grant, Station_1(grant).rs_entry_info[k])
        /\ Enters_1(grant)
    BY <1>1, <1>5, <1>7, NextInfoIs
  <2>2. t = rob_tail_plus_1
    BY <1>1, <1>7, StationMoves DEF t
  <2>3. \A v \in RobIdx : v = rob_tail_plus_1 =>
          Age(v)' = rob_counter - Left + 1
    BY <2>1, AgeMoves
  <2> HIDE DEF o
  <2>4. /\ o.tag \in Live' /\ ~rob_entries'[o.tag].ready
        /\ \A u \in RobIdx : u = o.tag => Age(u)' < rob_counter - Left + 1
    BY <1>2, <2>1, OperandWaits_1
  <2>. QED  BY <2>2, <2>3, <2>4
<1>8. CASE f \in busy \ Freed(grant)
  <2> DEFINE i == rs_entries[f].rs_entry_info[k]
             d == rs_entries[f].T_dest
  <2>1. o = AfterResults(grant, i) /\ t = d
    BY <1>1, <1>8, NextInfoIs, StationMoves DEF t
  <2> HIDE DEF o
  <2>2. o = i /\ ~i.V_ready /\ ~Finishes(grant, i.tag)
    BY <1>1, <1>2, <2>1, AfterResultsIs
  <2>3. i.tag \in Live /\ ~rob_entries[i.tag].ready
        /\ \A u, v \in RobIdx : u = i.tag /\ v = d => Age(u) < Age(v)
    BY <1>8, <2>2 DEF OperandsCome, OperandComes
  <2>4. d \in Live /\ ~rob_entries[d].ready /\ ~Finishes(grant, d)
    BY <1>1, <1>8, FreedIs DEF UnitsWork, Waiting, Finishes
  <2> HIDE DEF i, d
  <2>5. \A u \in RobIdx : u = i.tag =>
          u \in Live' /\ ~rob_entries'[u].ready /\ Age(u)' = Age(u) - Left
    BY <2>2, <2>3, WaitedForStays
  <2>6. \A v \in RobIdx : v = d => Age(v)' = Age(v) - Left
    BY <2>4, WaitedForStays
  <2>7. i.tag \in RobIdx
    BY <2>3 DEF Live
  <2>. QED  BY <1>4, <2>1, <2>2, <2>3, <2>5, <2>6, <2>7
<1>. QED  BY <1>3, <1>6, <1>7, <1>8 DEF WorksFor

LEMMA OperandsMove ==
  ASSUME Typed, FrontGood, Loads, ~Phantoms, UnitsWork, Renames, OperandsCome,
         NEW grant, NEW slow, NEW late, Moves(grant, slow, late)
  PROVE  OperandsCome'
<1>1. CASE squash(sq_rob_valid)
  BY <1>1, SquashRsIs DEF OperandsCome
<1>2. CASE ~squash(sq_rob_valid)
  BY <1>2, OperandsMoveOf DEF OperandsCome
<1>. QED  BY <1>1, <1>2

-----------------------------------------------------------------------------
(* Entries say what the text and the units say.                            *)

LEMMA CompletionIs ==
  ASSUME Typed, Loads, UnitsWork, NEW f \in busy, NEW t \in Live,
         rs_entries[f].T_dest = t, EntryGood(t),
         rs_cdb(f, lsq_fu) \in CdbEntry
  PROVE  GoodEntry(Complete(rob_entries[t], rs_cdb(f, lsq_fu)), Word(t))
<1> DEFINE e == rob_entries[t]
           c == rs_cdb(f, lsq_fu)
           d == Complete(e, c)
           i == Word(t)
<1>1. e \in RobEntry
  BY EntriesAre DEF Typed, Live
<1>2. /\ working[f].PC = e.PC /\ working[f].inst = i /\ f \in fu_type(i)
      /\ ~e.halt
  BY DEF UnitsWork, Waiting, Word
<1>3. /\ c.take_branch = TakesBranch(f)
      /\ ~TakesBranch(f) => c.branch_target = NPC(e.PC)
  BY <1>2 DEF rs_cdb
<1>4. TakesBranch(f) <=> /\ f \in FU_BEQ
                         /\ \/ uncond_branch(i)
                            \/ cond_branch(i) /\ unit[f].result = 1
  BY <1>2 DEF TakesBranch
<1>5. cond_branch(i) \/ uncond_branch(i) => f \in FU_BEQ
  BY <1>2 DEF fu_type
<1>6. ~(cond_branch(i) /\ uncond_branch(i))
  BY DEF cond_branch, uncond_branch
<1>7. GoodEntry(e, i)
  BY DEF EntryGood
<1> HIDE DEF c, e, i
<1>8. /\ SameInst(d, e) /\ d.ready
      /\ d.mis_pred <=> (e.take_branch # c.take_branch)
      /\ d.branch_target = c.branch_target
  BY <1>1, CompleteIs DEF c
<1>9. e.take_branch \in BOOLEAN /\ c.take_branch \in BOOLEAN
  BY <1>1 DEF RobEntry, CdbEntry, c
<1> HIDE DEF d
<1>10. Predicted(i, d) /\ Predicted(i, e)
  BY <1>7, <1>8 DEF GoodEntry, Predicted, SameInst
<1>11. Diverted(d) \/ (~uncond_branch(i) /\ d.branch_target = d.NPC_out)
  <2>1. CASE uncond_branch(i)
    <3>1. c.take_branch /\ ~e.take_branch
      BY <1>3, <1>4, <1>5, <1>6, <1>10, <2>1 DEF Predicted
    <3>. QED  BY <1>8, <1>9, <3>1 DEF Diverted
  <2>2. CASE cond_branch(i)
    <3>1. d.is_branch
      BY <1>7, <1>8, <2>2 DEF GoodEntry, SameInst
    <3>. QED  BY <1>6, <2>2, <3>1 DEF Diverted
  <2>3. CASE ~uncond_branch(i) /\ ~cond_branch(i)
    <3>1. ~TakesBranch(f) /\ ~e.take_branch
      BY <1>4, <1>10, <2>3 DEF Predicted
    <3>2. d.branch_target = NPC(e.PC)
      BY <1>3, <1>8, <3>1
    <3>3. e.NPC_out = NPC(e.PC) /\ d.NPC_out = e.NPC_out
      BY <1>8, <1>10, <2>3, <3>1 DEF Predicted, SameInst
    <3>. QED  BY <2>3, <3>2, <3>3
  <2>. QED  BY <2>1, <2>2, <2>3
<1>12. ~isHalt(i)
  BY <1>2, <1>7 DEF GoodEntry, e
<1>. QED
  BY <1>7, <1>8, <1>10, <1>11, <1>12 DEF GoodEntry, SameInst, d, e, c, i

LEMMA EntriesMoveOf ==
  ASSUME Typed, FrontGood, Loads, ~Phantoms, UnitsWork, EntriesGood,
         NEW grant, NEW slow, NEW late, Moves(grant, slow, late),
         ~squash(sq_rob_valid), NEW t \in RobIdx, t \in Live'
  PROVE  GoodEntry(rob_entries'[t], Fetch(program, rob_entries'[t].PC))
<1>1. grant \in Grants(Requests)
  BY DEF Moves
<1>2. \/ t \in Live /\ ~Leaves(t)
      \/ Enters_0(grant) /\ t = rob_tail
      \/ Enters_1(grant) /\ t = rob_tail_plus_1
  BY EntryMoves
<1>3. CASE Enters_0(grant) /\ t = rob_tail
  <2> DEFINE e == NewEntry(Port_0(grant))
             p == id_packet_out_0
  <2>1. rob_entries'[t] = e
    BY <1>3, EntryMoves
  <2>2. /\ p.valid /\ p.inst = Fetch(program, p.PC) /\ valid_inst(p.inst)
        /\ Predicted(p.inst, p)
    BY <1>3, EntersAre
       DEF FrontGood, PairOffered, FromText, PacketsPredicted
  <2>3. /\ ~e.ready /\ ~e.mis_pred
        /\ e.dest_reg_idx = dest_reg_idx(p.inst)
        /\ e.store = wr_mem(p.inst) /\ e.halt = isHalt(p.inst)
        /\ cond_branch(p.inst) => e.is_branch
        /\ e.take_branch = p.take_branch /\ e.NPC_out = p.NPC_out
        /\ e.PC = p.PC
    BY NewEntryIs, PortFields
  <2> HIDE DEF e, p
  <2>. QED  BY <2>1, <2>2, <2>3 DEF GoodEntry, Predicted
<1>4. CASE Enters_1(grant) /\ t = rob_tail_plus_1
  <2> DEFINE e == NewEntry(Port_1(grant))
             p == id_packet_out_1
  <2>1. rob_entries'[t] = e
    BY <1>4, EntryMoves
  <2>2. /\ p.valid /\ p.inst = Fetch(program, p.PC) /\ valid_inst(p.inst)
        /\ Predicted(p.inst, p)
    BY <1>4, EntersAre
       DEF FrontGood, PairOffered, FromText, PacketsPredicted
  <2>3. /\ ~e.ready /\ ~e.mis_pred
        /\ e.dest_reg_idx = dest_reg_idx(p.inst)
        /\ e.store = wr_mem(p.inst) /\ e.halt = isHalt(p.inst)
        /\ cond_branch(p.inst) => e.is_branch
        /\ e.take_branch = p.take_branch /\ e.NPC_out = p.NPC_out
        /\ e.PC = p.PC
    BY NewEntryIs, PortFields
  <2> HIDE DEF e, p
  <2>. QED  BY <2>1, <2>2, <2>3 DEF GoodEntry, Predicted
<1>5. CASE t \in Live /\ ~Leaves(t)
  <2>1. rob_entries'[t] = Updated(grant, t)
    BY <1>5, EntryMoves
  <2>2. EntryGood(t)
    BY <1>5 DEF EntriesGood
  <2>3. CASE ~Finishes(grant, t)
    BY <1>1, <1>5, <2>1, <2>2, <2>3, UpdatedIs DEF EntryGood, Word
  <2>4. CASE Finishes(grant, t)
    <3>1. PICK f \in Freed(grant) :
            /\ rs_entries[f].T_dest = t /\ rs_cdb(f, lsq_fu) \in CdbEntry
            /\ Updated(grant, t) = Complete(rob_entries[t], rs_cdb(f, lsq_fu))
      BY <1>1, <1>5, <2>4, UpdatedIs
    <3>2. GoodEntry(Updated(grant, t), Word(t))
      BY <1>1, <1>5, <2>2, <3>1, FreedIs, CompletionIs
    <3>3. Updated(grant, t).PC = rob_entries[t].PC
      BY <1>1, <1>5, UpdatedKeeps DEF SameInst
    <3>. QED  BY <2>1, <3>2, <3>3 DEF Word
  <2>. QED  BY <2>3, <2>4
<1>. QED  BY <1>2, <1>3, <1>4, <1>5

LEMMA EntriesMove ==
  ASSUME Typed, FrontGood, Loads, ~Phantoms, UnitsWork, EntriesGood,
         NEW grant, NEW slow, NEW late, Moves(grant, slow, late)
  PROVE  EntriesGood'
<1>1. CASE squash(sq_rob_valid)
  <2>1. \A t \in RobIdx : ~rob_entries'[t].valid
    BY <1>1, RobStepIs DEF RobStep, RobReset, EmptyEntry
  <2>. QED  BY <2>1 DEF EntriesGood, Live
<1>2. CASE ~squash(sq_rob_valid)
  <2>1. program' = program
    BY DEF Moves
  <2>2. \A t \in Live' : t \in RobIdx
    BY DEF Live
  <2>3. \A t \in Live' :
          GoodEntry(rob_entries'[t], Fetch(program', rob_entries'[t].PC))
    BY <1>2, <2>1, <2>2, EntriesMoveOf
  <2>. QED  BY <2>3 DEF EntriesGood, EntryGood, Word
<1>. QED  BY <1>1, <1>2

-----------------------------------------------------------------------------
(* What retires is what the program executes next.                         *)

LEMMA EarlyIs == ASSUME RobInv  PROVE Stuck <=> early_branch_valid
<1>1. R!RobInv
  BY SameInv
<1>2. R!EarlyBranchIsOldest
  BY <1>1, RobAssumed, R!EarlyBranchOldestLemma
<1>3. EarlyBranch = {t \in RobIdx :
                       /\ InWindow(t) /\ Resolved(t)
                       /\ \A u \in RobIdx : InWindow(u) /\ Resolved(u)
                                              => Age(t) <= Age(u)}
  <2>1. R!EarlyBranch = EarlyBranch
    BY DEF R!EarlyBranch, EarlyBranch, R!FirstResolved, FirstResolved,
           R!Resolved, Resolved, R!rob_empty, rob_empty, R!RobIdx, RobIdx
  <2>. QED
    BY <1>2, <2>1
       DEF R!EarlyBranchIsOldest, R!InWindow, InWindow, R!Age, Age,
           R!Resolved, Resolved, R!RobIdx, RobIdx
<1>4. \A t \in RobIdx : Age(t) \in Nat /\ (t \in Live <=> InWindow(t))
  BY AgeIs DEF InWindow
<1>5. ASSUME Stuck  PROVE EarlyBranch # {}
  <2> DEFINE S == {t \in RobIdx : t \in Live /\ Resolved(t)}
             A == {Age(t) : t \in S}
  <2>1. A \in SUBSET Nat /\ A # {}
    BY <1>4, <1>5 DEF Stuck, Live
  <2>2. PICK x \in A : \A y \in A : x =< y
    BY <2>1, LeastNat
  <2>3. PICK t \in S : x = Age(t)
    BY <2>2
  <2>4. \A u \in S : Age(t) <= Age(u)
    BY <2>2, <2>3
  <2>5. t \in EarlyBranch
    BY <1>3, <1>4, <2>3, <2>4
  <2>. QED  BY <2>5
<1>6. ASSUME early_branch_valid  PROVE Stuck
  BY <1>3, <1>4, <1>6 DEF early_branch_valid, Stuck, Live
<1>. QED  BY <1>5, <1>6 DEF early_branch_valid

LEMMA EntersNotStuck ==
  ASSUME Typed, NEW grant, Enters_0(grant) \/ Enters_1(grant)
  PROVE  ~Stuck /\ Enters_0(grant)
BY EntersAre, EarlyIs DEF Typed, rob_full_0

\* An instruction that retires without a squash leads to its target.
LEMMA LeavingLeads ==
  ASSUME Typed, EntriesGood, ~squash(sq_rob_valid)
  PROVE  /\ Leaves_0 => \A pc : Leads(rob_head, pc) =>
                                  pc = HeadEntry.branch_target
         /\ Leaves_1 => \A pc : Leads(rob_head_plus_1, pc) =>
                                  pc = SecondEntry.branch_target
<1>1. /\ Leaves_0 => ~Diverted(HeadEntry) /\ HeadEntry.ready
                     /\ EntryGood(rob_head)
      /\ Leaves_1 => ~Diverted(SecondEntry) /\ SecondEntry.ready
                     /\ EntryGood(rob_head_plus_1)
  BY LeavesAre
     DEF Leaves_0, Leaves_1, squash, squash_0, squash_1, EntriesGood
<1>. QED
  BY <1>1 DEF EntryGood, GoodEntry, Leads, Ends, HeadEntry, SecondEntry

\* Where the program is when the retiring instructions have left.
LEMMA CommitIs ==
  ASSUME NEW grant, NEW slow, NEW late, Moves(grant, slow, late)
  PROVE  commit_PC' = IF Leaves_1 THEN SecondEntry.branch_target
                      ELSE IF Leaves_0 THEN HeadEntry.branch_target
                      ELSE commit_PC
BY DEF Moves, Commit, Leaves_0, Leaves_1

LEMMA CommitPath ==
  ASSUME Typed, EntriesGood, RobPath, NEW grant, NEW slow, NEW late,
         Moves(grant, slow, late), ~squash(sq_rob_valid)
  PROVE  /\ \A t \in Live : Age(t) = Left => rob_entries[t].PC = commit_PC'
         /\ \A pc : GoesOn(pc) /\ rob_counter = Left => pc = commit_PC'
<1>1. /\ Leaves_0 => rob_head \in Live /\ Age(rob_head) = 0
      /\ Leaves_1 => /\ rob_head_plus_1 \in Live /\ Leaves_0
                     /\ Age(rob_head_plus_1) = 1
      /\ Left = IF Leaves_1 THEN 2 ELSE IF Leaves_0 THEN 1 ELSE 0
  BY LeavesAre, AgeIs DEF Typed, Left, RobCount
<1>2. CASE Leaves_1
  <2>1. commit_PC' = SecondEntry.branch_target /\ Left = 2
    BY <1>1, <1>2, CommitIs
  <2>2. \A pc : Leads(rob_head_plus_1, pc) => pc = commit_PC'
    BY <1>2, <2>1, LeavingLeads
  <2>3. /\ \A t \in Live : Age(t) = 2 =>
             Leads(rob_head_plus_1, rob_entries[t].PC)
        /\ \A pc : GoesOn(pc) /\ rob_counter = 2 => Leads(rob_head_plus_1, pc)
    BY <1>1, <1>2 DEF RobPath, GoesOn
  <2>. QED  BY <2>1, <2>2, <2>3
<1>3. CASE Leaves_0 /\ ~Leaves_1
  <2>1. commit_PC' = HeadEntry.branch_target /\ Left = 1
    BY <1>1, <1>3, CommitIs
  <2>2. \A pc : Leads(rob_head, pc) => pc = commit_PC'
    BY <1>3, <2>1, LeavingLeads
  <2>3. /\ \A t \in Live : Age(t) = 1 => Leads(rob_head, rob_entries[t].PC)
        /\ \A pc : GoesOn(pc) /\ rob_counter = 1 => Leads(rob_head, pc)
    BY <1>1, <1>3 DEF RobPath, GoesOn
  <2>. QED  BY <2>1, <2>2, <2>3
<1>4. CASE ~Leaves_0 /\ ~Leaves_1
  BY <1>1, <1>4, CommitIs DEF RobPath, GoesOn
<1>. QED  BY <1>1, <1>2, <1>3, <1>4

\* What an entry leads to does not change while it lives; the new ones lead
\* where their packets say.
LEMMA LeadsMove ==
  ASSUME Typed, FrontGood, NEW grant, NEW slow, NEW late,
         Moves(grant, slow, late), ~squash(sq_rob_valid), NEW t \in RobIdx,
         NEW pc
  PROVE  /\ t \in Live /\ ~Leaves(t) => /\ Leads(t, pc)' <=> Leads(t, pc)
                                        /\ rob_entries'[t].PC
                                             = rob_entries[t].PC
         /\ Enters_0(grant) /\ t = rob_tail =>
              /\ Leads(t, pc)' <=> \/ Ends(id_packet_out_0.inst)
                                   \/ pc = id_packet_out_0.NPC_out
              /\ rob_entries'[t].PC = id_packet_out_0.PC
         /\ Enters_1(grant) /\ t = rob_tail_plus_1 =>
              /\ Leads(t, pc)' <=> \/ Ends(id_packet_out_1.inst)
                                   \/ pc = id_packet_out_1.NPC_out
              /\ rob_entries'[t].PC = id_packet_out_1.PC
<1>1. Leads(t, pc)' <=> \/ Ends(Fetch(program, rob_entries'[t].PC))
                        \/ pc = rob_entries'[t].NPC_out
  BY DEF Leads, Word, Moves
<1>2. t \in Live /\ ~Leaves(t) =>
        /\ rob_entries'[t].PC = rob_entries[t].PC
        /\ rob_entries'[t].NPC_out = rob_entries[t].NPC_out
  BY EntryMoves, UpdatedKeeps DEF SameInst, Moves
<1>3. Enters_0(grant) /\ t = rob_tail =>
        /\ rob_entries'[t].PC = id_packet_out_0.PC
        /\ rob_entries'[t].NPC_out = id_packet_out_0.NPC_out
        /\ id_packet_out_0.inst = Fetch(program, id_packet_out_0.PC)
  BY EntryMoves, NewEntryIs, PortFields, EntersAre
     DEF FrontGood, PairOffered, FromText
<1>4. Enters_1(grant) /\ t = rob_tail_plus_1 =>
        /\ rob_entries'[t].PC = id_packet_out_1.PC
        /\ rob_entries'[t].NPC_out = id_packet_out_1.NPC_out
        /\ id_packet_out_1.inst = Fetch(program, id_packet_out_1.PC)
  BY EntryMoves, NewEntryIs, PortFields, EntersAre
     DEF FrontGood, PairOffered, FromText
<1>. QED  BY <1>1, <1>2, <1>3, <1>4 DEF Leads, Word

\* Where the entries of the next cycle come from, and how far they are
\* behind the head.
LEMMA NextLive ==
  ASSUME Typed, NEW grant, NEW slow, NEW late, Moves(grant, slow, late),
         ~squash(sq_rob_valid), NEW t \in Live'
  PROVE  /\ t \in RobIdx
         /\ \/ t \in Live /\ ~Leaves(t) /\ Age(t)' = Age(t) - Left
               /\ Age(t) < rob_counter
            \/ Enters_0(grant) /\ t = rob_tail /\ Age(t)' = rob_counter - Left
            \/ Enters_1(grant) /\ t = rob_tail_plus_1
               /\ Age(t)' = rob_counter - Left + 1
<1>1. t \in RobIdx
  BY DEF Live
<1>. QED  BY <1>1, EntryMoves, AgeMoves, AgeIs DEF Typed

\* The second instruction of a pair is behind the first.
LEMMA PairLeads ==
  ASSUME FrontGood, id_packet_out_1.valid, id_packet_out_0.valid
  PROVE  \/ Ends(id_packet_out_0.inst)
         \/ id_packet_out_1.PC = id_packet_out_0.NPC_out
BY DEF FrontGood, PairOffered, PacketsPredicted, Predicted, Ends

\* What enters is offered on the path.
LEMMA EntersOnPath ==
  ASSUME Typed, PathGood, NEW grant, Enters_0(grant)
  PROVE  GoesOn(id_packet_out_0.PC) /\ ~just_squash /\ id_packet_out_0.valid
BY EntersNotStuck, EntersAre DEF PathGood, FrontPath

LEMMA RobPathMoves ==
  ASSUME Typed, FrontGood, EntriesGood, PathGood,
         NEW grant, NEW slow, NEW late, Moves(grant, slow, late),
         ~squash(sq_rob_valid)
  PROVE  RobPath'
<1>1. /\ rob_counter \in Nat /\ Left \in Nat
      /\ \A t \in RobIdx : Age(t) \in Nat
      /\ Enters_1(grant) => /\ Enters_0(grant)
                            /\ id_packet_out_1.valid
      /\ Enters_0(grant) => id_packet_out_0.valid
  BY EntriesAre, LeavesAre, AgeIs, EntersAre DEF Typed
<1>2. RobPath
  BY DEF PathGood
<1>3. ASSUME NEW t \in Live', Age(t)' = 0
      PROVE  rob_entries'[t].PC = commit_PC'
  <2>1. CASE t \in Live /\ ~Leaves(t) /\ Age(t)' = Age(t) - Left
    <3>1. t \in RobIdx /\ Age(t) = Left
      BY <1>1, <1>3, <2>1 DEF Live
    <3>2. rob_entries[t].PC = commit_PC'
      BY <1>2, <2>1, <3>1, CommitPath
    <3>. QED  BY <2>1, <3>1, <3>2, LeadsMove
  <2>2. CASE Enters_0(grant) /\ t = rob_tail /\ Age(t)' = rob_counter - Left
    <3>1. rob_counter = Left /\ t \in RobIdx
      BY <1>1, <1>3, <2>2, NextLive
    <3>2. id_packet_out_0.PC = commit_PC'
      BY <1>2, <2>2, <3>1, CommitPath, EntersOnPath
    <3>. QED  BY <2>2, <3>1, <3>2, LeadsMove
  <2>3. CASE Enters_1(grant) /\ t = rob_tail_plus_1
             /\ Age(t)' = rob_counter - Left + 1
    <3>1. rob_counter >= Left
      BY LeavesAre
    <3>. QED  BY <1>1, <1>3, <2>3, <3>1
  <2>. QED  BY <2>1, <2>2, <2>3, NextLive
<1>4. ASSUME NEW t \in Live', NEW u \in Live', Age(u)' = Age(t)' + 1,
             NEW pc, pc = rob_entries'[u].PC
      PROVE  Leads(t, pc)'
  <2>1. t \in RobIdx /\ u \in RobIdx
    BY NextLive
  <2>4. /\ \/ t \in Live /\ ~Leaves(t) /\ Age(t)' = Age(t) - Left
              /\ Age(t) < rob_counter
           \/ Enters_0(grant) /\ t = rob_tail /\ Age(t)' = rob_counter - Left
           \/ Enters_1(grant) /\ t = rob_tail_plus_1
              /\ Age(t)' = rob_counter - Left + 1
        /\ \/ u \in Live /\ ~Leaves(u) /\ Age(u)' = Age(u) - Left
              /\ Age(u) < rob_counter
           \/ Enters_0(grant) /\ u = rob_tail /\ Age(u)' = rob_counter - Left
           \/ Enters_1(grant) /\ u = rob_tail_plus_1
              /\ Age(u)' = rob_counter - Left + 1
    BY NextLive
  <2>5. \/ /\ t \in Live /\ ~Leaves(t) /\ u \in Live /\ ~Leaves(u)
           /\ Age(u) = Age(t) + 1
        \/ /\ t \in Live /\ ~Leaves(t) /\ Age(t) = rob_counter - 1
           /\ Enters_0(grant) /\ u = rob_tail
        \/ /\ Enters_0(grant) /\ t = rob_tail
           /\ Enters_1(grant) /\ u = rob_tail_plus_1
    BY <1>1, <1>4, <2>1, <2>4
  <2>6. CASE /\ t \in Live /\ ~Leaves(t) /\ u \in Live /\ ~Leaves(u)
             /\ Age(u) = Age(t) + 1
    <3>1. Leads(t, pc)' <=> Leads(t, pc)
      BY <2>1, <2>6, LeadsMove
    <3>2. pc = rob_entries[u].PC
      BY <2>1, <1>4, <2>6, LeadsMove
    <3>. QED  BY <1>2, <2>6, <3>1, <3>2 DEF RobPath
  <2>7. CASE /\ t \in Live /\ ~Leaves(t) /\ Age(t) = rob_counter - 1
             /\ Enters_0(grant) /\ u = rob_tail
    <3>1. Leads(t, pc)' <=> Leads(t, pc)
      BY <2>1, <2>7, LeadsMove
    <3>2. pc = id_packet_out_0.PC
      BY <2>1, <1>4, <2>7, LeadsMove
    <3>3. GoesOn(id_packet_out_0.PC)
      BY <2>7, EntersOnPath
    <3>. QED  BY <2>7, <3>1, <3>2, <3>3 DEF GoesOn
  <2>8. CASE /\ Enters_0(grant) /\ t = rob_tail
             /\ Enters_1(grant) /\ u = rob_tail_plus_1
    <3>1. Leads(t, pc)' <=> \/ Ends(id_packet_out_0.inst)
                            \/ pc = id_packet_out_0.NPC_out
      BY <2>1, <2>8, LeadsMove
    <3>2. pc = id_packet_out_1.PC
      BY <2>1, <1>4, <2>8, LeadsMove
    <3>. QED  BY <1>1, <2>8, <3>1, <3>2, PairLeads
  <2>. QED  BY <2>5, <2>6, <2>7, <2>8
<1>5. \A t, u \in Live' : Age(u)' = Age(t)' + 1 =>
        Leads(t, rob_entries[u].PC)'
  BY <1>4 DEF Leads, Word
<1>. QED  BY <1>3, <1>5 DEF RobPath, Age

\* A resolved misprediction stays until it squashes.
LEMMA StuckStays ==
  ASSUME Typed, Loads, UnitsWork, NEW grant, NEW slow, NEW late,
         Moves(grant, slow, late), ~squash(sq_rob_valid), Stuck
  PROVE  Stuck'
<1>1. PICK t \in Live : Resolved(t)
  BY DEF Stuck
<1>2. t \in RobIdx /\ grant \in Grants(Requests)
  BY DEF Live, Moves
<1>3. ~Leaves(t)
  <2>1. rob_entries[t].mis_pred
    BY <1>1 DEF Resolved
  <2>. QED
    BY <2>1 DEF Leaves, Retired, squash, squash_0, squash_1, Diverted,
                HeadEntry, SecondEntry, retire_valid_1
<1>4. ~Finishes(grant, t)
  BY <1>1, <1>2, FinishesIs DEF Resolved
<1>5. rob_entries'[t] = rob_entries[t] /\ t \in Live'
  BY <1>2, <1>3, <1>4, EntryMoves, UpdatedIs
<1>. QED  BY <1>1, <1>5 DEF Stuck, Resolved

\* The program goes on where it did when nothing enters ...
LEMMA GoesOnMoves ==
  ASSUME Typed, FrontGood, EntriesGood, RobPath,
         NEW grant, NEW slow, NEW late, Moves(grant, slow, late),
         ~squash(sq_rob_valid), NEW pc, GoesOn(pc), ~Enters_0(grant)
  PROVE  GoesOn(pc)'
<1>1. /\ rob_counter \in Nat /\ Left \in Nat
      /\ \A t \in RobIdx : Age(t) \in Nat
      /\ ~Enters_1(grant)
  BY EntriesAre, LeavesAre, AgeIs, EntersAre DEF Typed
<1>2. rob_counter' = rob_counter - Left
  BY <1>1, RobMoveIs DEF RobCount
<1>3. rob_counter' = 0 => pc = commit_PC'
  BY <1>1, <1>2, CommitPath
<1>4. ASSUME NEW t \in Live', Age(t)' = rob_counter' - 1
      PROVE  Leads(t, pc)'
  <2>1. /\ t \in RobIdx /\ t \in Live /\ ~Leaves(t)
        /\ Age(t)' = Age(t) - Left
    BY <1>1, NextLive
  <2>2. Age(t) = rob_counter - 1
    BY <1>1, <1>2, <1>4, <2>1
  <2>. QED  BY <2>1, <2>2, LeadsMove DEF GoesOn
<1>. QED  BY <1>3, <1>4 DEF GoesOn

\* ... and behind the last packet that enters.
LEMMA GoesOnBehind ==
  ASSUME Typed, FrontGood, NEW grant, NEW slow, NEW late,
         Moves(grant, slow, late), ~squash(sq_rob_valid), NEW pc,
         \/ /\ Enters_1(grant)
            /\ Ends(id_packet_out_1.inst) \/ pc = id_packet_out_1.NPC_out
         \/ /\ Enters_0(grant) /\ ~Enters_1(grant)
            /\ Ends(id_packet_out_0.inst) \/ pc = id_packet_out_0.NPC_out
  PROVE  GoesOn(pc)'
<1>1. /\ rob_counter \in Nat /\ Left \in Nat /\ Left <= rob_counter
      /\ \A t \in RobIdx : Age(t) \in Nat
      /\ Enters_1(grant) => Enters_0(grant)
  BY EntriesAre, LeavesAre, AgeIs, EntersAre DEF Typed
<1>2. rob_counter' = rob_counter - Left
                       + (IF Enters_1(grant) THEN 2 ELSE 1)
  BY <1>1, RobMoveIs DEF RobCount
<1>3. ASSUME NEW t \in Live', Age(t)' = rob_counter' - 1
      PROVE  Leads(t, pc)'
  <2>1. \/ t \in Live /\ ~Leaves(t) /\ Age(t)' = Age(t) - Left
           /\ Age(t) < rob_counter
        \/ Enters_0(grant) /\ t = rob_tail /\ Age(t)' = rob_counter - Left
        \/ Enters_1(grant) /\ t = rob_tail_plus_1
           /\ Age(t)' = rob_counter - Left + 1
    BY NextLive
  <2>2. t \in RobIdx
    BY NextLive
  <2>3. \/ Enters_1(grant) /\ t = rob_tail_plus_1
        \/ Enters_0(grant) /\ ~Enters_1(grant) /\ t = rob_tail
    BY <1>1, <1>2, <1>3, <2>1, <2>2
  <2>. QED  BY <2>2, <2>3, LeadsMove
<1>. QED  BY <1>1, <1>2, <1>3 DEF GoesOn

\* A pair that was fetched from the right place leads on to the right place.
LEMMA FetchLeads ==
  ASSUME ~Phantoms, ~DeadEnds, NEW pc \in Pc, NEW p0, NEW p1,
         Fetched(pc, p0, p1), ~squash(sq_rob_valid),
         FrontStep(squash(sq_rob_valid), squash_target(sq_rob_valid), pc,
                   p0, p1)
  PROVE  /\ ~just_squash' /\ id_packet_out_0'.PC = pc
         /\ id_packet_out_0' = p0 /\ id_packet_out_1' = p1
         /\ ~p0.valid => PC_reg' = PC_reg
         /\ p1.valid => PC_reg' = p1.NPC_out
         /\ p0.valid /\ ~p1.valid => PC_reg' = p0.NPC_out \/ Ends(p0.inst)
<1>1. /\ PC_reg' = IF PC_enable(pc, p0, p1) THEN next_PC(pc, p0, p1)
                   ELSE PC_reg
      /\ just_squash' = FALSE
      /\ id_packet_out_0' = p0 /\ id_packet_out_1' = p1 /\ p0.PC = pc
  BY DEF FrontStep, Fetched
<1>2. ~p0.valid => PC_reg' = PC_reg
  BY <1>1 DEF PC_enable
<1>3. p1.valid => PC_reg' = p1.NPC_out
  BY <1>1 DEF PC_enable, next_PC, Fetched
<1>4. ASSUME p0.valid, ~p1.valid
      PROVE  PC_reg' = p0.NPC_out \/ Ends(p0.inst)
  <2>1. CASE Upper(pc) \/ p0.take_branch
    BY <1>1, <1>4, <2>1 DEF PC_enable, next_PC
  <2>2. CASE ~Upper(pc) /\ ~p0.take_branch
    <3>1. /\ isIllegal(Fetch(program, NPC(pc)))
          /\ p0.inst = Fetch(program, pc) /\ valid_inst(p0.inst)
      BY <1>4, <2>2 DEF Fetched, FromText
    <3>. QED  BY <2>2, <3>1 DEF DeadEnds
  <2>. QED  BY <2>1, <2>2
<1>. QED  BY <1>1, <1>2, <1>3, <1>4

\* A refused packet is in the cache when it is fetched again.
LEMMA RefetchHits ==
  ASSUME Typed, ~Stuck, NEW pc \in Pc, NEW p0, NEW p1, Fetched(pc, p0, p1),
         id_packet_out_0.valid \/ id_packet_out_1.valid,
         pc \div 2 = id_packet_out_0.PC \div 2,
         valid_inst(Fetch(program, pc))
  PROVE  p0.valid
<1>1. ~early_branch_valid
  BY EarlyIs DEF Typed
<1>. QED  BY <1>1 DEF MayMiss, Fetched

\* Both instructions of a pair lie in one line.
LEMMA PairInLine ==
  ASSUME NEW pc \in Pc, ~Upper(pc)  PROVE NPC(pc) \div 2 = pc \div 2
<1>1. PICK h \in Nat : BYTE = 2 * h /\ h > 0
  <2>1. BYTE \div 2 \in Nat /\ BYTE = 2 * (BYTE \div 2) + (BYTE % 2)
    BY IsaAssumption
  <2>. QED  BY <2>1, IsaAssumption
<1>2. h * BYTE \in Nat /\ WORD = 2 * (h * BYTE)
  BY <1>1, IsaAssumption
<1>3. pc \in 0 .. WORD - 1 /\ pc % 2 = 0
  BY WordIs DEF Pc, Upper, Value
<1>4. pc + 1 < WORD
  BY <1>2, <1>3
<1>5. NPC(pc) = pc + 1
  BY <1>3, <1>4, WordIs DEF NPC
<1>. QED  BY <1>3, <1>5

LEMMA FrontPathMoves ==
  ASSUME Typed, FrontGood, Loads, ~Phantoms, ~DeadEnds, UnitsWork, EntriesGood,
         PathGood, NEW grant, NEW slow, NEW late, Moves(grant, slow, late),
         ~squash(sq_rob_valid), ~Stuck'
  PROVE  FrontPath'
<1> DEFINE d == Dispatch(Taken(grant))
<1>1. PICK pc, q0, q1 :
        /\ pc \in Pc /\ pc = working_PC_reg(d.en0, d.en1)
        /\ Fetched(pc, q0, q1)
        /\ FrontStep(squash(sq_rob_valid), squash_target(sq_rob_valid), pc,
                     q0, q1)
  BY FrontMoves
<1>2. ~Stuck /\ FrontPath /\ RobPath
  BY StuckStays DEF PathGood
<1>3. /\ ~just_squash' /\ id_packet_out_0'.PC = pc
      /\ id_packet_out_0' = q0 /\ id_packet_out_1' = q1
      /\ ~q0.valid => PC_reg' = PC_reg
      /\ q1.valid => PC_reg' = q1.NPC_out
      /\ q0.valid /\ ~q1.valid => PC_reg' = q0.NPC_out \/ Ends(q0.inst)
  BY <1>1, FetchLeads
<1>4. SUFFICES GoesOn(pc)' /\ (~q0.valid => PC_reg = pc)
  BY <1>3 DEF FrontPath, GoesOn, Leads, Word
<1>5. /\ d.en0 \in BOOLEAN /\ d.en1 \in BOOLEAN /\ d.en1 => d.en0
      /\ Enters_0(grant) <=> /\ d.en0 /\ id_packet_out_0.valid
                             /\ ~isIllegal(id_packet_out_0.inst)
      /\ Enters_1(grant) <=> /\ Enters_0(grant) /\ d.en1
                             /\ id_packet_out_1.valid
                             /\ ~isIllegal(id_packet_out_1.inst)
  BY DispatchIs, EntersAre
<1> HIDE DEF d
<1>6. /\ id_packet_out_0.valid =>
           /\ id_packet_out_0.inst = Fetch(program, id_packet_out_0.PC)
           /\ valid_inst(id_packet_out_0.inst)
           /\ ~isIllegal(id_packet_out_0.inst)
      /\ id_packet_out_1.valid =>
           /\ id_packet_out_1.inst = Fetch(program, id_packet_out_1.PC)
           /\ valid_inst(id_packet_out_1.inst)
           /\ ~isIllegal(id_packet_out_1.inst)
           /\ id_packet_out_0.valid /\ ~Upper(id_packet_out_0.PC)
           /\ id_packet_out_1.PC = NPC(id_packet_out_0.PC)
      /\ id_packet_out_0.PC \in Pc
  BY DEF FrontGood, PairOffered, FromText, valid_inst, Typed, FrontTyped,
         Packet
<1>7. CASE just_squash
  <2>1. /\ rob_counter = 0 /\ pc = PC_reg /\ pc = commit_PC
        /\ ~id_packet_out_0.valid /\ ~id_packet_out_1.valid
    BY <1>1, <1>2, <1>7 DEF FrontPath, working_PC_reg
  <2>2. GoesOn(pc)
    BY <2>1, AgeIs DEF GoesOn, Typed, Live
  <2>. QED  BY <1>2, <1>5, <2>1, <2>2, GoesOnMoves
<1>8. CASE ~just_squash /\ ~d.en0
  <2>1. pc = id_packet_out_0.PC /\ GoesOn(pc) /\ ~Enters_0(grant)
    BY <1>1, <1>2, <1>5, <1>8 DEF FrontPath, working_PC_reg
  <2>2. GoesOn(pc)'
    BY <1>2, <2>1, GoesOnMoves
  <2>3. id_packet_out_0.valid => q0.valid
    BY <1>1, <1>2, <1>6, <2>1, RefetchHits
  <2>. QED  BY <1>2, <1>8, <2>1, <2>2, <2>3 DEF FrontPath
<1>9. CASE ~just_squash /\ d.en0 /\ ~d.en1 /\ id_packet_out_1.valid
  <2>1. pc = id_packet_out_1.PC /\ Enters_0(grant) /\ ~Enters_1(grant)
    BY <1>1, <1>5, <1>6, <1>9 DEF working_PC_reg
  <2>2. GoesOn(pc)'
    BY <1>6, <1>9, <2>1, PairLeads, GoesOnBehind
  <2>3. pc \div 2 = id_packet_out_0.PC \div 2
    BY <1>6, <1>9, <2>1, PairInLine
  <2>4. q0.valid
    BY <1>1, <1>2, <1>6, <1>9, <2>1, <2>3, RefetchHits
  <2>. QED  BY <2>2, <2>4
<1>10. CASE ~just_squash /\ d.en0 /\ (d.en1 \/ ~id_packet_out_1.valid)
  <2>1. pc = PC_reg
    BY <1>1, <1>10 DEF working_PC_reg
  <2>2. CASE ~id_packet_out_0.valid
    <3>1. GoesOn(pc) /\ ~Enters_0(grant)
      BY <1>2, <1>5, <1>10, <2>1, <2>2 DEF FrontPath
    <3>. QED  BY <1>2, <2>1, <3>1, GoesOnMoves
  <2>3. CASE id_packet_out_0.valid /\ ~id_packet_out_1.valid
    <3>1. /\ Enters_0(grant) /\ ~Enters_1(grant)
          /\ Ends(id_packet_out_0.inst) \/ pc = id_packet_out_0.NPC_out
      BY <1>2, <1>5, <1>6, <1>10, <2>1, <2>3 DEF FrontPath
    <3>. QED  BY <2>1, <3>1, GoesOnBehind
  <2>4. CASE id_packet_out_1.valid
    <3>1. Enters_1(grant) /\ pc = id_packet_out_1.NPC_out
      BY <1>2, <1>5, <1>6, <1>10, <2>1, <2>4 DEF FrontPath
    <3>. QED  BY <2>1, <3>1, GoesOnBehind
  <2>. QED  BY <2>2, <2>3, <2>4
<1>. QED  BY <1>5, <1>7, <1>8, <1>9, <1>10

LEMMA PathMoves ==
  ASSUME Typed, FrontGood, Loads, ~Phantoms, ~DeadEnds, UnitsWork, EntriesGood,
         PathGood, NEW grant, NEW slow, NEW late, Moves(grant, slow, late)
  PROVE  PathGood'
<1>1. CASE squash(sq_rob_valid)
  <2>1. /\ \A t \in RobIdx : ~rob_entries'[t].valid
        /\ rob_counter' = 0
    BY <1>1, RobStepIs DEF RobStep, RobReset, EmptyEntry
  <2>2. Live' = {}
    BY <2>1 DEF Live
  <2>3. PICK pc, p0, p1 :
          FrontStep(squash(sq_rob_valid), squash_target(sq_rob_valid), pc,
                    p0, p1)
    BY FrontMoves
  <2>4. /\ PC_reg' = squash_target(sq_rob_valid) /\ just_squash'
        /\ ~id_packet_out_0'.valid /\ ~id_packet_out_1'.valid
    BY <1>1, <2>3, NoPacketIs DEF FrontStep
  <2>5. commit_PC' = squash_target(sq_rob_valid)
    BY <1>1, CommitIs
       DEF squash, squash_0, squash_1, squash_target, Leaves_0, Leaves_1,
           retire_valid_1
  <2>. QED
    BY <2>1, <2>2, <2>4, <2>5 DEF PathGood, RobPath, FrontPath
<1>2. CASE ~squash(sq_rob_valid)
  BY <1>2, RobPathMoves, FrontPathMoves DEF PathGood
<1>. QED  BY <1>1, <1>2

-----------------------------------------------------------------------------
(* The ring of stores in the core.                                         *)

\* The slot that lies r behind slot h.
At(h, r) == IF h + r < STORE_QUEUE_SIZE THEN h + r
            ELSE h + r - STORE_QUEUE_SIZE

LEMMA WrapIs ==
  ASSUME NEW x \in Nat, x < 2 * STORE_QUEUE_SIZE
  PROVE  x % STORE_QUEUE_SIZE = IF x < STORE_QUEUE_SIZE THEN x
                                ELSE x - STORE_QUEUE_SIZE
BY CoreAssumption

LEMMA AtIs ==
  ASSUME NEW h \in SqIdx, NEW r \in 0 .. STORE_QUEUE_SIZE - 1
  PROVE  /\ (h + r) % STORE_QUEUE_SIZE = At(h, r)
         /\ At(h, r) \in SqIdx
         /\ At(h, 0) = h
         /\ r # 0 => At(h, r) # h
         /\ r # 0 => At(SqSucc(h), r - 1) = At(h, r)
         /\ r + 1 < STORE_QUEUE_SIZE => At(h, r + 1) = SqSucc(At(h, r))
         /\ SqSucc(h) \in SqIdx
<1>1. STORE_QUEUE_SIZE \in Nat /\ STORE_QUEUE_SIZE >= 2
  BY CoreAssumption
<1>2. (h + r) % STORE_QUEUE_SIZE = At(h, r)
  <2>1. /\ h \in Nat /\ r \in Nat
        /\ h + r \in Nat /\ h + r < 2 * STORE_QUEUE_SIZE
    BY <1>1 DEF SqIdx
  <2>. QED  BY <1>1, <2>1, WrapIs DEF At
<1>. QED  BY <1>1, <1>2 DEF At, SqIdx, SqSucc

LEMMA AtInjective ==
  ASSUME NEW h \in SqIdx, NEW r \in 0 .. STORE_QUEUE_SIZE - 1,
         NEW s \in 0 .. STORE_QUEUE_SIZE - 1, At(h, r) = At(h, s)
  PROVE  r = s
BY CoreAssumption DEF At, SqIdx

\* The stores that the cache has not taken yet, by how far they are behind
\* the head of the buffer, and how many of them are older than an entry.
HeldStores == {t \in StoresInRob : ~(sq_rob_valid /\ t = rob_head)}
HeldAges == {Age(t) : t \in HeldStores}
Rank(t) == CountBelow(HeldAges, Age(t))
Slot(t) == At(sq_head, Rank(t))

StoresQueued ==
  /\ sq_rob_valid => HeadEntry.ready /\ HeadEntry.store
  /\ sq_counter = Cardinality(HeldAges) /\ sq_counter < STORE_QUEUE_SIZE
  /\ sq_tail = At(sq_head, sq_counter)
  /\ \A f \in busy :
       wr_mem(working[f].inst) =>
         working[f].storeq_pos = Slot(rs_entries[f].T_dest)
  /\ \A t \in HeldStores :
       rob_entries[t].ready => sq_entries[Slot(t)].filled
  /\ \A j \in SqIdx :
       sq_entries[j].filled => \E t \in HeldStores : Slot(t) = j

LEMMA HeldIs ==
  ASSUME Typed
  PROVE  /\ HeldStores \in SUBSET Live /\ Live \in SUBSET RobIdx
         /\ HeldAges \in SUBSET (0 .. ROB_SIZE - 1)
         /\ HeldAges \in SUBSET Int /\ IsFiniteSet(HeldAges)
         /\ Cardinality(HeldAges) \in Nat
         /\ \A t \in RobIdx : Age(t) \in HeldAges <=> t \in HeldStores
<1>1. HeldStores \in SUBSET Live /\ Live \in SUBSET RobIdx
  BY DEF HeldStores, StoresInRob, Live
<1>2. /\ \A t \in RobIdx : Age(t) \in 0 .. ROB_SIZE - 1
      /\ \A t, u \in RobIdx : Age(t) = Age(u) => t = u
  BY AgeIs DEF Typed
<1>3. HeldAges \in SUBSET (0 .. ROB_SIZE - 1)
  BY <1>1, <1>2 DEF HeldAges
<1>4. IsFiniteSet(0 .. ROB_SIZE - 1)
  BY CoreAssumption, FS_Interval
<1>5. IsFiniteSet(HeldAges)
  BY <1>3, <1>4, FS_Subset
<1>6. \A t \in RobIdx : Age(t) \in HeldAges <=> t \in HeldStores
  BY <1>1, <1>2 DEF HeldAges
<1>7. HeldAges \in SUBSET Int
  BY <1>3
<1>. QED  BY <1>1, <1>3, <1>5, <1>6, <1>7, FS_CardinalityType

LEMMA RankIs ==
  ASSUME Typed, StoresQueued, NEW t \in RobIdx
  PROVE  /\ Rank(t) \in 0 .. sq_counter /\ sq_counter \in Nat
         /\ Rank(t) \in 0 .. STORE_QUEUE_SIZE - 1
         /\ sq_counter \in 0 .. STORE_QUEUE_SIZE - 1
         /\ t \in HeldStores => Rank(t) < sq_counter
         /\ Slot(t) \in SqIdx
<1>1. Age(t) \in Int
  BY AgeIs DEF Typed
<1>2. /\ HeldAges \in SUBSET Int /\ IsFiniteSet(HeldAges)
      /\ Age(t) \in HeldAges <=> t \in HeldStores
      /\ Cardinality(HeldAges) \in Nat
  BY HeldIs
<1>3. Rank(t) \in Nat /\ Rank(t) <= Cardinality(HeldAges)
  BY <1>1, <1>2, CountBelowType DEF Rank
<1>4. t \in HeldStores => Rank(t) < Cardinality(HeldAges)
  BY <1>2, CountBelowElement DEF Rank
<1>5. sq_counter = Cardinality(HeldAges) /\ sq_counter < STORE_QUEUE_SIZE
  BY DEF StoresQueued
<1>6. /\ Rank(t) \in 0 .. STORE_QUEUE_SIZE - 1
      /\ sq_counter \in 0 .. STORE_QUEUE_SIZE - 1
  BY <1>2, <1>3, <1>5, CoreAssumption
<1>7. Slot(t) \in SqIdx
  BY <1>6, AtIs DEF Slot, Typed, LsqTyped
<1>. QED  BY <1>2, <1>3, <1>4, <1>5, <1>6, <1>7

\* Two stores have two slots.
LEMMA SlotsDiffer ==
  ASSUME Typed, StoresQueued, NEW t \in HeldStores, NEW u \in HeldStores,
         Slot(t) = Slot(u)
  PROVE  t = u
<1>1. t \in RobIdx /\ u \in RobIdx /\ Age(t) \in HeldAges /\ Age(u) \in HeldAges
  BY HeldIs
<1>2. sq_head \in SqIdx
  BY DEF Typed, LsqTyped
<1>3. Rank(t) \in 0 .. STORE_QUEUE_SIZE - 1 /\ Rank(u) \in 0 .. STORE_QUEUE_SIZE - 1
  BY <1>1, RankIs
<1>4. Rank(t) = Rank(u)
  BY <1>2, <1>3, AtInjective DEF Slot
<1>5. HeldAges \in SUBSET Int /\ IsFiniteSet(HeldAges)
  BY HeldIs
<1>6. Age(t) = Age(u)
  BY <1>1, <1>4, <1>5, CountBelowInjective DEF Rank
<1>. QED  BY <1>1, <1>6, AgeIs DEF Typed

LEMMA HeadLives ==
  ASSUME Typed, HeadEntry.ready
  PROVE  rob_head \in Live /\ rob_counter # 0 /\ Age(rob_head) = 0
<1>1. rob_head \in RobIdx /\ ~EmptyEntry.ready
  BY EntriesAre DEF EmptyEntry, Typed
<1>2. InWindow(rob_head)
  BY <1>1 DEF Typed, RobInv, DeadSlotsClear, HeadEntry
<1>3. rob_head \in Live
  BY <1>1, <1>2 DEF Typed, RobInv, WindowAgrees, Live
<1>4. Age(rob_head) = 0 /\ Age(rob_head) < rob_counter
  BY <1>1, <1>3, AgeIs DEF Typed
<1>. QED  BY <1>3, <1>4

\* A store that the cache takes is the head of both rings, and nothing
\* leaves the buffer in that cycle.
LEMMA TakenStoreIs ==
  ASSUME Typed, StoresQueued, NEW late
  PROVE  /\ StoreTaken(late) \in BOOLEAN
         /\ StoreTaken(late) =>
              /\ ~sq_rob_valid /\ ~squash(sq_rob_valid)
              /\ rob_head \in HeldStores /\ Age(rob_head) = 0
              /\ Rank(rob_head) = 0 /\ Slot(rob_head) = sq_head
              /\ sq_counter > 0 /\ Left = 0
         /\ sq_rob_valid => Leaves_0 /\ HeadEntry.store
         /\ \A t \in RobIdx : Leaves(t) => t \notin HeldStores
<1>1. StoreTaken(late) \in BOOLEAN
  BY DEF StoreTaken
<1>2. ASSUME StoreTaken(late)
      PROVE  /\ ~sq_rob_valid /\ ~squash(sq_rob_valid)
             /\ rob_head \in HeldStores /\ Age(rob_head) = 0
             /\ Rank(rob_head) = 0 /\ Slot(rob_head) = sq_head
             /\ sq_counter > 0 /\ Left = 0
  <2>1. ~sq_rob_valid /\ HeadEntry.ready /\ HeadEntry.store
    BY <1>2 DEF StoreTaken, lsq_store_dc, sq_retire
  <2>2. ~Leaves_0 /\ ~Leaves_1 /\ ~squash(sq_rob_valid)
    BY <2>1
       DEF Leaves_0, Leaves_1, retire_valid_0, retire_valid_1, squash,
           squash_0, squash_1
  <2>3. Left = 0
    BY <2>2 DEF Left, RobCount
  <2>4. rob_head \in Live /\ Age(rob_head) = 0 /\ rob_head \in RobIdx
    BY <2>1, HeadLives, HeldIs
  <2>5. rob_head \in HeldStores
    BY <2>1, <2>4 DEF HeldStores, StoresInRob, HeadEntry
  <2>6. HeldAges \in SUBSET (0 .. ROB_SIZE - 1)
    BY HeldIs
  <2>7. {m \in HeldAges : m < 0} = {}
    <3>1. \A m \in HeldAges : m \in 0 .. ROB_SIZE - 1
      BY <2>6
    <3>2. \A m \in HeldAges : ~(m < 0)
      BY <3>1, CoreAssumption
    <3>. QED  BY <3>2
  <2>8. Rank(rob_head) = 0
    BY <2>4, <2>7, FS_EmptySet DEF Rank, CountBelow
  <2>9. Slot(rob_head) = sq_head
    BY <2>8, AtIs, CoreAssumption DEF Slot, Typed, LsqTyped
  <2>10. sq_counter > 0
    BY <2>4, <2>5, <2>8, RankIs
  <2>. QED  BY <2>1, <2>2, <2>3, <2>4, <2>5, <2>8, <2>9, <2>10
<1>3. ASSUME sq_rob_valid  PROVE Leaves_0 /\ HeadEntry.store
  <2>1. HeadEntry.ready /\ HeadEntry.store
    BY <1>3 DEF StoresQueued
  <2>. QED  BY <1>3, <2>1, HeadLives DEF Leaves_0, retire_valid_0, rob_empty
<1>4. ASSUME NEW t \in RobIdx, Leaves(t)  PROVE t \notin HeldStores
  <2>1. \/ Leaves_0 /\ t = rob_head
        \/ Leaves_1 /\ t = rob_head_plus_1
    BY <1>4 DEF Leaves, Retired, Leaves_0, Leaves_1
  <2>2. Leaves_0 /\ HeadEntry.store => sq_rob_valid
    BY DEF Leaves_0, retire_valid_0
  <2>3. Leaves_1 => ~SecondEntry.store
    BY DEF Leaves_1, retire_valid_1
  <2>. QED  BY <2>1, <2>2, <2>3 DEF HeldStores, StoresInRob, HeadEntry, SecondEntry
<1>. QED  BY <1>1, <1>2, <1>3, <1>4

\* A store enters the buffer and the queue together.
StoreEnters(grant) ==
  \/ Enters_0(grant) /\ wr_mem(id_packet_out_0.inst)
  \/ Enters_1(grant) /\ wr_mem(id_packet_out_1.inst)

Disp(grant) == rs_lsq(Taken_0(grant), Taken_1(grant))

LEMMA MemOpIs ==
  ASSUME NEW i
  PROVE  /\ ~(rd_mem(i) /\ wr_mem(i))
         /\ rd_mem(i) \/ wr_mem(i) => /\ fu_type(i) = FU_LS
                                      /\ ~isHalt(i) /\ ~isIllegal(i)
BY DEF rd_mem, wr_mem, fu_type, cond_branch, uncond_branch, mult_op, isHalt,
       isIllegal

LEMMA StoreEntersIs ==
  ASSUME Typed, FrontGood, ~Phantoms, NEW grant
  PROVE  /\ StoreDispatched(Disp(grant)) <=> StoreEnters(grant)
         /\ StoreEnters(grant) => ~storeq_full
         /\ Enters_1(grant) =>
              ~(fu_type(id_packet_out_0.inst) = FU_LS
                /\ fu_type(id_packet_out_1.inst) = FU_LS)
<1>1. /\ Starts_0(grant) <=> Enters_0(grant)
                             /\ ~isHalt(id_packet_out_0.inst)
      /\ Starts_1(grant) <=> Enters_1(grant)
                             /\ ~isHalt(id_packet_out_1.inst)
  BY StartsEnter
<1>2. /\ Taken_0(grant) # {} <=> Starts_0(grant)
      /\ Taken_1(grant) # {} <=> Starts_1(grant)
  BY StartsAre DEF Takes
<1> DEFINE d == Dispatch(Taken(grant))
<1>3. /\ d.en1 => ~BothLs(id_packet_out_0.inst, id_packet_out_1.inst)
      /\ d.en0 /\ wr_mem(id_packet_out_0.inst) => ~storeq_full
      /\ d.en1 /\ wr_mem(id_packet_out_1.inst) => ~storeq_full
  BY DispatchIs
<1>4. /\ Enters_0(grant) => d.en0
      /\ Enters_1(grant) => d.en1
  BY EntersAre
<1> HIDE DEF d
<1>5. StoreDispatched(Disp(grant)) <=>
        IF fu_type(id_packet_out_0.inst) = FU_LS
        THEN Taken_0(grant) # {} /\ wr_mem(id_packet_out_0.inst)
        ELSE Taken_1(grant) # {} /\ wr_mem(id_packet_out_1.inst)
  BY DEF StoreDispatched, Disp, rs_lsq, ToLsq
<1>6. Enters_1(grant) =>
        ~(fu_type(id_packet_out_0.inst) = FU_LS
          /\ fu_type(id_packet_out_1.inst) = FU_LS)
  BY <1>3, <1>4 DEF BothLs
<1>7. /\ wr_mem(id_packet_out_0.inst) => /\ fu_type(id_packet_out_0.inst) = FU_LS
                                         /\ ~isHalt(id_packet_out_0.inst)
      /\ wr_mem(id_packet_out_1.inst) => /\ fu_type(id_packet_out_1.inst) = FU_LS
                                         /\ ~isHalt(id_packet_out_1.inst)
  BY MemOpIs
<1>8. StoreEnters(grant) => ~storeq_full
  BY <1>3, <1>4 DEF StoreEnters
<1>. QED  BY <1>1, <1>2, <1>5, <1>6, <1>7, <1>8 DEF StoreEnters

LEMMA QueueStepIs ==
  ASSUME NEW grant, NEW slow, NEW late, Moves(grant, slow, late),
         ~squash(sq_rob_valid)
  PROVE  /\ LqUpdate(Disp(grant), fu_lsq, sq_retire, Reply(slow))
         /\ SqUpdate(Disp(grant), fu_lsq, StoreTaken(late))
         /\ sq_rob_valid' = StoreTaken(late)
<1>1. LsqStep(squash(sq_rob_valid), Disp(grant), fu_lsq, sq_retire,
              Reply(slow), StoreTaken(late))
  BY StepsAre DEF Disp
<1>. QED  BY <1>1 DEF LsqStep, LqStep, SqStep, SqUpdate

\* An entry that stays is behind those that leave.
Stays(t) == t \in Live /\ ~Leaves(t)

LEMMA HeldMoves ==
  ASSUME Typed, StoresQueued, NEW grant, NEW slow, NEW late,
         Moves(grant, slow, late), ~squash(sq_rob_valid), NEW t \in RobIdx
  PROVE  t \in HeldStores' <=>
           \/ t \in HeldStores /\ ~(StoreTaken(late) /\ t = rob_head)
           \/ /\ Enters_0(grant) /\ t = rob_tail
              /\ wr_mem(id_packet_out_0.inst)
           \/ /\ Enters_1(grant) /\ t = rob_tail_plus_1
              /\ wr_mem(id_packet_out_1.inst)
<1>1. /\ Enters_0(grant) => rob_tail \notin Live
      /\ Enters_1(grant) => rob_tail_plus_1 \notin Live /\ Enters_0(grant)
      /\ rob_tail # rob_tail_plus_1
  BY RoomIs DEF Typed
<1>2. /\ StoreTaken(late) => rob_head \in HeldStores /\ Left = 0
      /\ sq_rob_valid => Leaves_0
      /\ Leaves(t) => t \notin HeldStores
  BY TakenStoreIs
<1>3. HeldStores \in SUBSET Live
  BY HeldIs
<1>4. StoreTaken(late) => rob_head' = rob_head
  BY <1>2, RobMoveIs DEF Left, RobCount, RobAdvance
<1>5. t \in HeldStores' <=> /\ t \in Live' /\ rob_entries'[t].store
                            /\ ~(StoreTaken(late) /\ t = rob_head')
  BY QueueStepIs DEF HeldStores, StoresInRob
<1>6. CASE Enters_0(grant) /\ t = rob_tail
  <2>1. t \in Live' /\ rob_entries'[t].store = wr_mem(id_packet_out_0.inst)
    BY <1>6, EntryMoves, NewEntryIs, PortFields
  <2>. QED  BY <1>1, <1>2, <1>3, <1>4, <1>5, <1>6, <2>1
<1>7. CASE Enters_1(grant) /\ t = rob_tail_plus_1
  <2>1. t \in Live' /\ rob_entries'[t].store = wr_mem(id_packet_out_1.inst)
    BY <1>7, EntryMoves, NewEntryIs, PortFields
  <2>. QED  BY <1>1, <1>2, <1>3, <1>4, <1>5, <1>7, <2>1
<1>8. CASE /\ ~(Enters_0(grant) /\ t = rob_tail)
           /\ ~(Enters_1(grant) /\ t = rob_tail_plus_1)
  <2>1. t \in Live' <=> Stays(t)
    BY <1>8, EntryMoves DEF Stays
  <2>2. Stays(t) => rob_entries'[t].store = rob_entries[t].store
    <3>1. Stays(t) => /\ rob_entries'[t] = Updated(grant, t)
                      /\ grant \in Grants(Requests)
      BY EntryMoves DEF Stays, Moves
    <3>. QED  BY <3>1, UpdatedKeeps DEF SameInst, Stays
  <2>3. Stays(t) => ~(sq_rob_valid /\ t = rob_head)
    BY <1>2 DEF Stays, Leaves, Retired, Leaves_0
  <2>. QED
    BY <1>2, <1>3, <1>4, <1>5, <1>8, <2>1, <2>2, <2>3
       DEF HeldStores, StoresInRob, Stays
<1>. QED  BY <1>6, <1>7, <1>8

\* The ages of the stores that stay held, before and after the cycle, and of
\* the one that enters.
KeptAges(late) == IF StoreTaken(late) THEN HeldAges \ {0} ELSE HeldAges
MovedAges(late) == {a - Left : a \in KeptAges(late)}
NewAge(grant) == rob_counter - Left + (IF wr_mem(id_packet_out_0.inst)
                                         /\ Enters_0(grant) THEN 0 ELSE 1)

LEMMA AgesMove ==
  ASSUME Typed, FrontGood, ~Phantoms, StoresQueued,
         NEW grant, NEW slow, NEW late,
         Moves(grant, slow, late), ~squash(sq_rob_valid)
  PROVE  HeldAges' = IF StoreEnters(grant)
                     THEN MovedAges(late) \cup {NewAge(grant)}
                     ELSE MovedAges(late)
<1>1. /\ rob_tail \in RobIdx /\ rob_tail_plus_1 \in RobIdx
      /\ HeldStores \in SUBSET Live /\ Live \in SUBSET RobIdx
      /\ rob_head \in RobIdx
  BY HeldIs, EntriesAre DEF Typed
<1>2. \A t \in RobIdx : Age(t) \in HeldAges <=> t \in HeldStores
  BY HeldIs
<1>3. \A t \in RobIdx : Stays(t) => Age(t)' = Age(t) - Left
  BY AgeMoves DEF Stays
<1>4. \A t \in HeldStores : Stays(t)
  BY <1>1, TakenStoreIs DEF Stays
<1>5. /\ \A t, u \in RobIdx : Age(t) = Age(u) => t = u
      /\ Age(rob_head) = 0
  BY AgeIs DEF Typed
<1>6. \A t \in RobIdx : t \in HeldStores' <=>
           \/ t \in HeldStores /\ ~(StoreTaken(late) /\ t = rob_head)
           \/ /\ Enters_0(grant) /\ t = rob_tail
              /\ wr_mem(id_packet_out_0.inst)
           \/ /\ Enters_1(grant) /\ t = rob_tail_plus_1
              /\ wr_mem(id_packet_out_1.inst)
  BY HeldMoves
<1>7. \A t \in RobIdx :
        /\ Enters_0(grant) /\ t = rob_tail => Age(t)' = rob_counter - Left
        /\ Enters_1(grant) /\ t = rob_tail_plus_1
             => Age(t)' = rob_counter - Left + 1
  BY AgeMoves
<1>8. ~(/\ Enters_0(grant) /\ wr_mem(id_packet_out_0.inst)
        /\ Enters_1(grant) /\ wr_mem(id_packet_out_1.inst))
  BY StoreEntersIs, MemOpIs
<1>9. rob_counter - Left \in Int
  BY EntriesAre, LeavesAre, CoreAssumption DEF Typed
<1>10. \A t \in HeldStores' : t \in RobIdx
  BY DEF HeldStores, StoresInRob, Live
<1>11. \A t \in HeldStores :
         Age(t) \in KeptAges(late) <=> ~(StoreTaken(late) /\ t = rob_head)
  BY <1>1, <1>2, <1>5 DEF KeptAges
<1>12. ASSUME NEW a \in HeldAges'
       PROVE  \/ a \in MovedAges(late)
              \/ StoreEnters(grant) /\ a = NewAge(grant)
  <2>1. PICK t \in HeldStores' : a = Age(t)'
    BY DEF HeldAges
  <2>2. t \in RobIdx
    BY <1>10
  <2>3. CASE t \in HeldStores /\ ~(StoreTaken(late) /\ t = rob_head)
    <3>1. a = Age(t) - Left /\ Age(t) \in KeptAges(late)
      BY <1>3, <1>4, <1>11, <2>1, <2>2, <2>3
    <3>. QED  BY <3>1 DEF MovedAges
  <2>4. CASE Enters_0(grant) /\ t = rob_tail /\ wr_mem(id_packet_out_0.inst)
    <3>1. a = rob_counter - Left
      BY <1>7, <2>1, <2>2, <2>4
    <3>. QED  BY <1>9, <2>4, <3>1 DEF StoreEnters, NewAge
  <2>5. CASE /\ Enters_1(grant) /\ t = rob_tail_plus_1
             /\ wr_mem(id_packet_out_1.inst)
    <3>1. a = rob_counter - Left + 1
      BY <1>7, <2>1, <2>2, <2>5
    <3>. QED  BY <1>8, <1>9, <2>5, <3>1 DEF StoreEnters, NewAge
  <2>. QED  BY <1>6, <2>2, <2>3, <2>4, <2>5
<1>13. ASSUME NEW a \in MovedAges(late)  PROVE a \in HeldAges'
  <2>1. PICK m \in KeptAges(late) : a = m - Left
    BY DEF MovedAges
  <2>2. PICK t \in HeldStores : m = Age(t)
    BY DEF KeptAges, HeldAges
  <2>3. t \in HeldStores' /\ a = Age(t)'
    BY <1>1, <1>3, <1>4, <1>6, <1>11, <2>1, <2>2
  <2>. QED  BY <2>3 DEF HeldAges
<1>14. ASSUME StoreEnters(grant)  PROVE NewAge(grant) \in HeldAges'
  <2>1. CASE Enters_0(grant) /\ wr_mem(id_packet_out_0.inst)
    <3>1. PICK t \in RobIdx : t = rob_tail
      BY <1>1
    <3>2. t \in HeldStores' /\ Age(t)' = NewAge(grant)
      BY <1>6, <1>7, <1>9, <2>1, <3>1 DEF NewAge
    <3>. QED  BY <3>2 DEF HeldAges
  <2>2. CASE Enters_1(grant) /\ wr_mem(id_packet_out_1.inst)
    <3>1. PICK t \in RobIdx : t = rob_tail_plus_1
      BY <1>1
    <3>2. t \in HeldStores' /\ Age(t)' = NewAge(grant)
      BY <1>6, <1>7, <1>8, <1>9, <2>2, <3>1 DEF NewAge
    <3>. QED  BY <3>2 DEF HeldAges
  <2>. QED  BY <1>14, <2>1, <2>2 DEF StoreEnters
<1>. QED  BY <1>12, <1>13, <1>14

Acked(late) == IF StoreTaken(late) THEN 1 ELSE 0

LEMMA KeptIs ==
  ASSUME Typed, StoresQueued, NEW late
  PROVE  /\ KeptAges(late) \in SUBSET Int /\ IsFiniteSet(KeptAges(late))
         /\ Cardinality(KeptAges(late)) = sq_counter - Acked(late)
         /\ \A k \in Nat : CountBelow(KeptAges(late), k)
              = CountBelow(HeldAges, k)
                - (IF StoreTaken(late) /\ k # 0 THEN 1 ELSE 0)
         /\ \A a \in KeptAges(late) : a \in HeldAges
<1>1. /\ HeldAges \in SUBSET Int /\ IsFiniteSet(HeldAges)
      /\ \A t \in RobIdx : Age(t) \in HeldAges <=> t \in HeldStores
      /\ Cardinality(HeldAges) \in Nat
  BY HeldIs
<1>2. ASSUME NEW k \in Nat  PROVE CountBelow(HeldAges, k) \in Nat
  <2>1. k \in Int
    OBVIOUS
  <2>. QED  BY <1>1, <2>1, CountBelowType
<1>3. sq_counter = Cardinality(HeldAges)
  BY DEF StoresQueued
<1>4. CASE ~StoreTaken(late)
  <2>1. KeptAges(late) = HeldAges /\ Acked(late) = 0
    BY <1>4 DEF KeptAges, Acked
  <2>. QED  BY <1>1, <1>2, <1>3, <1>4, <2>1
<1>5. CASE StoreTaken(late)
  <2>1. KeptAges(late) = HeldAges \ {0} /\ Acked(late) = 1
    BY <1>5 DEF KeptAges, Acked
  <2>2. 0 \in HeldAges
    <3>1. rob_head \in HeldStores /\ Age(rob_head) = 0
      BY <1>5, TakenStoreIs
    <3>. QED  BY <3>1 DEF HeldAges
  <2>3. /\ IsFiniteSet(HeldAges \ {0})
        /\ Cardinality(HeldAges \ {0}) = Cardinality(HeldAges) - 1
    BY <1>1, <2>2, CountBelowRemove
  <2>4. ASSUME NEW k \in Nat
        PROVE  CountBelow(HeldAges \ {0}, k)
                 = CountBelow(HeldAges, k) - (IF k # 0 THEN 1 ELSE 0)
    <3>1. /\ 0 < k => CountBelow(HeldAges \ {0}, k) = CountBelow(HeldAges, k) - 1
          /\ ~(0 < k) => CountBelow(HeldAges \ {0}, k) = CountBelow(HeldAges, k)
      BY <1>1, <2>2, CountBelowRemove
    <3>. QED  BY <1>2, <3>1
  <2>5. HeldAges \ {0} \in SUBSET Int
    BY <1>1
  <2>. QED  BY <1>3, <1>5, <2>1, <2>3, <2>4, <2>5
<1>. QED  BY <1>4, <1>5

LEMMA MovedIs ==
  ASSUME Typed, StoresQueued, NEW late
  PROVE  /\ MovedAges(late) \in SUBSET Int /\ IsFiniteSet(MovedAges(late))
         /\ Cardinality(MovedAges(late)) = sq_counter - Acked(late)
         /\ sq_counter - Acked(late) \in Nat
         /\ \A k \in Int : CountBelow(MovedAges(late), k - Left)
                             = CountBelow(KeptAges(late), k)
         /\ \A a \in MovedAges(late) : a < rob_counter - Left
<1>1. /\ KeptAges(late) \in SUBSET Int /\ IsFiniteSet(KeptAges(late))
      /\ Cardinality(KeptAges(late)) = sq_counter - Acked(late)
      /\ \A a \in KeptAges(late) : a \in HeldAges
  BY KeptIs
<1>2. Left \in Int /\ rob_counter \in Int
  BY LeavesAre, EntriesAre, CoreAssumption DEF Typed
<1>3. ASSUME NEW k \in Int
      PROVE  /\ MovedAges(late) \in SUBSET Int /\ IsFiniteSet(MovedAges(late))
             /\ Cardinality(MovedAges(late)) = Cardinality(KeptAges(late))
             /\ CountBelow(MovedAges(late), k - Left)
                  = CountBelow(KeptAges(late), k)
  <2> DEFINE S == KeptAges(late)
             d == Left
  <2>1. S \in SUBSET Int /\ IsFiniteSet(S) /\ d \in Int
    BY <1>1, <1>2
  <2> HIDE DEF S, d
  <2>2. LET M == {m - d : m \in S}
        IN  /\ M \in SUBSET Int /\ IsFiniteSet(M)
            /\ Cardinality(M) = Cardinality(S)
            /\ CountBelow(M, k - d) = CountBelow(S, k)
    BY <2>1, CountBelowShift
  <2>. QED  BY <2>2 DEF S, d, MovedAges
<1>4. ASSUME NEW a \in MovedAges(late)  PROVE a < rob_counter - Left
  <2>1. PICK m \in KeptAges(late) : a = m - Left
    BY DEF MovedAges
  <2>2. PICK t \in HeldStores : m = Age(t)
    BY <1>1 DEF HeldAges
  <2>3. m < rob_counter /\ m \in Int
    BY <1>1, <2>2, HeldIs, AgeIs DEF Typed
  <2>. QED  BY <1>2, <2>1, <2>3
<1>5. sq_counter - Acked(late) \in Nat
  BY <1>1, FS_CardinalityType
<1>. QED  BY <1>1, <1>3, <1>4, <1>5

LEMMA RanksMove ==
  ASSUME Typed, FrontGood, ~Phantoms, StoresQueued,
         NEW grant, NEW slow, NEW late,
         Moves(grant, slow, late), ~squash(sq_rob_valid), NEW t \in RobIdx
  PROVE  /\ Stays(t) => Rank(t)' = Rank(t)
              - (IF StoreTaken(late) /\ t # rob_head THEN 1 ELSE 0)
         /\ Enters_0(grant) /\ t = rob_tail =>
              Rank(t)' = sq_counter - Acked(late)
         /\ Enters_1(grant) /\ t = rob_tail_plus_1 =>
              Rank(t)' = sq_counter - Acked(late)
                + (IF Enters_0(grant) /\ wr_mem(id_packet_out_0.inst)
                   THEN 1 ELSE 0)
         /\ Cardinality(HeldAges') = sq_counter - Acked(late)
              + (IF StoreEnters(grant) THEN 1 ELSE 0)
<1> DEFINE S == MovedAges(late)
           c == rob_counter - Left
           new == NewAge(grant)
           count == sq_counter - Acked(late)
<1>1. /\ S \in SUBSET Int /\ IsFiniteSet(S) /\ Cardinality(S) = count
      /\ count \in Nat
      /\ \A a \in S : a < c
      /\ \A k \in Int : CountBelow(S, k - Left) = CountBelow(KeptAges(late), k)
  BY MovedIs
<1>2. HeldAges' = IF StoreEnters(grant) THEN S \cup {new} ELSE S
  BY AgesMove
<1>3. /\ Left \in Int /\ c \in Int /\ new \in Int /\ c <= new
      /\ new = IF Enters_0(grant) /\ wr_mem(id_packet_out_0.inst) THEN c
               ELSE c + 1
  BY LeavesAre, EntriesAre, CoreAssumption DEF Typed, NewAge
<1>4. Rank(t)' = CountBelow(HeldAges', Age(t)')
  BY DEF Rank, CountBelow
<1>5. /\ Stays(t) => Age(t)' = Age(t) - Left
      /\ Enters_0(grant) /\ t = rob_tail => Age(t)' = c
      /\ Enters_1(grant) /\ t = rob_tail_plus_1 => Age(t)' = c + 1
  BY AgeMoves DEF Stays
<1>6. /\ \A a \in S : a \in Int /\ a < new
      /\ \A a \in S : a < c + 1
  BY <1>1, <1>3
<1> HIDE DEF S, c, new
<1>7. ASSUME NEW k \in Int, k <= new
      PROVE  CountBelow(HeldAges', k) = CountBelow(S, k)
  BY <1>1, <1>2, <1>3, <1>6, <1>7, CountBelowAdd
<1>8. Cardinality(HeldAges') = count + (IF StoreEnters(grant) THEN 1 ELSE 0)
  <2>1. Cardinality(S \cup {new}) = Cardinality(S) + 1
    BY <1>1, <1>3, <1>6, CountBelowAdd
  <2>. QED  BY <1>1, <1>2, <2>1
<1>9. ASSUME Stays(t)
      PROVE  Rank(t)' = Rank(t)
               - (IF StoreTaken(late) /\ t # rob_head THEN 1 ELSE 0)
  <2>1. /\ Age(t) \in Nat /\ Age(t) < rob_counter
        /\ Age(t) = 0 <=> t = rob_head
    BY <1>9, AgeIs, EntriesAre DEF Typed, Stays
  <2>2. Age(t) - Left < c /\ Age(t) - Left \in Int /\ Age(t) \in Int
    BY <1>3, <2>1, LeavesAre, EntriesAre, CoreAssumption DEF c, Typed
  <2>3. Age(t) - Left <= new
    BY <1>3, <2>2
  <2>4. Rank(t)' = CountBelow(S, Age(t) - Left)
    BY <1>4, <1>5, <1>7, <1>9, <2>2, <2>3
  <2>5. Rank(t)' = CountBelow(KeptAges(late), Age(t))
    BY <1>1, <2>2, <2>4
  <2>. QED  BY <2>1, <2>5, KeptIs DEF Rank
<1>10. ASSUME Enters_0(grant), t = rob_tail  PROVE Rank(t)' = count
  <2>1. Rank(t)' = CountBelow(S, c)
    BY <1>3, <1>4, <1>5, <1>7, <1>10
  <2>. QED  BY <1>1, <1>3, <2>1, CountBelowAll
<1>11. ASSUME Enters_1(grant), t = rob_tail_plus_1
       PROVE  Rank(t)' = count
                + (IF Enters_0(grant) /\ wr_mem(id_packet_out_0.inst)
                   THEN 1 ELSE 0)
  <2>1. Rank(t)' = CountBelow(HeldAges', c + 1)
    BY <1>4, <1>5, <1>11
  <2>2. CASE Enters_0(grant) /\ wr_mem(id_packet_out_0.inst)
    <3>1. HeldAges' = S \cup {new} /\ new = c
      BY <1>2, <1>3, <2>2 DEF StoreEnters
    <3>2. HeldAges' \in SUBSET Int /\ IsFiniteSet(HeldAges')
      BY <1>1, <1>3, <1>6, <3>1, CountBelowAdd
    <3>3. \A a \in HeldAges' : a < c + 1
      BY <1>3, <1>6, <3>1
    <3>4. CountBelow(HeldAges', c + 1) = Cardinality(HeldAges')
      BY <1>3, <3>2, <3>3, CountBelowAll
    <3>. QED  BY <1>8, <2>1, <2>2, <3>4 DEF StoreEnters
  <2>3. CASE ~(Enters_0(grant) /\ wr_mem(id_packet_out_0.inst))
    <3>1. new = c + 1
      BY <1>3, <2>3
    <3>2. CountBelow(HeldAges', c + 1) = CountBelow(S, c + 1)
      BY <1>3, <1>7, <3>1
    <3>3. CountBelow(S, c + 1) = count
      BY <1>1, <1>3, <1>6, CountBelowAll
    <3>. QED  BY <1>1, <2>1, <2>3, <3>2, <3>3
  <2>. QED  BY <2>2, <2>3
<1>. QED  BY <1>8, <1>9, <1>10, <1>11

LEMMA SlotsMove ==
  ASSUME Typed, FrontGood, ~Phantoms, StoresQueued,
         NEW grant, NEW slow, NEW late,
         Moves(grant, slow, late), ~squash(sq_rob_valid), NEW t \in RobIdx
  PROVE  /\ Stays(t) /\ ~(StoreTaken(late) /\ t = rob_head) =>
              Slot(t)' = Slot(t)
         /\ Enters_0(grant) /\ t = rob_tail => Slot(t)' = sq_tail
         /\ Enters_1(grant) /\ t = rob_tail_plus_1
              /\ fu_type(id_packet_out_1.inst) = FU_LS => Slot(t)' = sq_tail
<1> DEFINE ack == StoreTaken(late)
           h == sq_head'
           r == Rank(t)'
<1>1. /\ ack \in BOOLEAN
      /\ ack => sq_counter > 0 /\ rob_head \in HeldStores /\ Rank(rob_head) = 0
  BY TakenStoreIs
<1>2. /\ sq_head \in SqIdx /\ sq_tail = At(sq_head, sq_counter)
      /\ h = IF ack THEN SqSucc(sq_head) ELSE sq_head
  BY QueueStepIs DEF Typed, LsqTyped, StoresQueued, SqUpdate
<1>3. /\ Rank(t) \in 0 .. STORE_QUEUE_SIZE - 1 /\ sq_counter \in Nat
      /\ sq_counter \in 0 .. STORE_QUEUE_SIZE - 1
  BY RankIs
<1>4. Slot(t) = At(sq_head, Rank(t)) /\ Slot(t)' = At(h, r)
  BY DEF Slot, At
<1>5. ASSUME NEW n \in 0 .. STORE_QUEUE_SIZE - 1, ack => n # 0
      PROVE  At(h, n - (IF ack THEN 1 ELSE 0)) = At(sq_head, n)
  <2>1. n # 0 => At(SqSucc(sq_head), n - 1) = At(sq_head, n)
    BY <1>2, AtIs
  <2>. QED  BY <1>1, <1>2, <1>5, <2>1
<1>6. ASSUME Stays(t), ~(ack /\ t = rob_head)  PROVE Slot(t)' = Slot(t)
  <2>1. r = Rank(t) - (IF ack THEN 1 ELSE 0)
    BY <1>6, RanksMove
  <2>2. ack => Rank(t) # 0
    <3>1. SUFFICES ASSUME ack  PROVE Rank(t) > 0
      BY <1>3
    <3>2. /\ Age(rob_head) \in HeldAges /\ Age(rob_head) < Age(t)
          /\ Age(t) \in Int
      BY <1>1, <1>6, <3>1, HeldIs, AgeIs, TakenStoreIs DEF Typed
    <3>3. HeldAges \in SUBSET Int /\ IsFiniteSet(HeldAges)
      BY HeldIs
    <3>4. CountBelow(HeldAges, Age(rob_head)) < CountBelow(HeldAges, Age(t))
      BY <3>2, <3>3, CountBelowGrows
    <3>. QED  BY <1>1, <3>1, <3>4 DEF Rank
  <2>. QED  BY <1>3, <1>4, <1>5, <2>1, <2>2
<1>7. At(h, sq_counter - (IF ack THEN 1 ELSE 0)) = sq_tail
  BY <1>1, <1>2, <1>3, <1>5
<1>8. ASSUME Enters_0(grant), t = rob_tail  PROVE Slot(t)' = sq_tail
  <2>1. r = sq_counter - (IF ack THEN 1 ELSE 0)
    BY <1>8, RanksMove DEF Acked
  <2>. QED  BY <1>4, <1>7, <2>1
<1>9. ASSUME Enters_1(grant), t = rob_tail_plus_1,
             fu_type(id_packet_out_1.inst) = FU_LS
      PROVE  Slot(t)' = sq_tail
  <2>1. ~wr_mem(id_packet_out_0.inst)
    BY <1>9, StoreEntersIs, MemOpIs
  <2>2. r = sq_counter - (IF ack THEN 1 ELSE 0)
    <3>1. r = sq_counter - Acked(late) + 0
      BY <1>9, <2>1, RanksMove
    <3>. QED  BY <1>3, <3>1 DEF Acked
  <2>. QED  BY <1>4, <1>7, <2>2
<1>. QED  BY <1>6, <1>8, <1>9

\* What becomes of a slot.
StoreOf(i) ==
  [addr |-> fu_lsq[i].addr, mem_size |-> fu_lsq[i].mem_size,
   filled |-> TRUE, value |-> fu_lsq[i].value]

LEMMA SlotFills ==
  ASSUME Typed, NEW grant, NEW slow, NEW late,
         Moves(grant, slow, late), ~squash(sq_rob_valid), NEW j \in SqIdx
  PROVE  \/ \E i \in StoreComputed(fu_lsq, j) : sq_entries'[j] = StoreOf(i)
         \/ /\ StoreComputed(fu_lsq, j) = {}
            /\ sq_entries'[j] = IF StoreTaken(late) /\ j = sq_head
                                THEN EmptyStore ELSE sq_entries[j]
<1> DEFINE by == StoreComputed(fu_lsq, j)
           i == CHOOSE x \in by : \A y \in by : y <= x
<1>1. sq_entries'[j]
        = IF by # {} THEN StoreOf(i)
          ELSE IF StoreTaken(late) /\ j = sq_head THEN EmptyStore
          ELSE sq_entries[j]
  BY QueueStepIs DEF SqUpdate, StoreOf
<1>2. by \in SUBSET FU_LS
  BY DEF StoreComputed
<1> HIDE DEF by
<1>3. by # {} => i \in by
  <2>1. by \in SUBSET Int /\ IsFiniteSet(by)
    BY <1>2, SelectionAssumption, CoreAssumption, FS_Subset DEF Fu
  <2>. QED  BY <2>1, GreatestOf
<1> HIDE DEF i
<1>. QED  BY <1>1, <1>3 DEF by

\* A store whose unit works for it waits for its address.
LEMMA StoreWorks ==
  ASSUME Typed, UnitsWork, EntriesGood, StoresQueued, NEW f \in busy,
         wr_mem(working[f].inst)
  PROVE  /\ rs_entries[f].T_dest \in HeldStores
         /\ rs_entries[f].T_dest \in Waiting
         /\ ~Leaves(rs_entries[f].T_dest)
         /\ ~rob_entries[rs_entries[f].T_dest].ready
         /\ f \in FU_LS
<1>1. PICK t \in Waiting : t = rs_entries[f].T_dest
  BY DEF UnitsWork
<1>2. t \in Live /\ t \in RobIdx /\ ~rob_entries[t].ready
  BY DEF Waiting, Live
<1>3. wr_mem(Word(t)) /\ f \in fu_type(working[f].inst)
  BY <1>1 DEF UnitsWork, Word
<1>4. rob_entries[t].store
  BY <1>2, <1>3 DEF EntriesGood, EntryGood, GoodEntry
<1>5. t \in HeldStores
  BY <1>2, <1>4 DEF HeldStores, StoresInRob, StoresQueued, HeadEntry
<1>6. ~Leaves(t)
  BY <1>2, LeavesAre DEF Leaves, Retired, Leaves_0, Leaves_1, HeadEntry, SecondEntry
<1>. QED  BY <1>1, <1>2, <1>3, <1>5, <1>6, MemOpIs

\* A store whose operands are there has its slot filled after the cycle.
LEMMA StoreFills ==
  ASSUME Typed, UnitsWork, EntriesGood, StoresQueued,
         NEW grant, NEW slow, NEW late,
         Moves(grant, slow, late), ~squash(sq_rob_valid),
         NEW f \in busy, wr_mem(working[f].inst), OperandsIn(f),
         NEW t, t = rs_entries[f].T_dest
  PROVE  sq_entries'[Slot(t)].filled
<1> DEFINE j == Slot(t)
<1>1. t \in HeldStores /\ ~rob_entries[t].ready /\ f \in FU_LS
  BY StoreWorks
<1>2. t \in RobIdx /\ j \in SqIdx
  BY <1>1, HeldIs, RankIs
<1>3. working[f].storeq_pos = j
  BY DEF StoresQueued
<1>4. \/ sq_entries[j].filled \/ f \in StoreComputed(fu_lsq, j)
  BY <1>1, <1>3 DEF StoreComputed, fu_lsq
<1>5. ~(StoreTaken(late) /\ j = sq_head)
  <2>1. StoreTaken(late) => /\ rob_head \in HeldStores /\ HeadEntry.ready
                            /\ Slot(rob_head) = sq_head
    BY TakenStoreIs DEF StoreTaken, lsq_store_dc, sq_retire
  <2>. QED  BY <1>1, <2>1, SlotsDiffer DEF HeadEntry
<1> HIDE DEF j
<1>6. \A i : StoreOf(i).filled
  BY DEF StoreOf
<1>7. sq_entries'[j].filled
  <2>1. \/ \E i \in StoreComputed(fu_lsq, j) : sq_entries'[j] = StoreOf(i)
        \/ /\ StoreComputed(fu_lsq, j) = {}
           /\ sq_entries'[j] = IF StoreTaken(late) /\ j = sq_head
                               THEN EmptyStore ELSE sq_entries[j]
    BY <1>2, SlotFills
  <2>. QED  BY <1>4, <1>5, <1>6, <2>1
<1>. QED  BY <1>7 DEF j

LEMMA StoresQueuedMoves ==
  ASSUME Typed, FrontGood, Loads, ~Phantoms, UnitsWork, EntriesGood,
         StoresQueued, NEW grant, NEW slow, NEW late,
         Moves(grant, slow, late), ~squash(sq_rob_valid)
  PROVE  StoresQueued'
<1>1. /\ Typed' /\ grant \in Grants(Requests)
      /\ sq_rob_valid' = StoreTaken(late)
  BY TypedMoves, QueueStepIs DEF Moves
<1>2. /\ StoreTaken(late) \in BOOLEAN
      /\ StoreTaken(late) => /\ sq_counter > 0 /\ rob_head \in HeldStores
                             /\ Slot(rob_head) = sq_head /\ Left = 0
                             /\ HeadEntry.ready
      /\ \A t \in RobIdx : Leaves(t) => t \notin HeldStores
  BY TakenStoreIs DEF StoreTaken, lsq_store_dc, sq_retire
<1>3. /\ HeldStores \in SUBSET Live /\ Live \in SUBSET RobIdx
      /\ rob_head \in RobIdx /\ rob_tail \in RobIdx
      /\ rob_tail_plus_1 \in RobIdx
  BY HeldIs, EntriesAre DEF Typed
<1>4. sq_counter \in 0 .. STORE_QUEUE_SIZE - 1 /\ sq_counter \in Nat
  BY <1>3, RankIs
<1>5. \A t \in HeldStores : Stays(t)
  BY <1>2, <1>3 DEF Stays
<1>6. \A t \in RobIdx : Stays(t) =>
        /\ rob_entries'[t].ready <=> \/ rob_entries[t].ready
                                     \/ Finishes(grant, t)
        /\ rob_entries'[t].store = rob_entries[t].store
  BY <1>1, EntryMoves, UpdatedKeeps DEF Stays, SameInst
<1>7. ASSUME sq_rob_valid'  PROVE HeadEntry'.ready /\ HeadEntry'.store
  <2>1. rob_head' = rob_head
    BY <1>1, <1>2, <1>7, RobMoveIs DEF Left, RobCount, RobAdvance
  <2>2. rob_entries'[rob_head].ready /\ rob_entries'[rob_head].store
    BY <1>1, <1>2, <1>3, <1>5, <1>6, <1>7
       DEF HeadEntry, HeldStores, StoresInRob
  <2>. QED  BY <2>1, <2>2 DEF HeadEntry
<1>8. /\ StoreDispatched(Disp(grant)) <=> StoreEnters(grant)
      /\ StoreEnters(grant) => sq_counter # STORE_QUEUE_SIZE - 1
  BY StoreEntersIs DEF storeq_full
<1>9. /\ sq_head' = IF StoreTaken(late) THEN SqSucc(sq_head) ELSE sq_head
      /\ sq_tail' = IF StoreEnters(grant) THEN SqSucc(sq_tail) ELSE sq_tail
      /\ sq_counter' = sq_counter + (IF StoreEnters(grant) THEN 1 ELSE 0)
                                  - Acked(late)
  BY <1>8, QueueStepIs DEF SqUpdate, Acked
<1>a. /\ Acked(late) \in {0, 1} /\ Acked(late) <= sq_counter
      /\ Acked(late) = 1 <=> StoreTaken(late)
      /\ STORE_QUEUE_SIZE \in Nat /\ STORE_QUEUE_SIZE >= 2
  BY <1>2, <1>4, CoreAssumption DEF Acked
<1>10. sq_counter' = Cardinality(HeldAges') /\ sq_counter' < STORE_QUEUE_SIZE
  <2>1. Cardinality(HeldAges') = sq_counter - Acked(late)
           + (IF StoreEnters(grant) THEN 1 ELSE 0)
    BY <1>3, RanksMove
  <2>. QED  BY <1>4, <1>8, <1>9, <1>a, <2>1
<1>11. sq_tail' = At(sq_head', sq_counter')
  <2>1. sq_head \in SqIdx /\ sq_tail = At(sq_head, sq_counter)
        /\ sq_head' \in SqIdx
    BY <1>1 DEF Typed, LsqTyped, StoresQueued
  <2> DEFINE n == sq_counter - Acked(late)
  <2>2. n \in 0 .. STORE_QUEUE_SIZE - 1
    BY <1>4, <1>a
  <2>3. At(sq_head', n) = sq_tail
    <3>1. sq_counter # 0 =>
            At(SqSucc(sq_head), sq_counter - 1) = At(sq_head, sq_counter)
      BY <1>4, <2>1, AtIs
    <3>. QED  BY <1>2, <1>4, <1>9, <2>1, <3>1 DEF Acked
  <2>4. StoreEnters(grant) => n + 1 < STORE_QUEUE_SIZE
    BY <1>4, <1>8, <1>a
  <2>5. n + 1 < STORE_QUEUE_SIZE => At(sq_head', n + 1) = SqSucc(At(sq_head', n))
    BY <2>1, <2>2, AtIs
  <2>6. sq_counter' = IF StoreEnters(grant) THEN n + 1 ELSE n
    BY <1>4, <1>9, <1>a
  <2> HIDE DEF n
  <2>. QED  BY <1>9, <2>3, <2>4, <2>5, <2>6
<1>12. ASSUME NEW f \in busy', wr_mem(working'[f].inst)
       PROVE  working'[f].storeq_pos = Slot(rs_entries[f].T_dest)'
  <2>1. f \in Fu
    BY <1>1 DEF Typed, RsTyped
  <2>2. CASE f \in busy \ Freed(grant)
    <3>1. KeepsWork(f)
      BY <2>1, <2>2, UnitMoves
    <3>2. PICK t \in HeldStores : t = rs_entries[f].T_dest
      BY <1>12, <2>2, <3>1, StoreWorks DEF KeepsWork
    <3>3. ~rob_entries[t].ready /\ working[f].storeq_pos = Slot(t)
      BY <1>12, <2>2, <3>1, <3>2, StoreWorks DEF KeepsWork, StoresQueued
    <3>4. Slot(t)' = Slot(t)
      BY <1>2, <1>3, <1>5, <3>2, <3>3, SlotsMove DEF HeadEntry
    <3>. QED  BY <3>1, <3>2, <3>3, <3>4 DEF KeepsWork, Slot, Rank, Age
  <2>3. CASE f \in Taken_0(grant)
    <3>1. GetsWork(f, id_packet_out_0, rob_tail)
      BY <2>1, <2>3, UnitMoves
    <3>2. Enters_0(grant)
      BY <2>3, StartsAre, StartsEnter DEF Takes
    <3>3. PICK t \in RobIdx : t = rob_tail
      BY <1>3
    <3>4. Slot(t)' = sq_tail
      BY <3>2, <3>3, SlotsMove
    <3>. QED  BY <1>12, <3>1, <3>3, <3>4
              DEF GetsWork, storeq_pos, Slot, Rank, Age
  <2>4. CASE f \in Taken_1(grant)
    <3>1. GetsWork(f, id_packet_out_1, rob_tail_plus_1)
      BY <2>1, <2>4, UnitMoves
    <3>2. Enters_1(grant)
      BY <2>4, StartsAre, StartsEnter DEF Takes
    <3>3. PICK t \in RobIdx : t = rob_tail_plus_1
      BY <1>3
    <3>4. fu_type(id_packet_out_1.inst) = FU_LS
      BY <1>12, <3>1, MemOpIs DEF GetsWork
    <3>5. Slot(t)' = sq_tail
      BY <3>2, <3>3, <3>4, SlotsMove
    <3>. QED  BY <1>12, <3>1, <3>3, <3>5
              DEF GetsWork, storeq_pos, Slot, Rank, Age
  <2>. QED  BY <2>1, <2>2, <2>3, <2>4, UnitMoves
<1>13. ASSUME NEW t \in HeldStores', rob_entries'[t].ready
       PROVE  sq_entries'[Slot(t)'].filled
  <2>1. t \in RobIdx
    BY DEF HeldStores, StoresInRob, Live
  <2>2. t \in HeldStores /\ ~(StoreTaken(late) /\ t = rob_head)
    BY <1>13, <2>1, HeldMoves, EntryMoves, NewEntryIs
  <2>3. Slot(t)' = Slot(t) /\ Slot(t) \in SqIdx
    BY <1>5, <2>1, <2>2, SlotsMove, RankIs
  <2>4. CASE rob_entries[t].ready
    <3>1. sq_entries[Slot(t)].filled
      BY <2>2, <2>4 DEF StoresQueued
    <3>2. ~(StoreTaken(late) /\ Slot(t) = sq_head)
      BY <1>2, <2>2, SlotsDiffer
    <3>3. StoreComputed(fu_lsq, Slot(t)) = {}
      BY <3>1 DEF StoreComputed
    <3> DEFINE j == Slot(t)
    <3> HIDE DEF j
    <3>4. sq_entries'[j].filled
      BY <2>3, <3>1, <3>2, <3>3, SlotFills DEF j
    <3>. QED  BY <2>3, <3>4 DEF j
  <2>5. CASE ~rob_entries[t].ready
    <3>1. Finishes(grant, t)
      BY <1>5, <1>6, <1>13, <2>1, <2>2, <2>5
    <3>2. PICK f \in Freed(grant) : rs_entries[f].T_dest = t
      BY <3>1 DEF Finishes
    <3>3. f \in busy /\ f \in Requests
      BY <1>1, <3>2, FreedIs, GrantIs DEF Freed, Granted
    <3>4. OperandsIn(f)
      BY <3>3 DEF Requests, fu_result_valid
    <3>5. wr_mem(working[f].inst)
      BY <2>2, <3>2, <3>3
         DEF UnitsWork, HeldStores, StoresInRob, EntriesGood, EntryGood,
             GoodEntry, Word
    <3>6. sq_entries'[Slot(t)].filled
      BY <3>2, <3>3, <3>4, <3>5, StoreFills
    <3>. QED  BY <2>3, <3>6
  <2>. QED  BY <2>4, <2>5
<1>14. ASSUME NEW j \in SqIdx, sq_entries'[j].filled
       PROVE  \E t \in HeldStores' : Slot(t)' = j
  <2>1. \E t \in HeldStores : /\ Slot(t) = j
                              /\ ~(StoreTaken(late) /\ t = rob_head)
    <3>1. CASE \E i \in StoreComputed(fu_lsq, j) : TRUE
      <4>1. PICK i \in StoreComputed(fu_lsq, j) : TRUE
        BY <3>1
      <4>2. OperandsIn(i) /\ wr_mem(working[i].inst) /\ i \in Fu
            /\ working[i].storeq_pos = j
        BY <4>1 DEF StoreComputed, fu_lsq, Fu
      <4>3. i \in busy
        BY <4>2 DEF Loads, OperandsIn
      <4>4. PICK t \in HeldStores : t = rs_entries[i].T_dest
        BY <4>2, <4>3, StoreWorks
      <4>5. Slot(t) = j /\ ~rob_entries[t].ready
        BY <4>2, <4>3, <4>4, StoreWorks DEF StoresQueued
      <4>. QED  BY <1>2, <4>5 DEF HeadEntry
    <3>2. CASE StoreComputed(fu_lsq, j) = {}
      <4>1. sq_entries[j].filled /\ ~(StoreTaken(late) /\ j = sq_head)
        BY <1>14, <3>2, SlotFills DEF EmptyStore
      <4>2. PICK t \in HeldStores : Slot(t) = j
        BY <4>1 DEF StoresQueued
      <4>. QED  BY <1>2, <4>1, <4>2
    <3>. QED  BY <3>1, <3>2
  <2>2. PICK t \in HeldStores : /\ Slot(t) = j
                                /\ ~(StoreTaken(late) /\ t = rob_head)
    BY <2>1
  <2>3. t \in RobIdx /\ t \in HeldStores'
    BY <1>3, <2>2, HeldMoves
  <2>4. Slot(t)' = j
    BY <1>5, <2>2, <2>3, SlotsMove
  <2>. QED  BY <2>3, <2>4
<1>. QED
  BY <1>7, <1>10, <1>11, <1>12, <1>13, <1>14 DEF StoresQueued

\* A squash, and power-up, leave no store anywhere.
NoStores ==
  /\ ~sq_rob_valid /\ sq_head = 0 /\ sq_tail = 0 /\ sq_counter = 0
  /\ \A j \in SqIdx : ~sq_entries[j].filled
  /\ busy = {} /\ Live = {}

LEMMA NoStoresQueue == NoStores => StoresQueued
<1> SUFFICES ASSUME NoStores  PROVE StoresQueued
  OBVIOUS
<1>1. HeldStores = {}
  BY DEF NoStores, HeldStores, StoresInRob
<1>2. HeldAges = {}
  BY <1>1 DEF HeldAges
<1>3. Cardinality(HeldAges) = 0
  BY <1>2, FS_EmptySet
<1>4. At(0, 0) = 0 /\ 0 < STORE_QUEUE_SIZE
  BY CoreAssumption DEF At
<1>. QED  BY <1>1, <1>3, <1>4 DEF StoresQueued, NoStores

LEMMA StoresQueuedInit == CoreInit => StoresQueued
<1> SUFFICES ASSUME CoreInit  PROVE NoStores
  BY NoStoresQueue
<1>1. Live = {}
  BY DEF CoreInit, RobInit, EmptyEntry, Live
<1>2. busy = {}
  BY DEF CoreInit, RsInit
<1>3. /\ ~sq_rob_valid /\ sq_head = 0 /\ sq_tail = 0 /\ sq_counter = 0
      /\ \A j \in SqIdx : ~sq_entries[j].filled
  BY DEF CoreInit, LsqInit, EmptyStore
<1>. QED  BY <1>1, <1>2, <1>3 DEF NoStores

LEMMA StoresQueuedSquash ==
  ASSUME NEW grant, NEW slow, NEW late, Moves(grant, slow, late),
         squash(sq_rob_valid)
  PROVE  StoresQueued'
<1>1. NoStores'
  <2>1. RobReset
    BY RobStepIs DEF RobStep
  <2>2. Live' = {}
    BY <2>1 DEF RobReset, EmptyEntry, Live
  <2>3. busy' = {}
    BY StepsAre, SquashRsIs
  <2>4. /\ sq_rob_valid' = FALSE /\ sq_head' = 0 /\ sq_tail' = 0
        /\ sq_counter' = 0 /\ sq_entries' = [j \in SqIdx |-> EmptyStore]
    BY StepsAre DEF LsqStep, SqStep
  <2>5. \A j \in SqIdx : ~sq_entries'[j].filled
    BY <2>4 DEF EmptyStore
  <2>. QED  BY <2>2, <2>3, <2>4, <2>5 DEF NoStores
<1>. QED  BY <1>1, NoStoresQueue, PTL

LEMMA StoresQueuedStutters ==
  ASSUME UNCHANGED coreVars  PROVE StoresQueued' <=> StoresQueued
<1> USE DEF coreVars
<1>1. HeldStores' = HeldStores
  BY DEF HeldStores, StoresInRob, Live
<1>2. HeldAges' = HeldAges
  BY <1>1 DEF HeldAges, Age
<1>3. \A t : Slot(t)' = Slot(t)
  BY <1>2 DEF Slot, Rank, CountBelow, At, Age
<1>. QED  BY <1>1, <1>2, <1>3 DEF StoresQueued, HeadEntry, At

-----------------------------------------------------------------------------
(* The invariant of the core says what StoreQueueInProgramOrder says.      *)

LEMMA AgesCount ==
  ASSUME Typed, NEW S \in SUBSET RobIdx
  PROVE  /\ IsFiniteSet(S)
         /\ Cardinality({Age(t) : t \in S}) = Cardinality(S)
<1> DEFINE T == {Age(t) : t \in S}
           f == [t \in S |-> Age(t)]
<1>1. IsFiniteSet(S)
  <2>1. IsFiniteSet(0 .. ROB_SIZE - 1)
    BY CoreAssumption, FS_Interval
  <2>. QED  BY <2>1, FS_Subset DEF RobIdx
<1>2. \A t, u \in S : f[t] = f[u] => t = u
  BY AgeIs DEF Typed
<1>3. f \in Bijection(S, T)
  BY <1>2 DEF Bijection, Injection, Surjection, IsInjective
<1>4. ExistsBijection(S, T)
  BY <1>3 DEF ExistsBijection
<1> HIDE DEF T
<1>5. Cardinality(T) = Cardinality(S)
  BY <1>1, <1>4, FS_Bijection
<1>. QED  BY <1>1, <1>5 DEF T

LEMMA StoreRankIs ==
  ASSUME Typed, StoresQueued
  PROVE  /\ sq_counter = Cardinality(StoresInRob)
                           - (IF sq_rob_valid THEN 1 ELSE 0)
         /\ \A t \in HeldStores : SlotOf(t) = Slot(t)
<1> DEFINE b == IF sq_rob_valid THEN 1 ELSE 0
<1>1. /\ HeldStores \in SUBSET RobIdx /\ StoresInRob \in SUBSET RobIdx
      /\ rob_head \in RobIdx
      /\ sq_rob_valid => rob_head \in StoresInRob
  BY HeadLives, HeldIs, EntriesAre
     DEF StoresQueued, StoresInRob, HeadEntry, Typed, Live
<1>2. StoresInRob = IF sq_rob_valid THEN HeldStores \cup {rob_head}
                    ELSE HeldStores
  BY <1>1 DEF HeldStores
<1>3. sq_rob_valid => rob_head \notin HeldStores
  BY DEF HeldStores
<1>4. IsFiniteSet(HeldStores) /\ Cardinality(HeldAges) = Cardinality(HeldStores)
  BY <1>1, AgesCount DEF HeldAges
<1>5. Cardinality(StoresInRob) = Cardinality(HeldStores) + b
  <2>1. Cardinality(HeldStores) \in Nat
    BY <1>4, FS_CardinalityType
  <2>. QED  BY <1>2, <1>3, <1>4, <2>1, FS_AddElement
<1>6. sq_counter = Cardinality(StoresInRob) - b
  BY <1>4, <1>5, FS_CardinalityType DEF StoresQueued
<1>7. ASSUME NEW t \in HeldStores  PROVE SlotOf(t) = Slot(t)
  <2> DEFINE O == {u \in HeldStores : Age(u) < Age(t)}
             P == {u \in StoresInRob : Age(u) < Age(t)}
  <2>1. O \in SUBSET RobIdx /\ t \in RobIdx
    BY <1>1
  <2>2. {Age(u) : u \in O} = {m \in HeldAges : m < Age(t)}
    BY DEF HeldAges
  <2>3. Cardinality(O) = Rank(t) /\ IsFiniteSet(O)
    <3>1. Cardinality({Age(u) : u \in O}) = Cardinality(O) /\ IsFiniteSet(O)
      BY <2>1, AgesCount
    <3>. QED  BY <2>2, <3>1 DEF Rank, CountBelow
  <2>4. Rank(t) \in 0 .. STORE_QUEUE_SIZE - 1 /\ sq_head \in SqIdx
    BY <2>1, RankIs DEF Typed, LsqTyped
  <2>5. sq_rob_valid => Age(rob_head) < Age(t)
    BY <1>1, <1>3, <2>1, AgeIs DEF Typed
  <2>6. P = IF sq_rob_valid THEN O \cup {rob_head} ELSE O
    BY <1>2, <2>5
  <2>7. sq_rob_valid => rob_head \notin O
    BY <1>3
  <2>8. StoreRank(t) = Cardinality(P)
    BY DEF StoreRank
  <2> HIDE DEF O, P
  <2>9. StoreRank(t) = Rank(t) + b
    <3>1. sq_rob_valid => Cardinality(P) = Cardinality(O) + 1
      BY <2>3, <2>6, <2>7, FS_AddElement
    <3>2. ~sq_rob_valid => P = O
      BY <2>6
    <3>. QED  BY <2>3, <2>4, <2>8, <3>1, <3>2
  <2>10. (sq_head + StoreRank(t) - b) = sq_head + Rank(t)
    BY <2>4, <2>9 DEF SqIdx
  <2>11. SlotOf(t) = (sq_head + Rank(t)) % STORE_QUEUE_SIZE
    BY <2>10 DEF SlotOf
  <2>. QED  BY <2>4, <2>11, AtIs DEF Slot
<1>. QED  BY <1>6, <1>7

LEMMA QueueInOrder ==
  ASSUME Typed, UnitsWork, EntriesGood, StoresQueued
  PROVE  CoreInv
<1>1. StoreQueueInProgramOrder
  <2>1. sq_counter = Cardinality(StoresInRob)
                       - (IF sq_rob_valid THEN 1 ELSE 0)
    BY StoreRankIs
  <2>2. sq_tail = (sq_head + sq_counter) % STORE_QUEUE_SIZE
    <3>1. sq_counter \in 0 .. STORE_QUEUE_SIZE - 1 /\ sq_head \in SqIdx
      BY HeldIs, CoreAssumption DEF StoresQueued, Typed, LsqTyped
    <3>. QED  BY <3>1, AtIs DEF StoresQueued
  <2>3. ASSUME NEW f \in busy, wr_mem(working[f].inst)
        PROVE  working[f].storeq_pos = SlotOf(rs_entries[f].T_dest)
    BY <2>3, StoreWorks, StoreRankIs DEF StoresQueued
  <2>4. ASSUME NEW t \in StoresInRob, rob_entries[t].ready,
               ~(sq_rob_valid /\ t = rob_head)
        PROVE  sq_entries[SlotOf(t)].filled
    <3>1. t \in HeldStores
      BY <2>4 DEF HeldStores
    <3>. QED  BY <2>4, <3>1, StoreRankIs DEF StoresQueued
  <2>. QED  BY <2>1, <2>2, <2>3, <2>4 DEF StoreQueueInProgramOrder
<1>2. CoreTypeOK
  <2>1. RobTypeOK
    BY DEF Typed, RobInv
  <2>2. \A f \in Fu :
          /\ rs_entries[f].T_dest \in 0 .. ROB_SIZE - 1
          /\ unit[f].step \in 0 .. NUM_STAGE
          /\ working[f].storeq_pos \in 0 .. NO_SQ_POS
    BY DEF Typed, RsTyped, StationType, UnitType, WorkingType, RobIdx
  <2>3. sq_counter \in 0 .. STORE_QUEUE_SIZE - 1
    BY HeldIs, CoreAssumption DEF StoresQueued
  <2>4. \A j \in SqIdx : sq_entries[j].value \in Value
    BY DEF Typed, LsqTyped, StoreType
  <2>. QED
    BY <2>1, <2>2, <2>3, <2>4
       DEF CoreTypeOK, Typed, FrontTyped, MapTyped, RsTyped, LsqTyped
<1>. QED  BY <1>1, <1>2 DEF CoreInv

-----------------------------------------------------------------------------
(* The inductive invariant of the core.                                    *)

CoreInd ==
  /\ Typed
  /\ FrontGood
  /\ Loads
  /\ ~Phantoms => /\ UnitsWork /\ Renames /\ OperandsCome /\ EntriesGood
                  /\ StoresQueued
  /\ ~Phantoms /\ ~DeadEnds => PathGood

LEMMA CoreIndInit == CoreInit => CoreInd
<1> SUFFICES ASSUME CoreInit  PROVE CoreInd
  OBVIOUS
<1>1. /\ \A t \in RobIdx : ~rob_entries[t].valid
      /\ rob_counter = 0
  BY DEF CoreInit, RobInit, EmptyEntry
<1>2. Live = {}
  BY <1>1 DEF Live
<1>3. /\ PC_reg = 0 /\ just_squash = FALSE /\ commit_PC = 0
      /\ id_packet_out_0 = NoPacket /\ id_packet_out_1 = NoPacket
  BY DEF CoreInit, FrontInit
<1>4. FrontGood
  BY <1>3, NoPacketIs DEF FrontGood, PairOffered, PacketsPredicted, FromText
<1>5. busy = {}
  BY DEF CoreInit, RsInit
<1>6. UnitsWork /\ OperandsCome /\ EntriesGood
  BY <1>2, <1>5 DEF UnitsWork, Waiting, OperandsCome, EntriesGood
<1>7. Renames
  <2>1. \A r \in Reg : Tag[r] = ZERO_TAG /\ ~ready_in_ROB[r]
    BY DEF CoreInit, MtInit
  <2>2. \A r : Writers(r) = {}
    BY <1>2 DEF Writers
  <2>. QED
    BY <2>1, <2>2, IsaAssumption DEF Renames, RenamesYoungestOf, ZERO_REG
<1>8. PathGood
  BY <1>1, <1>2, <1>3, NoPacketIs DEF PathGood, RobPath, FrontPath, GoesOn
<1>. QED
  BY <1>4, <1>6, <1>7, <1>8, TypedInit, LoadsInit, StoresQueuedInit DEF CoreInd

LEMMA TextStays ==
  ASSUME program' = program
  PROVE  (Phantoms' <=> Phantoms) /\ (DeadEnds' <=> DeadEnds)
BY DEF Phantoms, DeadEnds

LEMMA CoreIndMoves == CoreInd /\ Cycle => CoreInd'
<1> SUFFICES ASSUME CoreInd, Cycle  PROVE CoreInd'
  OBVIOUS
<1>1. PICK grant, slow, late : Moves(grant, slow, late)
  BY CycleIs
<1>2. (Phantoms' <=> Phantoms) /\ (DeadEnds' <=> DeadEnds)
  BY <1>1, TextStays DEF Moves
<1>3. Typed /\ FrontGood /\ Loads
  BY DEF CoreInd
<1>4. Typed' /\ FrontGood' /\ Loads'
  BY <1>1, <1>3, TypedMoves, FrontGoodMoves, LoadsMoves
<1>5. ASSUME ~Phantoms
      PROVE  (/\ UnitsWork /\ Renames /\ OperandsCome /\ EntriesGood
              /\ StoresQueued)'
  <2>1. UnitsWork /\ Renames /\ OperandsCome /\ EntriesGood /\ StoresQueued
    BY <1>5 DEF CoreInd
  <2>2. UnitsWork'
    BY <1>1, <1>3, <1>5, <2>1, UnitsWorkMoves
  <2>3. Renames'
    BY <1>1, <1>3, <1>5, <2>1, RenamesMoves
  <2>4. OperandsCome'
    BY <1>1, <1>3, <1>5, <2>1, OperandsMove
  <2>5. EntriesGood'
    BY <1>1, <1>3, <1>5, <2>1, EntriesMove
  <2>6. StoresQueued'
    BY <1>1, <1>3, <1>5, <2>1, StoresQueuedMoves, StoresQueuedSquash
  <2>. QED  BY <2>2, <2>3, <2>4, <2>5, <2>6
<1>6. ASSUME ~Phantoms, ~DeadEnds  PROVE PathGood'
  <2>1. UnitsWork /\ EntriesGood /\ PathGood
    BY <1>6 DEF CoreInd
  <2>. QED  BY <1>1, <1>3, <1>6, <2>1, PathMoves
<1>. QED  BY <1>2, <1>4, <1>5, <1>6 DEF CoreInd

LEMMA CoreIndStutters == CoreInd /\ UNCHANGED coreVars => CoreInd'
<1> SUFFICES ASSUME CoreInd, UNCHANGED coreVars  PROVE CoreInd'
  OBVIOUS
<1> USE DEF coreVars
<1>1. Typed'
  BY DEF CoreInd, Typed, FrontTyped, MapTyped, RsTyped, LsqTyped, RobInv,
         RobTypeOK, WindowAgrees, DeadSlotsClear, InWindow, Age
<1>2. FrontGood' /\ Loads'
  BY DEF CoreInd, FrontGood, PairOffered, PacketsPredicted, FromText, Phantoms,
         Loads, Loaded
<1>3. (Phantoms' <=> Phantoms) /\ (DeadEnds' <=> DeadEnds)
  BY TextStays
<1>4. Live' = Live /\ (\A r : Writers(r)' = Writers(r))
  BY DEF Live, Writers
<1>5. UnitsWork' <=> UnitsWork
  BY <1>4 DEF UnitsWork, Waiting
<1>6. Renames' <=> Renames
  BY <1>4 DEF Renames, RenamesYoungestOf, Age
<1>7. OperandsCome' <=> OperandsCome
  BY <1>4 DEF OperandsCome, OperandComes, Age
<1>8. EntriesGood' <=> EntriesGood
  BY <1>4 DEF EntriesGood, EntryGood, Word
<1>9. PathGood' <=> PathGood
  BY <1>4
     DEF PathGood, RobPath, FrontPath, GoesOn, Leads, Word, Stuck, Resolved, Age
<1>10. StoresQueued' <=> StoresQueued
  BY StoresQueuedStutters
<1>. QED
  BY <1>1, <1>2, <1>3, <1>5, <1>6, <1>7, <1>8, <1>9, <1>10 DEF CoreInd

(* Types, and what the invariants below rest on: the packets are the text, *)
(* the entries are the packets, the units work for the entries.            *)
THEOREM CoreInductive == CoreSpec => []CoreInd
<1>1. CoreInd /\ [Cycle]_coreVars => CoreInd'
  BY CoreIndMoves, CoreIndStutters
<1>. QED  BY <1>1, CoreIndInit, PTL DEF CoreSpec

(* Nothing is lost between the reorder buffer and the units: a station is  *)
(* taken exactly while its unit has an instruction, and the entries that   *)
(* wait for a result are those of the taken stations, one each.  This is   *)
(* for any number of units and any order of their results.                 *)
THEOREM UnitsServeEntries == CoreSpec => []EveryEntryHasItsUnit
<1>1. CoreInd => EveryEntryHasItsUnit
  <2> SUFFICES ASSUME CoreInd  PROVE EveryEntryHasItsUnit
    OBVIOUS
  <2>1. busy = {f \in Fu : Loaded(f)}
    BY DEF CoreInd, Loads
  <2>2. ASSUME ~Phantoms
        PROVE  /\ Waiting = {rs_entries[f].T_dest : f \in busy}
               /\ \A f, g \in busy :
                    rs_entries[f].T_dest = rs_entries[g].T_dest => f = g
               /\ \A f \in busy :
                    working[f].PC = rob_entries[rs_entries[f].T_dest].PC
    BY <2>2 DEF CoreInd, UnitsWork
  <2>. QED  BY <2>1, <2>2 DEF EveryEntryHasItsUnit, Waiting
<1>. QED  BY <1>1, CoreInductive, PTL

(* The map table names the youngest instruction in flight that writes a    *)
(* register, knows whether it has completed, and names none when the       *)
(* register file is current: whatever is renamed, retired and squashed in  *)
(* the same cycle.                                                         *)
THEOREM MapTableNamesYoungest == CoreSpec => []RenamesYoungest
<1>1. CoreInd => RenamesYoungest
  <2> SUFFICES ASSUME CoreInd, ~Phantoms, NEW r \in Reg \ {ZERO_REG}
               PROVE  IF Writers(r) = {}
                      THEN Tag[r] = ZERO_TAG /\ ~ready_in_ROB[r]
                      ELSE /\ Tag[r] = Youngest(Writers(r))
                           /\ ready_in_ROB[r] = rob_entries[Tag[r]].ready
    BY DEF RenamesYoungest
  <2>1. RenamesYoungestOf(r)
    BY DEF CoreInd, Renames
  <2>2. CASE Writers(r) = {}
    BY <2>1, <2>2 DEF RenamesYoungestOf
  <2>3. CASE Writers(r) # {}
    <3>1. /\ Tag[r] \in Writers(r)
          /\ \A u \in Writers(r) : Age(u) <= Age(Tag[r])
          /\ ready_in_ROB[r] = rob_entries[Tag[r]].ready
      BY <2>1, <2>3 DEF RenamesYoungestOf
    <3>2. \A t \in Writers(r) : t \in RobIdx /\ Age(t) \in Nat
      BY AgeIs DEF CoreInd, Typed, Writers, Live
    <3>3. \A t, u \in Writers(r) : Age(t) <= Age(u) /\ Age(u) <= Age(t)
                                     => t = u
      BY <3>2, AgeIs DEF CoreInd, Typed
    <3>4. Youngest(Writers(r)) = Tag[r]
      BY <3>1, <3>3 DEF Youngest
    <3>. QED  BY <2>3, <3>1, <3>4
  <2>. QED  BY <2>2, <2>3
<1>. QED  BY <1>1, CoreInductive, PTL

(* A station never waits for a result that is not coming: the tag it       *)
(* listens for belongs to an older instruction that has not completed.     *)
THEOREM OperandsArrive == CoreSpec => []NoOperandIsMissed
<1>1. CoreInd => NoOperandIsMissed
  BY DEF CoreInd, OperandsCome, OperandComes, NoOperandIsMissed
<1>. QED  BY <1>1, CoreInductive, PTL

(* The stores of the reorder buffer, oldest first, are the slots of the    *)
(* store queue from its head on; every unit that works for a store knows   *)
(* its slot, and the slot of a store that has completed is filled: however *)
(* the stores are dispatched, computed, taken by the cache and squashed.   *)
THEOREM StoresStayInOrder == CoreSpec => [](~Phantoms => CoreInv)
<1>1. CoreInd => (~Phantoms => CoreInv)
  BY QueueInOrder DEF CoreInd
<1>. QED  BY <1>1, CoreInductive, PTL

(* What retires is the instruction the program executes next, whatever the *)
(* predictors guess and however long the caches take, in every text        *)
(* without the pairs that make the front end repeat itself.                *)
THEOREM RetiresProgramOrder ==
  CoreSpec => [](~Phantoms /\ ~DeadEnds => RetiresNextInstruction)
<1>1. CoreInd => (~Phantoms /\ ~DeadEnds => RetiresNextInstruction)
  <2> SUFFICES ASSUME CoreInd, ~Phantoms, ~DeadEnds
               PROVE  RetiresNextInstruction
    OBVIOUS
  <2>1. Typed /\ EntriesGood /\ RobPath
    BY DEF CoreInd, PathGood
  <2>2. /\ Leaves_0 => rob_head \in Live /\ Age(rob_head) = 0
        /\ Leaves_1 => rob_head_plus_1 \in Live /\ Leaves_0
                       /\ Age(rob_head_plus_1) = 1
    BY <2>1, LeavesAre, AgeIs DEF Typed
  <2>3. Leaves_0 => HeadEntry.PC = commit_PC
    BY <2>1, <2>2 DEF RobPath, HeadEntry
  <2>4. ASSUME Leaves_1  PROVE SecondEntry.PC = HeadEntry.branch_target
    <3>1. Leads(rob_head, SecondEntry.PC)
      BY <2>1, <2>2, <2>4 DEF RobPath, SecondEntry
    <3>2. ~Diverted(HeadEntry) /\ HeadEntry.ready /\ EntryGood(rob_head)
      BY <2>1, <2>2, <2>4
         DEF Leaves_0, Leaves_1, retire_valid_0, retire_valid_1, squash_0,
             EntriesGood
    <3>. QED
      BY <3>1, <3>2 DEF EntryGood, GoodEntry, Leads, Ends, HeadEntry
  <2>. QED  BY <2>3, <2>4 DEF RetiresNextInstruction, Leaves_0, Leaves_1
<1>. QED  BY <1>1, CoreInductive, PTL
=============================================================================
