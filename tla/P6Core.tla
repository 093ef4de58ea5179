-------------------------------- MODULE P6Core --------------------------------
(***************************************************************************)
(* The processor core: pipeline.sv wires the front end, the map table, the *)
(* register file, the reservation stations, the load/store queue and the   *)
(* reorder buffer together; every component steps in every clock cycle on  *)
(* the values all of them hold at its beginning.                           *)
(*                                                                         *)
(* The rest of the chip is an environment.  The instruction cache hits or  *)
(* misses; the branch predictors guess one of the directions and targets   *)
(* they can hold; the selector grants any of the most urgent units; the    *)
(* data cache answers the load, or takes the store, of the cycle or lets   *)
(* it wait, and is coherent.                                               *)
(***************************************************************************)
EXTENDS Front, Rs, FiniteSets

CONSTANTS
  ROB_SIZE, STORE_QUEUE_SIZE,
  Programs,     \* the texts that are run
  InitRegs,     \* what the registers may hold at power-up
  Targets,      \* the addresses the predictors may hold
  IcacheMiss,   \* {FALSE, TRUE} when the caches may make the core wait,
  DcacheMiss    \* {FALSE} when they may not

ASSUME CoreAssumption ==
  /\ ROB_SIZE \in Nat /\ ROB_SIZE >= 2 /\ ZERO_TAG = ROB_SIZE
  /\ STORE_QUEUE_SIZE \in Nat /\ STORE_QUEUE_SIZE >= 2
  /\ FU_LS # {} /\ IsFiniteSet(FU_LS)
  /\ \A text \in Programs : \A pc \in DOMAIN text : text[pc] \in Instruction
  /\ InitRegs \subseteq [Reg -> Value] /\ Targets \subseteq Pc
  /\ IcacheMiss \subseteq BOOLEAN /\ DcacheMiss \subseteq BOOLEAN

VARIABLES
  program, mem, registers,
  Tag, ready_in_ROB,
  rob_head, rob_tail, rob_counter, rob_entries,
  lq_entries, lq_retire_valid, lq_value, lq_selection,
  sq_entries, sq_head, sq_tail, sq_counter, sq_rob_valid,
  commit_PC     \* history: where the retired instructions lead to

INSTANCE Rob WITH IdPacket <- {}, CdbPacket <- {}
INSTANCE MapTable
INSTANCE RegFile
INSTANCE Lsq WITH Addr <- ByteAddr, Word <- Value, Size <- 0 .. 2

coreVars ==
  <<program, mem, registers, commit_PC, PC_reg, just_squash, id_packet_out_0,
    id_packet_out_1, Tag, ready_in_ROB, rob_head, rob_tail, rob_counter,
    rob_entries, rs_entries, busy, working, unit, lq_entries,
    lq_retire_valid, lq_value, lq_selection, sq_entries, sq_head, sq_tail,
    sq_counter, sq_rob_valid>>

-----------------------------------------------------------------------------
(* Wires of pipeline.sv.                                                   *)

\* The packet a slot offers to the reorder buffer.  is_branch of slot 0 asks
\* slot 1 whether it is an unconditional branch.
ToRob(p, enable) ==
  [valid |-> p.valid /\ ~isIllegal(p.inst), dispatch_enable |-> enable,
   dest_reg_idx |-> dest_reg_idx(p.inst), store |-> wr_mem(p.inst),
   is_branch |-> cond_branch(p.inst) \/ uncond_branch(id_packet_out_1.inst),
   take_branch |-> p.take_branch, halt |-> isHalt(p.inst),
   NPC_out |-> p.NPC_out, PC |-> p.PC]

\* The register a slot renames, ZERO_REG for none.
RdDispatch(p, enable) ==
  IF enable /\ id_valid(p) THEN dest_reg_idx(p.inst) ELSE ZERO_REG

\* What a retiring instruction tells the map table.
ToMt(write, head, tail) ==
  [dest_valid |-> write.dest_valid, dest_reg_idx |-> write.dest_reg_idx,
   rob_head |-> head, rob_tail |-> tail]

\* rob_rs: the value an entry of the reorder buffer holds.
rob_value(tag) == IF tag = ZERO_TAG THEN 0 ELSE rob_entries[tag].value

lsq_fu == [i \in FU_LS |-> [valid |-> lq_retire_valid[i],
                            value |-> lq_value[i]]]

\* What the load/store units tell the queue.
fu_lsq ==
  [i \in FU_LS |->
     LET w == working[i]
     IN  [valid |-> OperandsIn(i), load |-> rd_mem(w.inst),
          store |-> wr_mem(w.inst), addr |-> address(w.inst, w.rs_value[1]),
          value |-> w.rs_value[2], mem_size |-> w.inst.size,
          sq_pos |-> w.storeq_pos]]

\* rs_lsq: the memory instruction that is dispatched, if any.
ToLsq(p, unitOf) ==
  [valid |-> unitOf # {}, load |-> rd_mem(p.inst), store |-> wr_mem(p.inst),
   idx |-> IF unitOf = {} THEN 0 ELSE CHOOSE i \in unitOf : TRUE]

rs_lsq(u0, u1) ==
  IF fu_type(id_packet_out_0.inst) = FU_LS
  THEN ToLsq(id_packet_out_0, u0) ELSE ToLsq(id_packet_out_1, u1)

\* Mutation: a store is told the position that a load would be told.
LoadPosition(p) == storeq_tail

storeq_pos(p) == IF wr_mem(p.inst) THEN sq_tail ELSE storeq_tail

\* What the predictors can answer for instruction i at pc.  A conditional
\* branch is predicted taken only with a target; a jump gets a target but
\* never counts as predicted taken (npc_control_2.sv).
Guesses(i, pc, valid) ==
  LET through == [branch_predict |-> FALSE, NPC_out |-> NPC(pc)]
  IN  IF valid /\ cond_branch(i)
      THEN {through} \cup {[branch_predict |-> TRUE, NPC_out |-> t]
                             : t \in Targets}
      ELSE IF valid /\ uncond_branch(i)
      THEN {through} \cup {[branch_predict |-> FALSE, NPC_out |-> t]
                             : t \in Targets}
      ELSE {through}

-----------------------------------------------------------------------------
(* One clock cycle.                                                        *)

\* Dispatch: what is left to decide once the results of the cycle are known.
\* A slot has a station (u0, u1: {} or the one), is enabled (en0, en1), and
\* takes the station when its instruction is one that executes.
Dispatch(taken) ==
  LET i0 == id_packet_out_0.inst
      i1 == id_packet_out_1.inst
      out0 == FirstFree(fu_type(i0), taken)
      rs_entry_full_0 == out0 = {} \/ (wr_mem(i0) /\ storeq_full)
      en0 == ~rob_full_0 /\ ~rs_entry_full_0
      u0 == IF en0 /\ id_valid(id_packet_out_0) THEN out0 ELSE {}
      out1 == FirstFree(fu_type(i1), taken \cup u0)
      rs_entry_full_1 == \/ rs_entry_full_0
                         \/ out1 = {}
                         \/ BothLs(i0, i1)
                         \/ wr_mem(i1) /\ storeq_full
      en1 == ~rob_full_1 /\ ~rs_entry_full_1
      u1 == IF en1 /\ id_valid(id_packet_out_1) /\ ~BothLs(i0, i1)
            THEN out1 ELSE {}
  IN  [en0 |-> en0, u0 |-> u0, en1 |-> en1, u1 |-> u1]

\* What the station of a slot gets: mt holds the map table's answers for the
\* two operands.
Station(i, tail, mt, w0, w1) ==
  [T_dest |-> tail,
   rs_entry_info |-> [k \in 1 .. 2 |->
      Operand(i, k, mt[k], rd_out(w0, w1, input_reg_idx(i, k)),
              rob_value(mt[k].tag))]]

\* The back end: grant is the pair of units that get the buses, d the
\* dispatch, reply and ack the answers of the data cache.
Back(grant, d, reply, ack) ==
  LET acked == sq_rob_valid
      cdb0 == CdbOf(grant[1], lsq_fu)
      cdb1 == CdbOf(grant[2], lsq_fu)
      w0 == rob_reg_0(acked)
      w1 == rob_reg_1(acked)
      m0 == ToMt(w0, rob_head, rob_tail)
      m1 == ToMt(w1, rob_head_plus_1, rob_tail_plus_1)
      d0 == RdDispatch(id_packet_out_0, d.en0)
      d1 == RdDispatch(id_packet_out_1, d.en1)
      i0 == id_packet_out_0.inst
      i1 == id_packet_out_1.inst
      s0 == Station(i0, rob_tail,
                    [k \in 1 .. 2 |-> Lookup_0(m0, m1, input_reg_idx(i0, k))],
                    w0, w1)
      s1 == Station(i1, rob_tail_plus_1,
                    [k \in 1 .. 2 |->
                       Lookup_1(m0, m1, d0, input_reg_idx(i1, k))], w0, w1)
  IN  /\ RobStep(ToRob(id_packet_out_0, d.en0),
                 ToRob(id_packet_out_1, d.en1), cdb0, cdb1, acked)
      /\ RegStep(w0, w1)
      /\ MtStep(squash(acked), m0, m1, d0, d1, cdb0, cdb1)
      /\ RsStep(squash(acked), grant[1] \cup grant[2],
                id_packet_out_0, d.u0, s0, storeq_pos(id_packet_out_0),
                id_packet_out_1, d.u1, s1, storeq_pos(id_packet_out_1),
                cdb0, cdb1)
      /\ LsqStep(squash(acked), rs_lsq(d.u0, d.u1), fu_lsq, sq_retire,
                 reply, ack)

\* The instruction cache.  The line that it delivered in the last cycle is
\* still there: what it fills in the meantime are the lines behind it, which
\* lie in other sets, unless it prefetches at the target of a misprediction.
MayMiss(pc, misses) ==
  IF /\ id_packet_out_0.valid \/ id_packet_out_1.valid
     /\ pc \div 2 = id_packet_out_0.PC \div 2
     /\ ~early_branch_valid
  THEN {FALSE} ELSE misses

\* The front end fetches from pc.
FetchPair(pc, misses) ==
  \E miss \in MayMiss(pc, misses) :
  \E g0 \in Guesses(inst_0(program, pc, ~miss), pc, ~miss) :
    LET p0 == id_packet(inst_0(program, pc, ~miss), pc, ~miss, g0)
        i1 == inst_1(program, pc, ~miss, g0.branch_predict)
    IN  \E g1 \in Guesses(i1, NPC(pc), ~miss) :
          FrontStep(squash(sq_rob_valid), squash_target(sq_rob_valid), pc,
                    p0, id_packet(i1, NPC(pc), ~miss, g1))

\* Where the program continues after the instructions that retire.
Commit(acked) ==
  commit_PC' = IF retire_valid_1(acked) THEN SecondEntry.branch_target
               ELSE IF retire_valid_0(acked) THEN HeadEntry.branch_target
               ELSE commit_PC

\* The data cache: a load reads before the store of the same cycle writes.
Reply(stall) ==
  IF lsq_load_dc.valid /\ ~stall
  THEN [valid |-> TRUE,
        value |-> MemRead(mem, lsq_load_dc.addr, lsq_load_dc.mem_size)]
  ELSE [valid |-> FALSE, value |-> 0]

StoreTaken(stall) == lsq_store_dc(sq_retire).valid /\ ~stall

MemStep(stall) ==
  LET st == lsq_store_dc(sq_retire)
  IN  mem' = IF StoreTaken(stall)
             THEN MemWrite(mem, st.addr, st.mem_size, st.value) ELSE mem

Requests == {f \in Fu : fu_result_valid(f, lsq_fu)}

\* A clock cycle in which the instruction cache and the data cache may let
\* the core wait as imiss and dmiss say.
Clock(imiss, dmiss) ==
  /\ ~halt
  /\ \E grant \in Grants(Requests),
        slow \in IF lsq_load_dc.valid THEN dmiss ELSE {FALSE},
        late \in IF lsq_store_dc(sq_retire).valid THEN dmiss ELSE {FALSE} :
       LET d == Dispatch(busy \ (grant[1] \cup grant[2]))
       IN  /\ Back(grant, d, Reply(slow), StoreTaken(late))
           /\ FetchPair(working_PC_reg(d.en0, d.en1), imiss)
           /\ MemStep(late)
           /\ Commit(sq_rob_valid)
  /\ UNCHANGED program

\* The simulation ends when a halt reaches the head of the reorder buffer.
Cycle == Clock(IcacheMiss, DcacheMiss)

\* A cycle in which both caches have what they are asked for.
Served == Clock({FALSE}, {FALSE})

CoreInit ==
  /\ program \in Programs
  /\ mem = [a \in ByteAddr |-> 0]
  /\ registers \in InitRegs
  /\ commit_PC = 0
  /\ FrontInit
  /\ RsInit
  /\ MtInit
  /\ RobInit
  /\ LsqInit

CoreSpec == CoreInit /\ [][Cycle]_coreVars

\* The clock ticks, and the caches serve the core again and again: every
\* request that is kept up is answered by the memory in the end.
CoreFairSpec == CoreSpec /\ WF_coreVars(Served)

-----------------------------------------------------------------------------
(* Properties.                                                             *)

CoreTypeOK ==
  /\ RobTypeOK
  /\ Tag \in [Reg -> 0 .. ROB_SIZE]
  /\ ready_in_ROB \in [Reg -> BOOLEAN]
  /\ registers \in [Reg -> Value]
  /\ mem \in [ByteAddr -> 0 .. BYTE - 1]
  /\ PC_reg \in Pc /\ commit_PC \in Pc /\ just_squash \in BOOLEAN
  /\ busy \subseteq Fu
  /\ \A f \in Fu :
       /\ rs_entries[f].T_dest \in 0 .. ROB_SIZE - 1
       /\ unit[f].step \in 0 .. NUM_STAGE
       /\ working[f].storeq_pos \in 0 .. NO_SQ_POS
  /\ lq_retire_valid \in [FU_LS -> BOOLEAN]
  /\ lq_value \in [FU_LS -> Value]
  /\ lq_selection \in FU_LS
  /\ sq_head \in SqIdx /\ sq_tail \in SqIdx
  /\ sq_counter \in 0 .. STORE_QUEUE_SIZE - 1
  /\ \A j \in SqIdx : sq_entries[j].value \in Value

\* A word that does not decode, at an even address, with one that does
\* behind it: slot 1 is then dispatched to a station without an entry of the
\* reorder buffer, once per cycle, until a branch squashes it.  Only a wrong
\* path runs into such a pair.
Phantoms ==
  \E pc \in Pc : /\ ~Upper(pc) /\ isIllegal(Fetch(program, pc))
                 /\ ~isIllegal(Fetch(program, NPC(pc)))

Live == {t \in RobIdx : rob_entries[t].valid}
Writers(r) == {t \in Live : rob_entries[t].dest_reg_idx = r}
Youngest(S) == CHOOSE t \in S : \A u \in S : Age(u) <= Age(t)

\* The map table names the youngest instruction in flight that writes a
\* register, knows whether it has completed, and names none when the
\* register file is current: through renaming of both slots in one cycle,
\* retirement of an older writer, retirement and renaming in one cycle, and
\* squashes.
RenamesYoungest ==
  ~Phantoms =>
    \A r \in Reg \ {ZERO_REG} :
      IF Writers(r) = {} THEN Tag[r] = ZERO_TAG /\ ~ready_in_ROB[r]
      ELSE /\ Tag[r] = Youngest(Writers(r))
           /\ ready_in_ROB[r] = rob_entries[Tag[r]].ready

\* Nothing is lost between the reorder buffer and the units: the entries
\* that wait for a result are those of the taken stations, one each, and
\* the unit of a taken station works for it.  So an entry completes once.
EveryEntryHasItsUnit ==
  /\ busy = {f \in Fu : Loaded(f)}
  /\ ~Phantoms =>
       /\ {t \in Live : ~rob_entries[t].ready /\ ~rob_entries[t].halt}
            = {rs_entries[f].T_dest : f \in busy}
       /\ \A f, g \in busy :
            rs_entries[f].T_dest = rs_entries[g].T_dest => f = g
       /\ \A f \in busy :
            working[f].PC = rob_entries[rs_entries[f].T_dest].PC

\* A station never waits for a result that is not coming: the tag it listens
\* for belongs to an older instruction that has not completed.  A result
\* that passes by in the cycle of dispatch, or in a cycle in which the slot
\* was refused, is not missed.
NoOperandIsMissed ==
  ~Phantoms =>
    \A f \in busy, k \in 1 .. 2 :
      LET o == rs_entries[f].rs_entry_info[k]
      IN  ~o.V_ready => /\ o.tag \in Live
                        /\ ~rob_entries[o.tag].ready
                        /\ Age(o.tag) < Age(rs_entries[f].T_dest)

\* The stores of the reorder buffer, oldest first, are the slots of the
\* store queue from sq_head on (a store the cache has just taken has left
\* the queue and not yet the buffer), and a slot is filled when its store
\* has computed its address.
StoresInRob == {t \in Live : rob_entries[t].store}
StoreRank(t) == Cardinality({u \in StoresInRob : Age(u) < Age(t)})
SlotOf(t) ==
  (sq_head + StoreRank(t) - (IF sq_rob_valid THEN 1 ELSE 0))
    % STORE_QUEUE_SIZE

StoreQueueInProgramOrder ==
  ~Phantoms =>
    /\ sq_counter = Cardinality(StoresInRob)
                      - (IF sq_rob_valid THEN 1 ELSE 0)
    /\ sq_tail = (sq_head + sq_counter) % STORE_QUEUE_SIZE
    /\ \A f \in busy :
         wr_mem(working[f].inst) =>
           working[f].storeq_pos = SlotOf(rs_entries[f].T_dest)
    /\ \A t \in StoresInRob :
         rob_entries[t].ready /\ ~(sq_rob_valid /\ t = rob_head)
           => sq_entries[SlotOf(t)].filled

\* The queue of the core is typed and in program order.
CoreInv == CoreTypeOK /\ StoreQueueInProgramOrder

\* What retires is the instruction the program executes next: neither one of
\* a wrong path, nor one that is executed a second time after a squash, also
\* when a misprediction retires through port 1 together with the instruction
\* in front of it.
RetiresNextInstruction ==
  /\ retire_valid_0(sq_rob_valid) => HeadEntry.PC = commit_PC
  /\ retire_valid_1(sq_rob_valid) => SecondEntry.PC = HeadEntry.branch_target

\* The bytes of an access, and two accesses of a load and of an older store
\* that share some of them and are not the same: the load does not find the
\* store.
Bytes(a, size) == IF size = 1 THEN {a} ELSE {Align(a, 2), Align(a, 2) + 1}

PartialOverlap ==
  \E f \in busy, t \in StoresInRob :
    LET w == working[f]
        a == address(w.inst, w.rs_value[1])
        e == sq_entries[SlotOf(t)]
    IN  /\ rd_mem(w.inst) /\ OperandsIn(f)
        /\ ~(sq_rob_valid /\ t = rob_head)
        /\ Age(t) < Age(rs_entries[f].T_dest)
        /\ e.filled
        /\ <<e.addr, e.mem_size>> # <<a, w.inst.size>>
        /\ Bytes(e.addr, e.mem_size) \cap Bytes(a, w.inst.size) # {}

\* The machine the programmer sees.  The cache has a store one cycle before
\* the reorder buffer retires it; the cell of ZERO_REG is never read.
Arch == [pc |-> IF sq_rob_valid THEN NPC(HeadEntry.PC) ELSE commit_PC,
         regs |-> [registers EXCEPT ![ZERO_REG] = 0], mem |-> mem]

Machine == INSTANCE IsaMachine WITH arch <- Arch

\* The processor is the sequential machine: the registers, the memory and the
\* program counter change as if one instruction was executed after the other,
\* whatever is renamed, speculated, forwarded and squashed.
ImplementsIsa == Machine!Spec

\* Every program that ends, ends: with a halt at the head of the buffer.
Halts == <>halt
=============================================================================
