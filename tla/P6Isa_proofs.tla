----------------------------- MODULE P6Isa_proofs -----------------------------
(***************************************************************************)
(* The core implements the sequential machine: what every station, every   *)
(* slot of the store queue, every load and every entry of the reorder      *)
(* buffer holds is what the instructions in front of it leave in the       *)
(* registers and in the memory, so that what retires is what the machine   *)
(* executes.                                                               *)
(***************************************************************************)
EXTENDS P6Core_proofs

-----------------------------------------------------------------------------
(* What an instruction reads from a register.                              *)

\* The youngest writer of register r among the entries of less age than n.
SourceAt(n, r, w) ==
  /\ w \in Writers(r) /\ Age(w) < n
  /\ \A u \in Writers(r) : Age(u) < n => Age(u) <= Age(w)

NoSourceAt(n, r) == \A u \in Writers(r) : ~(Age(u) < n)

\* An instruction of age n reads v from register r: all the writers it has to
\* wait for have completed.
Reads(n, r, v) ==
  \/ r = ZERO_REG /\ v = 0
  \/ r # ZERO_REG /\ NoSourceAt(n, r) /\ v = registers[r]
  \/ r # ZERO_REG /\ \E w \in RobIdx : /\ SourceAt(n, r, w)
                                       /\ rob_entries[w].ready
                                       /\ v = rob_entries[w].value

ReadsBoth(n, i, v1, v2) ==
  Reads(n, input_reg_idx(i, 1), v1) /\ Reads(n, input_reg_idx(i, 2), v2)

\* What a station holds of an operand in register r: its value, or the tag of
\* the entry that it will come from.
InfoGood(info, n, r) ==
  /\ info.V_ready => Reads(n, r, info.V)
  /\ ~info.V_ready => /\ r # ZERO_REG /\ SourceAt(n, r, info.tag)
                      /\ ~rob_entries[info.tag].ready

AgeOf(f) == Age(rs_entries[f].T_dest)

OperandGood(f, k) ==
  InfoGood(rs_entries[f].rs_entry_info[k], AgeOf(f),
           input_reg_idx(working[f].inst, k))

\* A unit has the operands that its station has, and computes with them.
WorkGood(f) ==
  working[f].rs_value_valid =>
    \A k \in 1 .. 2 : /\ rs_entries[f].rs_entry_info[k].V_ready
                      /\ working[f].rs_value[k]
                           = rs_entries[f].rs_entry_info[k].V

UnitGood(f) ==
  LET w == working[f]
  IN  w.rs_value_valid /\ ~w.selected =>
        /\ f \in FU_ALU \cup FU_MULT =>
             unit[f].result
               = alu_result(w.inst, w.rs_value[1], w.rs_value[2])
        /\ f \in FU_BEQ => (unit[f].result = 1
                              <=> w.rs_value[1] = w.rs_value[2])

StationsGood ==
  \A f \in busy : /\ \A k \in 1 .. 2 : OperandGood(f, k)
                  /\ WorkGood(f)
                  /\ UnitGood(f)

-----------------------------------------------------------------------------
(* What a load reads from the memory.                                      *)

Filled(t) == sq_entries[Slot(t)].filled

SameAccess(t, a, s) ==
  sq_entries[Slot(t)].addr = a /\ sq_entries[Slot(t)].mem_size = s

\* Store t has its address, and leaves the access alone.
Apart(t, a, s) ==
  /\ Filled(t)
  /\ Bytes(sq_entries[Slot(t)].addr, sq_entries[Slot(t)].mem_size)
       \cap Bytes(a, s) = {}

ClearBefore(n, a, s) == \A w \in HeldStores : Age(w) < n => Apart(w, a, s)

\* An instruction of age n reads v from the s bytes at a: from the youngest
\* store in front of it that holds them, or from the memory.
LoadSees(n, a, s, v) ==
  \/ ClearBefore(n, a, s) /\ v = MemRead(mem, a, s)
  \/ \E u \in HeldStores :
       /\ Age(u) < n /\ Filled(u) /\ SameAccess(u, a, s)
       /\ v = Trim(sq_entries[Slot(u)].value, s)
       /\ \A w \in HeldStores :
            Age(u) < Age(w) /\ Age(w) < n => Apart(w, a, s)

\* The slot of a store holds what its operands say.
StoreGood(t) ==
  Filled(t) =>
    \E v1, v2 \in Value :
      /\ ReadsBoth(Age(t), Word(t), v1, v2)
      /\ sq_entries[Slot(t)].addr = address(Word(t), v1)
      /\ sq_entries[Slot(t)].mem_size = Word(t).size
      /\ sq_entries[Slot(t)].value = v2

StoresGood == \A t \in HeldStores : StoreGood(t)

\* The load of unit f waits for the stores in front of it.  The limit of its
\* search may be the head of the queue only in the cycle after the last of
\* them has left.
LoadWaits(f) ==
  LET e == lq_entries[f]
      w == working[f]
      t == rs_entries[f].T_dest
  IN  /\ e.valid
      /\ e.filled => /\ OperandsIn(f)
                     /\ e.addr = address(w.inst, w.rs_value[1])
                     /\ e.mem_size = w.inst.size
      /\ e.sq_pos = NO_SQ_POS =>
           \/ e.filled /\ ClearBefore(Age(t), e.addr, e.mem_size)
           \/ \A u \in HeldStores : ~(Age(u) < Age(t))
      /\ e.sq_pos # NO_SQ_POS =>
           e.sq_pos = Slot(t) /\ (Rank(t) = 0 => sq_rob_valid)
      /\ lq_retire_valid[f] =>
           e.filled /\ LoadSees(Age(t), e.addr, e.mem_size,
                                Trim(lq_value[f], e.mem_size))

LoadsWait ==
  /\ \A f \in busy : rd_mem(working[f].inst) => LoadWaits(f)
  /\ \A f \in FU_LS :
       lq_entries[f].valid /\ ~lq_retire_valid[f] =>
         f \in busy /\ rd_mem(working[f].inst)

-----------------------------------------------------------------------------
(* What an entry that has completed says.                                  *)

ResultSays(e, i, n, v1, v2) ==
  /\ e.branch_target = next_pc(i, e.PC, v1, v2)
  /\ uncond_branch(i) => e.value = NPC(e.PC)
  /\ rd_mem(i) => LoadSees(n, address(i, v1), i.size, e.value)
  /\ dest_reg_idx(i) # ZERO_REG /\ ~uncond_branch(i) /\ ~rd_mem(i) =>
       e.value = alu_result(i, v1, v2)

ResultGood(t) ==
  \E v1, v2 \in Value : /\ ReadsBoth(Age(t), Word(t), v1, v2)
                        /\ ResultSays(rob_entries[t], Word(t), Age(t), v1, v2)

ResultsGood == \A t \in Live : rob_entries[t].ready => ResultGood(t)

ValuesGood ==
  StationsGood /\ StoresGood /\ LoadsWait /\ ResultsGood


-----------------------------------------------------------------------------
(* Registers.                                                              *)

LEMMA NumbersAre ==
  ASSUME Typed
  PROVE  /\ Left \in 0 .. 2 /\ Left <= rob_counter /\ rob_counter \in Nat
         /\ rob_counter <= ROB_SIZE /\ ROB_SIZE \in Nat
         /\ \A t \in RobIdx : Age(t) \in Nat
         /\ \A t \in RobIdx : t \in Live <=> Age(t) < rob_counter
         /\ \A t \in RobIdx : Leaves(t) <=> Age(t) < Left
         /\ \A r : Writers(r) \in SUBSET Live
         /\ Live \in SUBSET RobIdx
BY LeavesAre, EntriesAre, AgeIs, CoreAssumption DEF Typed, Writers, Live

\* What the retiring instructions leave in a register.
LEMMA RegisterMoves ==
  ASSUME Typed, NEW grant, NEW slow, NEW late, Moves(grant, slow, late),
         NEW r \in Reg \ {ZERO_REG}
  PROVE  /\ registers'[r]
              = IF Leaves_1 /\ SecondEntry.dest_reg_idx = r
                THEN SecondEntry.value
                ELSE IF Leaves_0 /\ HeadEntry.dest_reg_idx = r
                THEN HeadEntry.value ELSE registers[r]
         /\ rd_out(Write_0, Write_1, r) = registers'[r]
<1>1. RegStep(Write_0, Write_1) /\ ~halt
  BY StepsAre DEF Moves
<1>2. /\ Writes(Write_0, r) <=> Leaves_0 /\ HeadEntry.dest_reg_idx = r
      /\ Writes(Write_1, r) <=> Leaves_1 /\ SecondEntry.dest_reg_idx = r
      /\ Write_0.dest_value = HeadEntry.value
      /\ Write_1.dest_value = SecondEntry.value
  BY <1>1 DEF Writes, Write_0, Write_1, rob_reg_0, rob_reg_1, RegWrite,
              Leaves_0, Leaves_1
<1>. QED  BY <1>1, <1>2 DEF RegStep, rd_out

\* Writers of less age than n, after the cycle.
LEMMA WritersBefore ==
  ASSUME Typed, FrontGood, ~Phantoms,
         NEW grant, NEW slow, NEW late, Moves(grant, slow, late),
         ~squash(sq_rob_valid), NEW r \in Reg \ {ZERO_REG}, NEW t \in RobIdx,
         NEW n \in Int, n <= rob_counter, NEW m, m = n - Left
  PROVE  t \in Writers(r)' /\ Age(t)' < m <=>
           t \in Writers(r) /\ ~Leaves(t) /\ Age(t) < n
<1>1. /\ Left \in Int /\ rob_counter \in Int /\ Age(t) \in Int
      /\ t \in Writers(r) => t \in Live
  BY NumbersAre
<1>2. t \in Writers(r)' <=> \/ t \in Writers(r) /\ ~Leaves(t)
                            \/ Renamed_0(grant) = r /\ t = rob_tail
                            \/ Renamed_1(grant) = r /\ t = rob_tail_plus_1
  BY WritersMove
<1>3. /\ Renamed_0(grant) = r => Enters_0(grant)
      /\ Renamed_1(grant) = r => Enters_1(grant)
  BY RenamedAre
<1>4. /\ Enters_0(grant) /\ t = rob_tail => Age(t)' = rob_counter - Left
      /\ Enters_1(grant) /\ t = rob_tail_plus_1 =>
           Age(t)' = rob_counter - Left + 1
      /\ t \in Live /\ ~Leaves(t) => Age(t)' = Age(t) - Left
  BY AgeMoves
<1>5. /\ Enters_0(grant) => rob_tail \notin Live
      /\ Enters_1(grant) => rob_tail_plus_1 \notin Live
  BY RoomIs DEF Typed
<1>. QED  BY <1>1, <1>2, <1>3, <1>4, <1>5

LEMMA SourceMoves ==
  ASSUME Typed, FrontGood, ~Phantoms,
         NEW grant, NEW slow, NEW late, Moves(grant, slow, late),
         ~squash(sq_rob_valid), NEW r \in Reg \ {ZERO_REG},
         NEW n \in Int, n <= rob_counter, NEW m, m = n - Left,
         NEW w \in RobIdx, SourceAt(n, r, w), ~Leaves(w)
  PROVE  SourceAt(m, r, w)'
<1>1. w \in Writers(r) /\ Age(w) < n
      /\ \A u \in Writers(r) : Age(u) < n => Age(u) <= Age(w)
  BY DEF SourceAt
<1>2. w \in Writers(r)' /\ Age(w)' < m
  BY <1>1, WritersBefore
<1>3. /\ Left \in Int /\ \A t \in RobIdx : Age(t) \in Int
      /\ Writers(r) \in SUBSET Live
  BY NumbersAre
<1>4. ASSUME NEW u \in RobIdx, u \in Writers(r)', Age(u)' < m
      PROVE  Age(u)' <= Age(w)'
  <2>1. u \in Writers(r) /\ ~Leaves(u) /\ Age(u) < n
    BY <1>4, WritersBefore
  <2>2. Age(u)' = Age(u) - Left /\ Age(w)' = Age(w) - Left
    BY <1>1, <1>3, <2>1, AgeMoves
  <2>. QED  BY <1>1, <1>3, <2>1, <2>2
<1>5. \A u \in Writers(r)' : u \in RobIdx
  BY DEF Writers, Live, RobIdx
<1>. QED  BY <1>2, <1>4, <1>5 DEF SourceAt

LEMMA NoSourceMoves ==
  ASSUME Typed, FrontGood, ~Phantoms,
         NEW grant, NEW slow, NEW late, Moves(grant, slow, late),
         ~squash(sq_rob_valid), NEW r \in Reg \ {ZERO_REG},
         NEW n \in Int, n <= rob_counter, Left <= n, NEW m, m = n - Left
  PROVE  /\ NoSourceAt(n, r) =>
              NoSourceAt(m, r)' /\ registers'[r] = registers[r]
         /\ \A w \in RobIdx : SourceAt(n, r, w) /\ Leaves(w) =>
              NoSourceAt(m, r)' /\ registers'[r] = rob_entries[w].value
<1>1. /\ Left \in Int /\ \A t \in RobIdx : Age(t) \in Int
      /\ \A t \in RobIdx : Leaves(t) <=> Age(t) < Left
      /\ Writers(r) \in SUBSET RobIdx
  BY NumbersAre
<1>2. \A u \in RobIdx : u \in Writers(r)' /\ Age(u)' < m <=>
                          u \in Writers(r) /\ ~Leaves(u) /\ Age(u) < n
  BY WritersBefore
<1>3. \A u \in Writers(r)' : u \in RobIdx
  BY DEF Writers, Live, RobIdx
<1>4. /\ Leaves_0 => rob_head \in Live /\ Leaves(rob_head)
      /\ Leaves_1 => rob_head_plus_1 \in Live /\ Leaves(rob_head_plus_1)
      /\ Leaves_1 => Leaves_0
  BY LeavesAre DEF Leaves, Retired, Leaves_0, Leaves_1
<1>5. /\ Leaves_0 /\ HeadEntry.dest_reg_idx = r <=>
           Leaves_0 /\ rob_head \in Writers(r)
      /\ Leaves_1 /\ SecondEntry.dest_reg_idx = r <=>
           Leaves_1 /\ rob_head_plus_1 \in Writers(r)
  BY <1>4 DEF Writers, HeadEntry, SecondEntry
<1>6. /\ Age(rob_head) = 0 /\ Age(rob_head_plus_1) = 1
      /\ rob_head \in RobIdx /\ rob_head_plus_1 \in RobIdx
  BY AgeIs, EntriesAre DEF Typed
<1>7. registers'[r]
              = IF Leaves_1 /\ SecondEntry.dest_reg_idx = r
                THEN SecondEntry.value
                ELSE IF Leaves_0 /\ HeadEntry.dest_reg_idx = r
                THEN HeadEntry.value ELSE registers[r]
  BY RegisterMoves
<1>8. ASSUME NoSourceAt(n, r)
      PROVE  NoSourceAt(m, r)' /\ registers'[r] = registers[r]
  <2>1. NoSourceAt(m, r)'
    BY <1>2, <1>3, <1>8 DEF NoSourceAt
  <2>2. Leaves_0 => rob_head \notin Writers(r)
    BY <1>1, <1>4, <1>6, <1>8 DEF NoSourceAt
  <2>3. Leaves_1 => rob_head_plus_1 \notin Writers(r)
    BY <1>1, <1>4, <1>6, <1>8 DEF NoSourceAt
  <2>. QED  BY <1>5, <1>7, <2>1, <2>2, <2>3
<1>9. ASSUME NEW w \in RobIdx, SourceAt(n, r, w), Leaves(w)
      PROVE  NoSourceAt(m, r)' /\ registers'[r] = rob_entries[w].value
  <2>1. w \in Writers(r) /\ Age(w) < Left
        /\ \A u \in Writers(r) : Age(u) < n => Age(u) <= Age(w)
    BY <1>1, <1>9 DEF SourceAt
  <2>2. NoSourceAt(m, r)'
    BY <1>1, <1>2, <1>3, <2>1 DEF NoSourceAt
  <2>3. CASE w = rob_head_plus_1
    <3>1. Leaves_1
      BY <1>6, <1>9, <2>3, SuccIs, EntriesAre
         DEF Leaves, Retired, Leaves_1, Leaves_0, rob_head_plus_1
    <3>. QED  BY <1>5, <1>7, <2>1, <2>2, <2>3, <3>1 DEF SecondEntry
  <2>4. CASE w # rob_head_plus_1
    <3>1. w = rob_head /\ Leaves_0
      BY <1>9, <2>4 DEF Leaves, Retired, Leaves_0
    <3>2. ~(Leaves_1 /\ rob_head_plus_1 \in Writers(r))
      BY <1>1, <1>4, <1>6, <2>1, <3>1
    <3>. QED  BY <1>5, <1>7, <2>1, <2>2, <3>1, <3>2 DEF HeadEntry
  <2>. QED  BY <2>3, <2>4
<1>. QED  BY <1>8, <1>9

\* What is read stays the same while time goes by.
LEMMA ReadsMove ==
  ASSUME Typed, FrontGood, Loads, ~Phantoms, UnitsWork,
         NEW grant, NEW slow, NEW late, Moves(grant, slow, late),
         ~squash(sq_rob_valid), NEW r \in Reg,
         NEW n \in Int, n <= rob_counter, Left <= n, NEW m, m = n - Left,
         NEW v, Reads(n, r, v)
  PROVE  Reads(m, r, v)'
<1>1. CASE r = ZERO_REG
  BY <1>1 DEF Reads
<1>2. CASE r # ZERO_REG /\ NoSourceAt(n, r) /\ v = registers[r]
  BY <1>2, NoSourceMoves DEF Reads
<1>3. ASSUME r # ZERO_REG, NEW w \in RobIdx, SourceAt(n, r, w),
             rob_entries[w].ready, v = rob_entries[w].value
      PROVE  Reads(m, r, v)'
  <2>1. CASE Leaves(w)
    BY <1>3, <2>1, NoSourceMoves DEF Reads
  <2>2. CASE ~Leaves(w)
    <3>1. SourceAt(m, r, w)'
      BY <1>3, <2>2, SourceMoves
    <3>2. w \in Live /\ grant \in Grants(Requests)
      BY <1>3 DEF SourceAt, Writers, Moves
    <3>3. rob_entries'[w] = rob_entries[w]
      BY <1>3, <2>2, <3>2, EntryMoves, UpdatedIs, FinishesIs
    <3>4. w \in RobIdx'
      BY DEF RobIdx
    <3>. QED  BY <1>3, <3>1, <3>3, <3>4 DEF Reads
  <2>. QED  BY <2>1, <2>2
<1>. QED  BY <1>1, <1>2, <1>3 DEF Reads

-----------------------------------------------------------------------------
(* Operands.                                                               *)

\* A station hears the result it waits for ...
LEMMA HeardResults ==
  ASSUME Typed, Loads, UnitsWork, NEW grant \in Grants(Requests), NEW info,
         ~info.V_ready, Finishes(grant, info.tag)
  PROVE  /\ AfterResults(grant, info).V_ready
         /\ AfterResults(grant, info).V = Updated(grant, info.tag).value
<1>1. PICK g \in Freed(grant) : /\ rs_entries[g].T_dest = info.tag
                                /\ rs_cdb(g, lsq_fu) \in CdbEntry
                                /\ Updated(grant, info.tag)
                                     = Complete(rob_entries[info.tag],
                                                rs_cdb(g, lsq_fu))
  BY FinishesIs, UpdatedIs
<1>2. info.tag \in Live
  BY FinishesIs
<1>3. Updated(grant, info.tag).value = rs_cdb(g, lsq_fu).value
  BY <1>1, <1>2, CompleteIs, EntriesAre DEF Live, Typed
<1>4. /\ Granted(grant[1]) /\ Granted(grant[2])
      /\ grant[1] \cap grant[2] = {}
  BY GrantIs
<1>5. \A s : Granted(s) =>
        /\ Carried(s).valid <=> s # {}
        /\ \A f \in s : Carried(s) = rs_cdb(f, lsq_fu)
        /\ \A f \in s : Carried(s).tag = rs_entries[f].T_dest
  BY CarriedIs
<1>6. \A f \in Freed(grant) : rs_entries[f].T_dest = info.tag => f = g
  BY <1>1, FreedIs DEF UnitsWork
<1>7. ASSUME NEW s, Granted(s), s \subseteq Freed(grant)
      PROVE  /\ g \in s => /\ Heard(info, Carried(s)).V_ready
                           /\ Heard(info, Carried(s)).V
                                = rs_cdb(g, lsq_fu).value
             /\ g \notin s => Heard(info, Carried(s)) = info
  BY <1>1, <1>5, <1>6, <1>7 DEF Heard
<1>8. \A i, c : i.V_ready => Heard(i, c) = i
  BY DEF Heard
<1>9. grant[1] \subseteq Freed(grant) /\ grant[2] \subseteq Freed(grant)
      /\ (g \in grant[1] \/ g \in grant[2])
  BY <1>1 DEF Freed
<1>. QED  BY <1>3, <1>4, <1>7, <1>8, <1>9 DEF AfterResults

\* ... and nothing else.
LEMMA HeardNothing ==
  ASSUME Typed, NEW grant \in Grants(Requests), NEW info,
         info.V_ready \/ ~Finishes(grant, info.tag)
  PROVE  AfterResults(grant, info) = info
<1>1. Granted(grant[1]) /\ Granted(grant[2])
  BY GrantIs
<1>2. \A s : Granted(s) =>
        /\ Carried(s).valid <=> s # {}
        /\ \A f \in s : Carried(s).tag = rs_entries[f].T_dest
  BY CarriedIs
<1>3. ASSUME NEW s, Granted(s), s \subseteq Freed(grant)
      PROVE  Heard(info, Carried(s)) = info
  BY <1>2, <1>3 DEF Heard, Finishes
<1>. QED  BY <1>1, <1>3 DEF AfterResults, Freed

\* What is known of an operand stays true under a cycle.
LEMMA InfoMoves ==
  ASSUME Typed, FrontGood, Loads, ~Phantoms, UnitsWork,
         NEW grant, NEW slow, NEW late, Moves(grant, slow, late),
         ~squash(sq_rob_valid), NEW r \in Reg,
         NEW n \in Int, n <= rob_counter, Left <= n, NEW m, m = n - Left,
         NEW info, InfoGood(info, n, r),
         NEW o, o = AfterResults(grant, info)
  PROVE  InfoGood(o, m, r)'
<1>1. grant \in Grants(Requests)
  BY DEF Moves
<1>2. CASE info.V_ready
  <2>1. o = info /\ Reads(n, r, o.V)
    BY <1>1, <1>2, HeardNothing DEF InfoGood
  <2>2. Reads(m, r, o.V)'
    BY <2>1, ReadsMove
  <2>. QED  BY <1>2, <2>1, <2>2 DEF InfoGood
<1>3. CASE ~info.V_ready /\ ~Finishes(grant, info.tag)
  <2>1. o = info /\ r # ZERO_REG /\ SourceAt(n, r, info.tag)
    BY <1>1, <1>3, HeardNothing DEF InfoGood
  <2>2. PICK w \in RobIdx : w = info.tag /\ w \in Writers(r)
    BY <2>1 DEF SourceAt, Writers, Live
  <2>3. ~rob_entries[w].ready /\ w \in Live
    BY <1>3, <2>2, NumbersAre DEF InfoGood
  <2>4. ~Leaves(w) /\ ~rob_entries'[w].ready
    BY <1>1, <1>3, <2>2, <2>3, LeavesAre, EntryMoves, UpdatedIs
       DEF Leaves, Retired, Leaves_0, Leaves_1, HeadEntry, SecondEntry
  <2>5. SourceAt(m, r, w)'
    BY <2>1, <2>2, <2>4, SourceMoves
  <2>. QED  BY <1>3, <2>1, <2>2, <2>4, <2>5 DEF InfoGood
<1>4. CASE ~info.V_ready /\ Finishes(grant, info.tag)
  <2>1. r # ZERO_REG /\ SourceAt(n, r, info.tag)
    BY <1>4 DEF InfoGood
  <2>2. PICK w \in RobIdx : w = info.tag /\ w \in Live
    BY <2>1 DEF SourceAt, Writers, Live
  <2>3. ~rob_entries[w].ready
    BY <1>1, <1>4, <2>2, FinishesIs
  <2>4. ~Leaves(w)
    BY <2>3, LeavesAre
       DEF Leaves, Retired, Leaves_0, Leaves_1, HeadEntry, SecondEntry
  <2>5. SourceAt(m, r, w)'
    BY <2>1, <2>2, <2>4, SourceMoves
  <2>6. rob_entries'[w] = Updated(grant, w) /\ Updated(grant, w).ready
    BY <1>1, <1>4, <2>2, <2>4, EntryMoves, UpdatedKeeps
  <2>7. o.V_ready /\ o.V = Updated(grant, w).value
    BY <1>1, <1>4, <2>2, HeardResults
  <2>8. w \in RobIdx'
    BY DEF RobIdx
  <2>. QED  BY <2>1, <2>5, <2>6, <2>7, <2>8 DEF InfoGood, Reads
<1>. QED  BY <1>2, <1>3, <1>4

\* The map table names what the next instruction reads.
LEMMA TagIsSource ==
  ASSUME Typed, Renames, NEW r \in Reg \ {ZERO_REG}
  PROVE  /\ Tag[r] = ZERO_TAG => NoSourceAt(rob_counter, r)
         /\ Tag[r] # ZERO_TAG =>
              /\ Tag[r] \in RobIdx /\ SourceAt(rob_counter, r, Tag[r])
              /\ ready_in_ROB[r] = rob_entries[Tag[r]].ready
<1>1. RenamesYoungestOf(r)
  BY DEF Renames
<1>2. ZERO_TAG \notin RobIdx /\ Writers(r) \in SUBSET Live
      /\ Live \in SUBSET RobIdx /\ \A t \in Live : Age(t) < rob_counter
  BY CoreAssumption, NumbersAre DEF RobIdx
<1>. QED  BY <1>1, <1>2 DEF RenamesYoungestOf, NoSourceAt, SourceAt

\* What a slot gets for an operand, when the other slot does not rename it.
LEMMA LookupGood ==
  ASSUME Typed, FrontGood, Loads, ~Phantoms, UnitsWork, Renames,
         NEW grant, NEW slow, NEW late, Moves(grant, slow, late),
         ~squash(sq_rob_valid), NEW i \in Decoded, NEW k \in 1 .. 2,
         NEW r, r = input_reg_idx(i, k),
         NEW mt, mt = Lookup_0(Mt_0, Mt_1, r),
         NEW info, info = Operand(i, k, mt, rd_out(Write_0, Write_1, r),
                                  rob_value(mt.tag)),
         NEW o, o = AfterResults(grant, info),
         NEW m, m = rob_counter - Left
  PROVE  InfoGood(o, m, r)'
<1>1. r \in Reg /\ grant \in Grants(Requests)
  BY SourceIs DEF Moves
<1>2. rob_counter \in Int /\ Left <= rob_counter /\ rob_counter <= rob_counter
  BY NumbersAre
<1>3. CASE k \notin req_reg(i)
  <2>1. r = ZERO_REG /\ info.V_ready /\ info.V = 0
    BY <1>3 DEF input_reg_idx, Operand, ZERO_REG
  <2>2. o = info
    BY <1>1, <2>1, HeardNothing
  <2>. QED  BY <2>1, <2>2 DEF InfoGood, Reads
<1>4. CASE k \in req_reg(i) /\ mt.tag = ZERO_TAG
  <2>1. info.V_ready /\ info.V = rd_out(Write_0, Write_1, r)
    BY <1>4 DEF Operand
  <2>2. o = info
    BY <1>1, <2>1, HeardNothing
  <2>3. CASE r = ZERO_REG
    BY <2>1, <2>2, <2>3 DEF InfoGood, Reads, rd_out
  <2>4. CASE r # ZERO_REG
    <3>1. info.V = registers'[r]
      BY <1>1, <2>1, <2>4, RegisterMoves
    <3>2. CASE Tag[r] = ZERO_TAG
      <4>1. NoSourceAt(rob_counter, r)
        BY <1>1, <2>4, <3>2, TagIsSource
      <4>2. NoSourceAt(m, r)'
        BY <1>1, <1>2, <2>4, <4>1, NoSourceMoves
      <4>. QED  BY <2>1, <2>2, <2>4, <3>1, <4>2 DEF InfoGood, Reads
    <3>3. CASE Tag[r] # ZERO_TAG
      <4>1. Cleared(Mt_0, Mt_1, r)
        BY <1>4, <3>3 DEF Lookup_0
      <4>2. Leaves(Tag[r])
        BY <1>1, <2>4, <4>1, ClearedIs DEF Renames, Moves
      <4>3. Tag[r] \in RobIdx /\ SourceAt(rob_counter, r, Tag[r])
        BY <1>1, <2>4, <3>3, TagIsSource
      <4>4. NoSourceAt(m, r)'
        BY <1>1, <1>2, <2>4, <4>2, <4>3, NoSourceMoves
      <4>. QED  BY <2>1, <2>2, <2>4, <3>1, <4>4 DEF InfoGood, Reads
    <3>. QED  BY <3>2, <3>3
  <2>. QED  BY <2>3, <2>4
<1>5. CASE k \in req_reg(i) /\ mt.tag # ZERO_TAG
  <2>1. /\ mt.tag = Tag[r] /\ mt.ready = ready_in_ROB[r]
        /\ info.tag = mt.tag /\ info.V = rob_entries[mt.tag].value
        /\ info.V_ready = mt.ready
    BY <1>5 DEF Lookup_0, Operand, rob_value
  <2>2. r # ZERO_REG
    BY <1>5, <2>1 DEF Renames
  <2>3. /\ Tag[r] \in RobIdx /\ SourceAt(rob_counter, r, Tag[r])
        /\ ready_in_ROB[r] = rob_entries[Tag[r]].ready
    BY <1>1, <1>5, <2>1, <2>2, TagIsSource
  <2>4. InfoGood(info, rob_counter, r)
    BY <2>1, <2>2, <2>3 DEF InfoGood, Reads
  <2>. QED  BY <1>1, <1>2, <2>4, InfoMoves
<1>. QED  BY <1>3, <1>4, <1>5

\* One instruction further on, behind one that does not write the register.
LEMMA InfoBehind ==
  ASSUME Typed, FrontGood, ~Phantoms,
         NEW grant, NEW slow, NEW late, Moves(grant, slow, late),
         ~squash(sq_rob_valid), NEW r \in Reg,
         r = ZERO_REG \/ Renamed_0(grant) # r,
         NEW m, m = rob_counter - Left, NEW o, InfoGood(o, m, r)'
  PROVE  InfoGood(o, m + 1, r)'
<1>1. CASE r = ZERO_REG
  BY <1>1 DEF InfoGood, Reads
<1>2. CASE r # ZERO_REG
  <2>1. /\ Left \in Int /\ rob_counter \in Int
        /\ \A t \in RobIdx : Age(t) \in Int
        /\ \A t \in Live : Age(t) < rob_counter
        /\ Writers(r) \in SUBSET Live /\ Live \in SUBSET RobIdx
    BY NumbersAre
  <2>2. ASSUME NEW u \in RobIdx, u \in Writers(r)'
        PROVE  Age(u)' < m + 1 <=> Age(u)' < m
    <3>1. \/ u \in Writers(r) /\ ~Leaves(u)
          \/ Renamed_1(grant) = r /\ u = rob_tail_plus_1
      BY <1>2, <2>2, WritersMove
    <3>2. CASE u \in Writers(r) /\ ~Leaves(u)
      <4>1. Age(u)' = Age(u) - Left /\ Age(u) < rob_counter
        BY <2>1, <3>2, AgeMoves
      <4>. QED  BY <2>1, <4>1
    <3>3. CASE Renamed_1(grant) = r /\ u = rob_tail_plus_1
      <4>1. Age(u)' = rob_counter - Left + 1
        BY <1>2, <3>3, RenamedAre, AgeMoves
      <4>. QED  BY <2>1, <4>1
    <3>. QED  BY <3>1, <3>2, <3>3
  <2>3. \A u \in Writers(r)' : u \in RobIdx
    BY DEF Writers, Live, RobIdx
  <2>4. NoSourceAt(m, r)' <=> NoSourceAt(m + 1, r)'
    BY <2>2, <2>3 DEF NoSourceAt
  <2>5. \A w : SourceAt(m, r, w)' <=> SourceAt(m + 1, r, w)'
    BY <2>2, <2>3 DEF SourceAt
  <2>6. \A v : Reads(m, r, v)' => Reads(m + 1, r, v)'
    BY <1>2, <2>4, <2>5 DEF Reads
  <2>. QED  BY <2>5, <2>6 DEF InfoGood
<1>. QED  BY <1>1, <1>2

LEMMA SlotOperand_0 ==
  ASSUME Typed, FrontGood, Loads, ~Phantoms, UnitsWork, Renames,
         NEW grant, NEW slow, NEW late, Moves(grant, slow, late),
         ~squash(sq_rob_valid), NEW k \in 1 .. 2,
         NEW r, r = input_reg_idx(id_packet_out_0.inst, k),
         NEW o, o = AfterResults(grant, Station_0.rs_entry_info[k]),
         NEW m, m = rob_counter - Left
  PROVE  InfoGood(o, m, r)'
<1>1. id_packet_out_0.inst \in Decoded
  BY DEF Typed, FrontTyped, Packet
<1>2. Station_0.rs_entry_info[k]
        = LET mt == Lookup_0(Mt_0, Mt_1, r)
          IN  Operand(id_packet_out_0.inst, k, mt,
                      rd_out(Write_0, Write_1, r), rob_value(mt.tag))
  BY DEF Station_0, Station, Asked_0
<1>. QED  BY <1>1, <1>2, LookupGood

LEMMA SlotOperand_1 ==
  ASSUME Typed, FrontGood, Loads, ~Phantoms, UnitsWork, Renames,
         NEW grant, NEW slow, NEW late, Moves(grant, slow, late),
         ~squash(sq_rob_valid), NEW k \in 1 .. 2,
         NEW r, r = input_reg_idx(id_packet_out_1.inst, k),
         NEW o, o = AfterResults(grant, Station_1(grant).rs_entry_info[k]),
         NEW m, m = rob_counter - Left
  PROVE  InfoGood(o, m + 1, r)'
<1>1. id_packet_out_1.inst \in Decoded /\ r \in Reg
      /\ grant \in Grants(Requests)
  BY SourceIs DEF Typed, FrontTyped, Packet, Moves
<1>2. PICK mt : mt = Lookup_1(Mt_0, Mt_1, Renamed_0(grant), r)
  OBVIOUS
<1>3. PICK info : info = Operand(id_packet_out_1.inst, k, mt,
                                 rd_out(Write_0, Write_1, r),
                                 rob_value(mt.tag))
  OBVIOUS
<1>4. o = AfterResults(grant, info)
  BY <1>2, <1>3 DEF Station_1, Station, Asked_1
<1>5. CASE r # ZERO_REG /\ Renamed_0(grant) = r /\ k \in req_reg(id_packet_out_1.inst)
  <2>1. mt.tag = rob_tail /\ ~mt.ready
    BY <1>2, <1>5, WritesAre DEF Lookup_1, Typed
  <2>2. rob_tail \in RobIdx /\ rob_tail # ZERO_TAG
    BY CoreAssumption, EntriesAre DEF Typed, RobIdx
  <2>3. info.tag = rob_tail /\ ~info.V_ready
    BY <1>3, <1>5, <2>1, <2>2 DEF Operand
  <2>4. Enters_0(grant) /\ rob_tail \notin Live
    BY <1>1, <1>5, RenamedAre, RoomIs DEF Typed
  <2>5. o = info
    BY <1>1, <1>4, <2>3, <2>4, HeardNothing, FinishesIs
  <2>6. PICK w \in RobIdx : w = rob_tail
    BY <2>2
  <2>7. w \in Writers(r)' /\ Age(w)' = m /\ ~rob_entries'[w].ready
    BY <1>1, <1>5, <2>4, <2>6, WritersMove, AgeMoves, EntryMoves, NewEntryIs
  <2>8. \A u \in Writers(r)' : u \in RobIdx /\ Age(u)' \in Int
    <3>1. \A u \in Writers(r)' : u \in RobIdx
      BY DEF Writers, Live, RobIdx
    <3>2. rob_head' \in Int /\ ROB_SIZE \in Int
      BY TypedMoves, CoreAssumption DEF Typed, RobInv, RobTypeOK, RobIdx
    <3>3. \A u \in RobIdx : Age(u)' \in Int
      BY <3>2 DEF Age, RobIdx
    <3>. QED  BY <3>1, <3>3
  <2>9. m \in Int
    BY NumbersAre
  <2>10. SourceAt(m + 1, r, w)'
    BY <2>7, <2>8, <2>9 DEF SourceAt
  <2>. QED  BY <1>5, <2>3, <2>5, <2>6, <2>7, <2>10 DEF InfoGood
<1>6. CASE ~(r # ZERO_REG /\ Renamed_0(grant) = r)
  <2>1. mt = Lookup_0(Mt_0, Mt_1, r)
    BY <1>2, <1>6 DEF Lookup_1
  <2>2. InfoGood(o, m, r)'
    BY <1>1, <1>3, <1>4, <2>1, LookupGood
  <2>. QED  BY <1>1, <1>6, <2>2, InfoBehind
<1>7. CASE k \notin req_reg(id_packet_out_1.inst)
  <2>1. r = ZERO_REG
    BY <1>7 DEF input_reg_idx, ZERO_REG
  <2>. QED  BY <1>6, <2>1
<1>. QED  BY <1>5, <1>6, <1>7

\* What the station of a unit holds after a cycle.
LEMMA OperandMoves ==
  ASSUME Typed, FrontGood, Loads, ~Phantoms, UnitsWork, Renames, StationsGood,
         NEW grant, NEW slow, NEW late, Moves(grant, slow, late),
         ~squash(sq_rob_valid), NEW f \in busy', NEW k \in 1 .. 2
  PROVE  OperandGood(f, k)'
<1>1. grant \in Grants(Requests) /\ f \in Fu
      /\ rs_entries' = NextOf(grant)
  BY RsTypeMoves, StepRsIs DEF Moves, RsTyped
<1>2. PICK o : o = rs_entries'[f].rs_entry_info[k]
  OBVIOUS
<1>3. PICK r : r = input_reg_idx(working'[f].inst, k)
  OBVIOUS
<1>4. PICK d : d = rs_entries'[f].T_dest
  OBVIOUS
<1>10. PICK m : m = Age(d)'
  OBVIOUS
<1>5. SUFFICES InfoGood(o, m, r)'
  BY <1>2, <1>3, <1>4, <1>10 DEF OperandGood, AgeOf
<1>6. f \in busy \ Freed(grant) \/ f \in Taken_0(grant) \/ f \in Taken_1(grant)
  BY <1>1, UnitMoves
<1>7. CASE f \in busy \ Freed(grant)
  <2>1. PICK t \in RobIdx : t = rs_entries[f].T_dest /\ t \in Waiting
    BY <1>7, NumbersAre DEF UnitsWork, Waiting
  <2>2. t \in Live /\ ~Leaves(t)
    BY <2>1, LeavesAre DEF Waiting, Leaves, Retired, Leaves_0, Leaves_1,
                           HeadEntry, SecondEntry
  <2>3. m = Age(t) - Left
    BY <1>1, <1>4, <1>10, <1>7, <2>1, <2>2, StationMoves, AgeMoves
  <2>4. r = input_reg_idx(working[f].inst, k) /\ r \in Reg
    BY <1>1, <1>3, <1>7, UnitMoves, SourceIs
       DEF KeepsWork, Typed, RsTyped, WorkingType
  <2>5. InfoGood(rs_entries[f].rs_entry_info[k], Age(t), r)
    BY <1>7, <2>1, <2>4 DEF StationsGood, OperandGood, AgeOf
  <2>6. o = AfterResults(grant, rs_entries[f].rs_entry_info[k])
    BY <1>1, <1>2, <1>7, NextInfoIs
  <2>7. /\ Age(t) \in Int /\ Age(t) <= rob_counter /\ Left <= Age(t)
        /\ Left \in Int
    BY <2>2, NumbersAre
  <2>. QED  BY <1>1, <2>3, <2>4, <2>5, <2>6, <2>7, InfoMoves
<1>8. CASE f \in Taken_0(grant)
  <2>1. Enters_0(grant) /\ rob_tail \in RobIdx
    BY <1>8, StartsAre, StartsEnter, EntriesAre DEF Takes, Typed
  <2>2. m = rob_counter - Left
    BY <1>1, <1>4, <1>10, <1>8, <2>1, StationMoves, AgeMoves
  <2>3. r = input_reg_idx(id_packet_out_0.inst, k)
    BY <1>1, <1>3, <1>8, UnitMoves DEF GetsWork
  <2>4. o = AfterResults(grant, Station_0.rs_entry_info[k])
    BY <1>1, <1>2, <1>8, NextInfoIs
  <2>. QED  BY <2>2, <2>3, <2>4, SlotOperand_0
<1>9. CASE f \in Taken_1(grant)
  <2>1. Enters_1(grant) /\ rob_tail_plus_1 \in RobIdx
    BY <1>9, StartsAre, StartsEnter, EntriesAre DEF Takes, Typed
  <2>2. m = rob_counter - Left + 1
    BY <1>1, <1>4, <1>10, <1>9, <2>1, StationMoves, AgeMoves
  <2>3. r = input_reg_idx(id_packet_out_1.inst, k)
    BY <1>1, <1>3, <1>9, UnitMoves DEF GetsWork
  <2>4. o = AfterResults(grant, Station_1(grant).rs_entry_info[k])
    BY <1>1, <1>2, <1>9, NextInfoIs
  <2>. QED  BY <2>2, <2>3, <2>4, SlotOperand_1
<1>. QED  BY <1>6, <1>7, <1>8, <1>9

\* A unit takes the operands of its station, or keeps what it has.
LEMMA WorkMoves ==
  ASSUME Typed, Loads, NEW grant, NEW slow, NEW late,
         Moves(grant, slow, late), ~squash(sq_rob_valid), NEW f \in busy'
  PROVE  LET w == working'[f]
             i == rs_entries'[f].rs_entry_info
         IN  \/ /\ w.selected
                /\ w.rs_value[1] = i[1].V /\ w.rs_value[2] = i[2].V
                /\ w.rs_value_valid => i[1].V_ready /\ i[2].V_ready
             \/ /\ f \in busy \ Freed(grant)
                /\ w.rs_value = working[f].rs_value
                /\ w.rs_value_valid => working[f].rs_value_valid
<1>1. grant \in Grants(Requests) /\ f \in Fu /\ working[f] \in WorkingType
      /\ rs_entries' = NextOf(grant)
  BY RsTypeMoves, StepRsIs DEF Moves, RsTyped, Typed
<1>2. /\ Taken_0(grant) \subseteq Fu \ (busy \ Freed(grant))
      /\ Taken_1(grant) \subseteq Fu \ (busy \ Freed(grant))
      /\ Freed(grant) \subseteq busy
  BY <1>1, TakenAre, FreedIs
<1>3. f \in busy <=> Loaded(f)
  BY <1>1 DEF Loads
<1>4. f \in busy \ Freed(grant) \/ f \in Taken_0(grant) \/ f \in Taken_1(grant)
  BY <1>1, UnitMoves
<1>5. PICK info : info = NextOf(grant)[f].rs_entry_info
  OBVIOUS
<1>6. PICK freed : freed = Freed(grant)
  OBVIOUS
<1>7. CASE f \in Taken_0(grant) \/ f \in Taken_1(grant)
  <2>1. PICK p, pos : working'[f] = NextWorking(f, freed, TRUE, p, info, pos)
    <3>1. CASE f \in Taken_0(grant)
      BY <1>1, <1>5, <1>6, <3>1, StepRsIs
    <3>2. CASE f \notin Taken_0(grant)
      <4>1. working'[f] = NextWorking(f, freed, f \in Taken_1(grant),
                                      id_packet_out_1, info,
                                      storeq_pos(id_packet_out_1))
        BY <1>1, <1>5, <1>6, <3>2, StepRsIs
      <4>2. (f \in Taken_1(grant)) = TRUE
        BY <1>7, <3>2
      <4>. QED  BY <4>1, <4>2
    <3>. QED  BY <3>1, <3>2
  <2>2. f \in freed \/ ~Loaded(f)
    BY <1>2, <1>3, <1>6, <1>7
  <2>3. working'[f] = Load(p, info, pos)
    BY <2>1, <2>2 DEF NextWorking
  <2>4. /\ working'[f].selected
        /\ working'[f].rs_value = <<info[1].V, info[2].V>>
        /\ working'[f].rs_value_valid = (info[1].V_ready /\ info[2].V_ready)
    BY <2>3 DEF Load
  <2>5. working'[f].rs_value_valid => info[1].V_ready /\ info[2].V_ready
    BY <2>4, Zenon
  <2>6. /\ working'[f].rs_value[1] = info[1].V
        /\ working'[f].rs_value[2] = info[2].V
    BY <2>4
  <2>7. info = rs_entries'[f].rs_entry_info
    BY <1>1, <1>5
  <2>. QED  BY <2>4, <2>5, <2>6, <2>7, Zenon
<1>8. CASE f \in busy \ Freed(grant)
  <2>1. f \notin Taken_0(grant) /\ (f \in Taken_1(grant)) = FALSE
    BY <1>2, <1>8
  <2>2. PICK p, pos : working'[f] = NextWorking(f, freed, FALSE, p, info, pos)
    BY <1>1, <1>5, <1>6, <2>1, StepRsIs
  <2>3. f \notin freed
    BY <1>6, <1>8
  <2>4. CASE /\ Loaded(f) /\ ~working[f].rs_value_valid
             /\ info[1].V_ready /\ info[2].V_ready
    <3>1. working'[f] = [working[f] EXCEPT !.selected = TRUE,
                            !.rs_value_valid = TRUE,
                            !.rs_value = <<info[1].V, info[2].V>>]
      BY <2>2, <2>3, <2>4 DEF NextWorking
    <3>. QED  BY <1>1, <1>5, <2>4, <3>1 DEF WorkingType
  <2>5. CASE ~(/\ Loaded(f) /\ ~working[f].rs_value_valid
               /\ info[1].V_ready /\ info[2].V_ready)
    <3>1. working'[f] = [working[f] EXCEPT !.selected = FALSE]
      BY <2>2, <2>3, <2>5 DEF NextWorking
    <3>. QED  BY <1>1, <1>8, <3>1 DEF WorkingType
  <2>. QED  BY <2>4, <2>5
<1>. QED  BY <1>4, <1>7, <1>8

LEMMA WorkGoodMoves ==
  ASSUME Typed, Loads, StationsGood,
         NEW grant, NEW slow, NEW late, Moves(grant, slow, late),
         ~squash(sq_rob_valid), NEW f \in busy'
  PROVE  WorkGood(f)'
<1>1. grant \in Grants(Requests) /\ f \in Fu /\ rs_entries' = NextOf(grant)
  BY RsTypeMoves, StepRsIs DEF Moves, RsTyped
<1>2. SUFFICES ASSUME working'[f].rs_value_valid, NEW k \in 1 .. 2
               PROVE  /\ rs_entries'[f].rs_entry_info[k].V_ready
                      /\ working'[f].rs_value[k]
                           = rs_entries'[f].rs_entry_info[k].V
  BY DEF WorkGood
<1>3. CASE /\ working'[f].rs_value[1] = rs_entries'[f].rs_entry_info[1].V
           /\ working'[f].rs_value[2] = rs_entries'[f].rs_entry_info[2].V
           /\ rs_entries'[f].rs_entry_info[1].V_ready
           /\ rs_entries'[f].rs_entry_info[2].V_ready
  <2>1. k = 1 \/ k = 2
    BY <1>2
  <2>. QED  BY <1>3, <2>1
<1>4. CASE /\ f \in busy \ Freed(grant) /\ working[f].rs_value_valid
           /\ working'[f].rs_value = working[f].rs_value
  <2>1. /\ rs_entries[f].rs_entry_info[k].V_ready
        /\ working[f].rs_value[k] = rs_entries[f].rs_entry_info[k].V
    BY <1>4 DEF StationsGood, WorkGood
  <2>2. rs_entries'[f].rs_entry_info[k]
          = AfterResults(grant, rs_entries[f].rs_entry_info[k])
    BY <1>1, <1>4, NextInfoIs
  <2>. QED  BY <1>1, <1>4, <2>1, <2>2, HeardNothing
<1>. QED  BY <1>2, <1>3, <1>4, WorkMoves

LEMMA UnitGoodMoves ==
  ASSUME Typed, Loads, StationsGood,
         NEW grant, NEW slow, NEW late, Moves(grant, slow, late),
         ~squash(sq_rob_valid), NEW f \in busy'
  PROVE  UnitGood(f)'
<1>1. grant \in Grants(Requests) /\ f \in Fu
  BY RsTypeMoves DEF Moves, RsTyped
<1>2. SUFFICES ASSUME working'[f].rs_value_valid, ~working'[f].selected
               PROVE  /\ f \in FU_ALU \cup FU_MULT =>
                           unit'[f].result
                             = alu_result(working'[f].inst,
                                          working'[f].rs_value[1],
                                          working'[f].rs_value[2])
                      /\ f \in FU_BEQ =>
                           (unit'[f].result = 1 <=>
                              working'[f].rs_value[1] = working'[f].rs_value[2])
  BY DEF UnitGood
<1>3. /\ f \in busy \ Freed(grant) /\ working[f].rs_value_valid
      /\ working'[f].rs_value = working[f].rs_value
  BY <1>2, WorkMoves
<1>4. working'[f].inst = working[f].inst
  BY <1>1, <1>3, UnitMoves DEF KeepsWork
<1>5. unit'[f] = NextUnit(f) /\ unit[f] \in UnitType
  BY <1>1, StepsAre DEF RsStep, Typed, RsTyped
<1>6. UnitGood(f)
  BY <1>3 DEF StationsGood
<1>7. CASE f \in FU_BEQ
  <2>1. f \notin FU_LS /\ f \notin FU_ALU \cup FU_MULT
    BY <1>7, SelectionAssumption
  <2>. QED  BY <1>3, <1>5, <1>7, <2>1 DEF NextUnit
<1>8. CASE f \in FU_ALU
  <2>1. f \notin FU_LS /\ f \notin FU_BEQ
    BY <1>8, SelectionAssumption
  <2>. QED  BY <1>3, <1>4, <1>5, <1>8, <2>1 DEF NextUnit
<1>9. CASE f \in FU_MULT
  <2>1. f \notin FU_LS /\ f \notin FU_BEQ /\ f \notin FU_ALU
    BY <1>9, SelectionAssumption
  <2>2. CASE working[f].selected
    BY <1>3, <1>4, <1>5, <2>1, <2>2 DEF NextUnit
  <2>3. CASE ~working[f].selected
    <3>1. unit[f].result = alu_result(working[f].inst, working[f].rs_value[1],
                                      working[f].rs_value[2])
      BY <1>3, <1>6, <1>9, <2>3 DEF UnitGood
    <3>2. unit'[f].result = unit[f].result
      BY <1>3, <1>5, <2>1, <2>3 DEF NextUnit, UnitType
    <3>. QED  BY <1>3, <1>4, <2>1, <3>1, <3>2
  <2>. QED  BY <2>2, <2>3
<1>. QED  BY <1>7, <1>8, <1>9

LEMMA StationsMove ==
  ASSUME Typed, FrontGood, Loads, ~Phantoms, UnitsWork, Renames, StationsGood,
         NEW grant, NEW slow, NEW late, Moves(grant, slow, late),
         ~squash(sq_rob_valid)
  PROVE  StationsGood'
BY OperandMoves, WorkGoodMoves, UnitGoodMoves DEF StationsGood

-----------------------------------------------------------------------------
(* The memory.                                                             *)

LEMMA WordSplits ==
  ASSUME NEW v \in Value
  PROVE  (v % BYTE) + BYTE * (v \div BYTE) = v
BY WordIs DEF Value

LEMMA ReadWritten ==
  ASSUME NEW m \in MemType, NEW a \in ByteAddr, NEW s, NEW v \in Value
  PROVE  MemRead(MemWrite(m, a, s, v), a, s) = Trim(v, s)
<1>1. PICK x : x = Align(a, 2)
  OBVIOUS
<1>2. x \in ByteAddr /\ x + 1 \in ByteAddr /\ x # x + 1
  BY <1>1, AlignIs DEF ByteAddr
<1>3. CASE s = 1
  BY <1>3 DEF MemRead, MemWrite, Trim, MemType
<1>4. CASE s # 1
  <2>1. PICK w : w = [m EXCEPT ![x] = v % BYTE, ![x + 1] = v \div BYTE]
    OBVIOUS
  <2>2. w[x] = v % BYTE /\ w[x + 1] = v \div BYTE
    BY <1>2, <2>1 DEF MemType
  <2>3. MemWrite(m, a, s, v) = w
    BY <1>1, <1>4, <2>1 DEF MemWrite
  <2>4. MemRead(w, a, s) = w[x] + BYTE * w[x + 1]
    BY <1>1, <1>4 DEF MemRead
  <2>5. Trim(v, s) = v
    BY <1>4 DEF Trim
  <2>. QED  BY <2>2, <2>3, <2>4, <2>5, WordSplits
<1>. QED  BY <1>3, <1>4

LEMMA ReadApart ==
  ASSUME NEW m \in MemType, NEW a \in ByteAddr, NEW b \in ByteAddr,
         NEW s, NEW d, NEW v, Bytes(b, d) \cap Bytes(a, s) = {}
  PROVE  MemRead(MemWrite(m, b, d, v), a, s) = MemRead(m, a, s)
<1>1. PICK x, y : x = Align(a, 2) /\ y = Align(b, 2)
  OBVIOUS
<1>2. /\ x \in ByteAddr /\ x + 1 \in ByteAddr
      /\ y \in ByteAddr /\ y + 1 \in ByteAddr
  BY <1>1, AlignIs
<1>3. PICK w : w = MemWrite(m, b, d, v)
  OBVIOUS
<1>4. \A c \in ByteAddr : c \notin Bytes(b, d) => w[c] = m[c]
  <2>1. CASE d = 1
    BY <1>3, <2>1 DEF MemWrite, Bytes, MemType
  <2>2. CASE d # 1
    <3>1. w = [m EXCEPT ![y] = v % BYTE, ![y + 1] = v \div BYTE]
      BY <1>1, <1>3, <2>2 DEF MemWrite
    <3>2. Bytes(b, d) = {y, y + 1}
      BY <1>1, <2>2 DEF Bytes
    <3>. QED  BY <1>2, <3>1, <3>2 DEF MemType
  <2>. QED  BY <2>1, <2>2
<1>5. CASE s = 1
  <2>1. w[a] = m[a]
    BY <1>4, <1>5 DEF Bytes
  <2>. QED  BY <1>3, <1>5, <2>1 DEF MemRead
<1>6. CASE s # 1
  <2>1. Bytes(a, s) = {x, x + 1}
    BY <1>1, <1>6 DEF Bytes
  <2>2. w[x] = m[x] /\ w[x + 1] = m[x + 1]
    BY <1>2, <1>4, <2>1
  <2>. QED  BY <1>1, <1>3, <1>6, <2>2 DEF MemRead
<1>. QED  BY <1>5, <1>6

LEMMA TrimRead ==
  ASSUME NEW m \in MemType, NEW a \in ByteAddr, NEW s
  PROVE  Trim(MemRead(m, a, s), s) = MemRead(m, a, s)
<1>1. CASE s = 1
  <2>1. m[a] \in 0 .. BYTE - 1
    BY DEF MemType
  <2>2. m[a] % BYTE = m[a]
    BY <2>1, WordIs
  <2>. QED  BY <1>1, <2>2 DEF MemRead, Trim
<1>2. CASE s # 1
  BY <1>2 DEF Trim
<1>. QED  BY <1>1, <1>2

\* The stores in front of an instruction, after the cycle.
LEMMA HeldBefore ==
  ASSUME Typed, StoresQueued, NEW grant, NEW slow, NEW late,
         Moves(grant, slow, late), ~squash(sq_rob_valid), NEW t \in RobIdx,
         NEW n \in Int, n <= rob_counter, NEW m, m = n - Left
  PROVE  t \in HeldStores' /\ Age(t)' < m <=>
           /\ t \in HeldStores /\ ~(StoreTaken(late) /\ t = rob_head)
           /\ Age(t) < n
<1>1. /\ Left \in Int /\ rob_counter \in Int /\ Age(t) \in Int
      /\ t \in HeldStores => t \in Live
  BY NumbersAre, HeldIs
<1>2. t \in HeldStores' <=>
        \/ t \in HeldStores /\ ~(StoreTaken(late) /\ t = rob_head)
        \/ /\ Enters_0(grant) /\ t = rob_tail
           /\ wr_mem(id_packet_out_0.inst)
        \/ /\ Enters_1(grant) /\ t = rob_tail_plus_1
           /\ wr_mem(id_packet_out_1.inst)
  BY HeldMoves
<1>3. /\ Enters_0(grant) /\ t = rob_tail => Age(t)' = rob_counter - Left
      /\ Enters_1(grant) /\ t = rob_tail_plus_1 =>
           Age(t)' = rob_counter - Left + 1
      /\ t \in Live /\ ~Leaves(t) => Age(t)' = Age(t) - Left
  BY AgeMoves
<1>4. /\ Enters_0(grant) => rob_tail \notin Live
      /\ Enters_1(grant) => rob_tail_plus_1 \notin Live
  BY RoomIs DEF Typed
<1>5. Leaves(t) => t \notin HeldStores
  BY TakenStoreIs
<1>. QED  BY <1>1, <1>2, <1>3, <1>4, <1>5

\* A slot that is filled stays as it is until the cache takes the store.
LEMMA SlotStays ==
  ASSUME Typed, FrontGood, ~Phantoms, StoresQueued,
         NEW grant, NEW slow, NEW late, Moves(grant, slow, late),
         ~squash(sq_rob_valid), NEW t \in HeldStores,
         ~(StoreTaken(late) /\ t = rob_head), Filled(t)
  PROVE  /\ Slot(t)' = Slot(t) /\ Slot(t) \in SqIdx
         /\ sq_entries'[Slot(t)] = sq_entries[Slot(t)]
<1>1. t \in RobIdx /\ t \in Live /\ Stays(t)
  BY HeldIs, TakenStoreIs DEF Stays
<1>2. Slot(t)' = Slot(t) /\ Slot(t) \in SqIdx
  BY <1>1, SlotsMove, RankIs
<1>3. ~(StoreTaken(late) /\ Slot(t) = sq_head)
  BY TakenStoreIs, SlotsDiffer
<1>4. StoreComputed(fu_lsq, Slot(t)) = {}
  BY DEF StoreComputed, Filled
<1>5. PICK j : j = Slot(t)
  OBVIOUS
<1>6. sq_entries'[j] = sq_entries[j]
  BY <1>2, <1>3, <1>4, <1>5, SlotFills
<1>. QED  BY <1>2, <1>5, <1>6

LEMMA AccessStays ==
  ASSUME Typed, FrontGood, ~Phantoms, StoresQueued,
         NEW grant, NEW slow, NEW late, Moves(grant, slow, late),
         ~squash(sq_rob_valid), NEW t \in HeldStores,
         ~(StoreTaken(late) /\ t = rob_head), Filled(t)
  PROVE  /\ Filled(t)'
         /\ sq_entries'[Slot(t)'] = sq_entries[Slot(t)]
         /\ \A a, s : SameAccess(t, a, s)' <=> SameAccess(t, a, s)
         /\ \A a, s : Apart(t, a, s)' <=> Apart(t, a, s)
<1>1. /\ Slot(t)' = Slot(t) /\ Slot(t) \in SqIdx
      /\ sq_entries'[Slot(t)] = sq_entries[Slot(t)]
  BY SlotStays
<1>2. PICK j : j = Slot(t)
  OBVIOUS
<1>3. j = Slot(t)' /\ sq_entries'[j] = sq_entries[j]
  BY <1>1, <1>2
<1>. QED  BY <1>2, <1>3 DEF Filled, SameAccess, Apart

LEMMA ClearMoves ==
  ASSUME Typed, FrontGood, ~Phantoms, StoresQueued,
         NEW grant, NEW slow, NEW late, Moves(grant, slow, late),
         ~squash(sq_rob_valid),
         NEW n \in Int, n <= rob_counter, NEW m, m = n - Left,
         NEW a, NEW s, ClearBefore(n, a, s)
  PROVE  ClearBefore(m, a, s)'
<1>1. \A t \in HeldStores' : t \in RobIdx
  BY DEF HeldStores, StoresInRob, Live, RobIdx
<1>2. ASSUME NEW t \in RobIdx, t \in HeldStores', Age(t)' < m
      PROVE  Apart(t, a, s)'
  <2>1. t \in HeldStores /\ ~(StoreTaken(late) /\ t = rob_head) /\ Age(t) < n
    BY <1>2, HeldBefore
  <2>2. Apart(t, a, s) /\ Filled(t)
    BY <2>1 DEF ClearBefore, Apart
  <2>. QED  BY <2>1, <2>2, AccessStays
<1>. QED  BY <1>1, <1>2 DEF ClearBefore

\* The store that the cache takes.
LEMMA TakenWrites ==
  ASSUME Typed, StoresQueued, NEW grant, NEW slow, NEW late,
         Moves(grant, slow, late)
  PROVE  /\ ~StoreTaken(late) => mem' = mem
         /\ StoreTaken(late) =>
              /\ rob_head \in HeldStores /\ rob_head \in RobIdx
              /\ Age(rob_head) = 0 /\ Left = 0
              /\ Filled(rob_head) /\ Slot(rob_head) = sq_head
              /\ mem' = MemWrite(mem, sq_entries[sq_head].addr,
                                 sq_entries[sq_head].mem_size,
                                 sq_entries[sq_head].value)
         /\ sq_entries[sq_head] \in StoreType
<1>1. MemStep(late) /\ sq_head \in SqIdx /\ rob_head \in RobIdx
  BY EntriesAre DEF Moves, Typed, LsqTyped
<1>. QED  BY <1>1, TakenStoreIs
          DEF MemStep, StoreTaken, lsq_store_dc, Filled, Typed, LsqTyped

\* What a load reads stays the same until it has read it, whether the store it
\* comes from waits or is taken by the cache meanwhile.
LEMMA LoadSeesMoves ==
  ASSUME Typed, FrontGood, ~Phantoms, StoresQueued,
         NEW grant, NEW slow, NEW late, Moves(grant, slow, late),
         ~squash(sq_rob_valid),
         NEW n \in Int, n <= rob_counter, 0 <= n, StoreTaken(late) => n # 0,
         NEW m, m = n - Left,
         NEW a \in ByteAddr, NEW s, NEW v, LoadSees(n, a, s, v)
  PROVE  LoadSees(m, a, s, v)'
<1>1. HeldStores \in SUBSET RobIdx /\ \A t \in RobIdx : Age(t) \in Nat
      /\ Left \in Int
  BY HeldIs, NumbersAre
<1>2. mem \in MemType /\ sq_entries[sq_head] \in StoreType
  BY TakenWrites DEF Typed, MemType
<1>3. CASE ClearBefore(n, a, s) /\ v = MemRead(mem, a, s)
  <2>1. ClearBefore(m, a, s)'
    BY <1>3, ClearMoves
  <2>2. CASE ~StoreTaken(late)
    <3>1. mem' = mem
      BY <2>2, TakenWrites
    <3>. QED  BY <1>3, <2>1, <3>1 DEF LoadSees, MemRead
  <2>3. CASE StoreTaken(late)
    <3>1. /\ rob_head \in HeldStores /\ Age(rob_head) < n
          /\ Slot(rob_head) = sq_head
      BY <1>1, <2>3, TakenWrites
    <3>2. PICK e : e = sq_entries[sq_head]
      OBVIOUS
    <3>3. Bytes(e.addr, e.mem_size) \cap Bytes(a, s) = {}
      BY <1>3, <3>1, <3>2 DEF ClearBefore, Apart
    <3>4. mem' = MemWrite(mem, e.addr, e.mem_size, e.value)
      BY <2>3, <3>2, TakenWrites
    <3>5. e.addr \in ByteAddr
      BY <1>2, <3>2 DEF StoreType
    <3>6. MemRead(mem', a, s) = v
      BY <1>2, <1>3, <3>3, <3>4, <3>5, ReadApart
    <3>. QED  BY <2>1, <3>6 DEF LoadSees, MemRead
  <2>. QED  BY <2>2, <2>3
<1>4. ASSUME NEW u \in HeldStores, Age(u) < n, Filled(u), SameAccess(u, a, s),
             v = Trim(sq_entries[Slot(u)].value, s),
             \A w \in HeldStores : Age(u) < Age(w) /\ Age(w) < n
                                     => Apart(w, a, s)
      PROVE  LoadSees(m, a, s, v)'
  <2>1. \A t \in HeldStores' : t \in RobIdx
    BY DEF HeldStores, StoresInRob, Live, RobIdx
  <2>2. CASE ~(StoreTaken(late) /\ u = rob_head)
    <3>1. u \in RobIdx /\ u \in HeldStores' /\ Age(u)' < m
      BY <1>1, <1>4, <2>2, HeldBefore
    <3>2. /\ Filled(u)' /\ SameAccess(u, a, s)'
          /\ sq_entries'[Slot(u)'] = sq_entries[Slot(u)]
      BY <1>4, <2>2, AccessStays
    <3>3. ASSUME NEW w \in RobIdx, w \in HeldStores', Age(u)' < Age(w)',
                 Age(w)' < m
          PROVE  Apart(w, a, s)'
      <4>1. /\ w \in HeldStores /\ ~(StoreTaken(late) /\ w = rob_head)
            /\ Age(w) < n
        BY <3>3, HeldBefore
      <4>2. Age(w)' = Age(w) - Left /\ Age(u)' = Age(u) - Left
        BY <3>1, <4>1, AgeMoves, TakenStoreIs, HeldIs
      <4>3. Apart(w, a, s) /\ Filled(w)
        BY <1>1, <1>4, <3>1, <3>3, <4>1, <4>2 DEF Apart
      <4>. QED  BY <4>1, <4>3, AccessStays
    <3>4. v = Trim(sq_entries'[Slot(u)'].value, s)
      BY <1>4, <3>2
    <3>5. \A w \in HeldStores' : Age(u)' < Age(w)' /\ Age(w)' < m
                                   => Apart(w, a, s)'
      BY <2>1, <3>3
    <3>. QED  BY <3>1, <3>2, <3>4, <3>5 DEF LoadSees, Trim
  <2>3. CASE StoreTaken(late) /\ u = rob_head
    <3>1. Slot(u) = sq_head /\ Age(u) = 0 /\ Left = 0
      BY <2>3, TakenWrites
    <3>2. PICK e : e = sq_entries[sq_head]
      OBVIOUS
    <3>3. e.addr = a /\ e.mem_size = s /\ v = Trim(e.value, s)
          /\ e.value \in Value
      BY <1>2, <1>4, <3>1, <3>2 DEF SameAccess, StoreType
    <3>4. mem' = MemWrite(mem, a, s, e.value)
      BY <2>3, <3>2, <3>3, TakenWrites
    <3>5. MemRead(mem', a, s) = v
      BY <1>2, <3>3, <3>4, ReadWritten
    <3>6. ASSUME NEW w \in RobIdx, w \in HeldStores', Age(w)' < m
          PROVE  Apart(w, a, s)'
      <4>1. /\ w \in HeldStores /\ ~(StoreTaken(late) /\ w = rob_head)
            /\ Age(w) < n
        BY <3>6, HeldBefore
      <4>2. Age(w) # 0
        BY <1>1, <2>3, <3>1, <4>1, AgeIs DEF Typed
      <4>3. Apart(w, a, s) /\ Filled(w)
        BY <1>1, <1>4, <3>1, <4>1, <4>2 DEF Apart
      <4>. QED  BY <4>1, <4>3, AccessStays
    <3>7. ClearBefore(m, a, s)'
      BY <2>1, <3>6 DEF ClearBefore
    <3>. QED  BY <3>5, <3>7 DEF LoadSees, MemRead
  <2>. QED  BY <2>2, <2>3
<1>. QED  BY <1>3, <1>4 DEF LoadSees

-----------------------------------------------------------------------------
(* The stores.                                                             *)

LEMMA BothMove ==
  ASSUME Typed, FrontGood, Loads, ~Phantoms, UnitsWork,
         NEW grant, NEW slow, NEW late, Moves(grant, slow, late),
         ~squash(sq_rob_valid), NEW i \in Decoded,
         NEW n \in Int, n <= rob_counter, Left <= n, NEW m, m = n - Left,
         NEW v1, NEW v2, ReadsBoth(n, i, v1, v2)
  PROVE  ReadsBoth(m, i, v1, v2)'
<1>1. input_reg_idx(i, 1) \in Reg /\ input_reg_idx(i, 2) \in Reg
  BY SourceIs
<1>2. PICK r1, r2 : r1 = input_reg_idx(i, 1) /\ r2 = input_reg_idx(i, 2)
  OBVIOUS
<1>3. Reads(m, r1, v1)' /\ Reads(m, r2, v2)'
  BY <1>1, <1>2, ReadsMove DEF ReadsBoth
<1>. QED  BY <1>2, <1>3 DEF ReadsBoth

\* A unit with its operands computes with what its instruction reads.
LEMMA WorksWith ==
  ASSUME Typed, UnitsWork, StationsGood, NEW f \in busy,
         working[f].rs_value_valid, NEW t, t = rs_entries[f].T_dest
  PROVE  /\ working[f].inst = Word(t) /\ Word(t) \in Decoded
         /\ working[f].rs_value[1] \in Value /\ working[f].rs_value[2] \in Value
         /\ ReadsBoth(Age(t), Word(t), working[f].rs_value[1],
                      working[f].rs_value[2])
<1>1. working[f] \in WorkingType
  BY DEF Typed, RsTyped
<1>2. working[f].inst = Word(t)
  BY DEF UnitsWork, Word
<1>3. \A k \in 1 .. 2 :
        /\ InfoGood(rs_entries[f].rs_entry_info[k], Age(t),
                    input_reg_idx(Word(t), k))
        /\ rs_entries[f].rs_entry_info[k].V_ready
        /\ working[f].rs_value[k] = rs_entries[f].rs_entry_info[k].V
  BY <1>2 DEF StationsGood, OperandGood, AgeOf, WorkGood
<1>4. \A k \in 1 .. 2 :
        Reads(Age(t), input_reg_idx(Word(t), k), working[f].rs_value[k])
  BY <1>3 DEF InfoGood
<1>. QED  BY <1>1, <1>2, <1>4 DEF WorkingType, ReadsBoth

\* An entry that stays is the same instruction one age or two further on.
LEMMA StaysMove ==
  ASSUME Typed, NEW grant, NEW slow, NEW late, Moves(grant, slow, late),
         ~squash(sq_rob_valid), NEW t \in RobIdx, t \in Live, ~Leaves(t)
  PROVE  /\ Word(t)' = Word(t) /\ Word(t) \in Decoded
         /\ Age(t)' = Age(t) - Left /\ Age(t) \in Int
         /\ Left <= Age(t) /\ Age(t) <= rob_counter
<1>1. grant \in Grants(Requests) /\ program' = program
  BY DEF Moves
<1>2. rob_entries'[t].PC = rob_entries[t].PC
  BY <1>1, EntryMoves, UpdatedKeeps DEF SameInst
<1>3. Word(t) \in Decoded
  BY FetchIs DEF Word, Decoded, Typed
<1>. QED  BY <1>1, <1>2, <1>3, AgeMoves, NumbersAre DEF Word, Fetch

\* The unit that fills a slot works for its store.
LEMMA FillsFor ==
  ASSUME Typed, Loads, UnitsWork, EntriesGood, StoresQueued, StationsGood,
         NEW t \in HeldStores, NEW i \in StoreComputed(fu_lsq, Slot(t))
  PROVE  /\ i \in busy /\ OperandsIn(i) /\ rs_entries[i].T_dest = t
         /\ fu_lsq[i].addr = address(Word(t), working[i].rs_value[1])
         /\ fu_lsq[i].mem_size = Word(t).size
         /\ fu_lsq[i].value = working[i].rs_value[2]
<1>1. /\ i \in FU_LS /\ OperandsIn(i) /\ wr_mem(working[i].inst) /\ i \in Fu
      /\ working[i].storeq_pos = Slot(t)
  BY DEF StoreComputed, fu_lsq, Fu
<1>2. i \in busy
  BY <1>1 DEF Loads, OperandsIn
<1>3. PICK u \in HeldStores : u = rs_entries[i].T_dest
  BY <1>1, <1>2, StoreWorks
<1>4. Slot(u) = Slot(t)
  BY <1>1, <1>2, <1>3 DEF StoresQueued
<1>5. u = t
  BY <1>4, SlotsDiffer
<1>6. rs_entries[i].T_dest = t
  BY <1>3, <1>5
<1>7. working[i].inst = Word(t)
  <2>1. /\ working[i].inst = Fetch(program, working[i].PC)
        /\ working[i].PC = rob_entries[rs_entries[i].T_dest].PC
    BY <1>2 DEF UnitsWork
  <2>. QED  BY <1>6, <2>1 DEF Word
<1>. QED  BY <1>1, <1>2, <1>6, <1>7 DEF fu_lsq

\* The slot of a store that enters is not filled.
LEMMA EntersUnfilled ==
  ASSUME Typed, FrontGood, Loads, ~Phantoms, UnitsWork, EntriesGood,
         StoresQueued, StationsGood, NEW grant, NEW slow, NEW late,
         Moves(grant, slow, late), ~squash(sq_rob_valid)
  PROVE  ~sq_entries'[sq_tail].filled
<1>1. sq_head \in SqIdx /\ sq_tail \in SqIdx
      /\ sq_tail = At(sq_head, sq_counter)
  BY DEF Typed, LsqTyped, StoresQueued
<1>2. rob_head \in RobIdx
  BY EntriesAre DEF Typed
<1>3. ASSUME NEW u \in HeldStores  PROVE Slot(u) # sq_tail
  <2>1. u \in RobIdx
    BY HeldIs
  <2>2. /\ Rank(u) \in 0 .. STORE_QUEUE_SIZE - 1 /\ Rank(u) < sq_counter
        /\ sq_counter \in 0 .. STORE_QUEUE_SIZE - 1
    BY <2>1, RankIs
  <2>. QED  BY <1>1, <2>2, AtInjective DEF Slot
<1>4. ~sq_entries[sq_tail].filled
  BY <1>1, <1>3 DEF StoresQueued
<1>5. StoreComputed(fu_lsq, sq_tail) = {}
  <2>1. SUFFICES ASSUME NEW i \in StoreComputed(fu_lsq, sq_tail)  PROVE FALSE
    OBVIOUS
  <2>2. /\ i \in FU_LS /\ OperandsIn(i) /\ wr_mem(working[i].inst) /\ i \in Fu
        /\ working[i].storeq_pos = sq_tail
    BY <2>1 DEF StoreComputed, fu_lsq, Fu
  <2>3. i \in busy
    BY <2>2 DEF Loads, OperandsIn
  <2>4. PICK u \in HeldStores : u = rs_entries[i].T_dest
    BY <2>2, <2>3, StoreWorks
  <2>5. Slot(u) = sq_tail
    BY <2>2, <2>3, <2>4 DEF StoresQueued
  <2>. QED  BY <1>3, <2>5
<1>. QED  BY <1>1, <1>4, <1>5, SlotFills DEF EmptyStore

LEMMA StoreGoodMoves ==
  ASSUME Typed, FrontGood, Loads, ~Phantoms, UnitsWork, EntriesGood,
         StoresQueued, StationsGood, StoresGood,
         NEW grant, NEW slow, NEW late,
         Moves(grant, slow, late), ~squash(sq_rob_valid), NEW t \in HeldStores'
  PROVE  StoreGood(t)'
<1>1. t \in RobIdx /\ rob_tail \in RobIdx /\ rob_tail_plus_1 \in RobIdx
  BY EntriesAre DEF HeldStores, StoresInRob, Live, RobIdx, Typed
<1>2. PICK j : j = Slot(t)'
  OBVIOUS
<1>3. CASE t \in HeldStores /\ ~(StoreTaken(late) /\ t = rob_head)
  <2>1. t \in Live /\ ~Leaves(t)
    BY <1>1, <1>3, HeldIs, TakenStoreIs
  <2>2. Slot(t)' = Slot(t) /\ Slot(t) \in SqIdx
    BY <1>1, <1>3, <2>1, SlotsMove, RankIs DEF Stays
  <2>3. /\ Word(t)' = Word(t) /\ Word(t) \in Decoded
        /\ Age(t)' = Age(t) - Left /\ Age(t) \in Int
        /\ Left <= Age(t) /\ Age(t) <= rob_counter
    BY <1>1, <2>1, StaysMove
  <2>4. PICK i, n : i = Word(t) /\ n = Age(t) - Left
    OBVIOUS
  <2>5. ASSUME NEW v1 \in Value, NEW v2 \in Value,
               ReadsBoth(Age(t), i, v1, v2),
               sq_entries'[j].addr = address(i, v1),
               sq_entries'[j].mem_size = i.size, sq_entries'[j].value = v2
        PROVE  StoreGood(t)'
    <3>1. ReadsBoth(n, i, v1, v2)'
      BY <2>3, <2>4, <2>5, BothMove
    <3>2. n = Age(t)' /\ i = Word(t)'
      BY <2>3, <2>4
    <3>3. v1 \in Value' /\ v2 \in Value'
      BY <2>5 DEF Value
    <3>. QED  BY <1>2, <2>5, <3>1, <3>2, <3>3 DEF StoreGood
  <2>6. CASE Filled(t)
    <3>1. sq_entries'[j] = sq_entries[j] /\ j = Slot(t)
      BY <1>2, <1>3, <2>6, SlotStays
    <3>2. StoreGood(t)
      BY <1>3 DEF StoresGood
    <3>. QED  BY <2>4, <2>5, <2>6, <3>1, <3>2 DEF StoreGood
  <2>7. CASE \E x \in StoreComputed(fu_lsq, j) : sq_entries'[j] = StoreOf(x)
    <3>1. PICK x \in StoreComputed(fu_lsq, j) : sq_entries'[j] = StoreOf(x)
      BY <2>7
    <3>2. /\ x \in busy /\ OperandsIn(x) /\ rs_entries[x].T_dest = t
          /\ fu_lsq[x].addr = address(i, working[x].rs_value[1])
          /\ fu_lsq[x].mem_size = i.size
          /\ fu_lsq[x].value = working[x].rs_value[2]
      BY <1>2, <1>3, <2>2, <2>4, <3>1, FillsFor
    <3>3. /\ working[x].rs_value[1] \in Value
          /\ working[x].rs_value[2] \in Value
          /\ ReadsBoth(Age(t), i, working[x].rs_value[1],
                       working[x].rs_value[2])
      BY <2>4, <3>2, WorksWith DEF OperandsIn
    <3>. QED  BY <2>5, <3>1, <3>2, <3>3 DEF StoreOf
  <2>8. CASE ~Filled(t) /\ sq_entries'[j] \in {EmptyStore, sq_entries[j]}
    <3>1. ~sq_entries'[j].filled
      BY <1>2, <2>2, <2>8 DEF Filled, EmptyStore
    <3>. QED  BY <1>2, <3>1 DEF StoreGood, Filled
  <2>. QED  BY <1>2, <2>2, <2>6, <2>7, <2>8, SlotFills
<1>4. CASE \/ Enters_0(grant) /\ t = rob_tail
           \/ /\ Enters_1(grant) /\ t = rob_tail_plus_1
              /\ wr_mem(id_packet_out_1.inst)
  <2>1. j = sq_tail
    BY <1>1, <1>2, <1>4, MemOpIs, SlotsMove
  <2>2. ~sq_entries'[j].filled
    BY <2>1, EntersUnfilled
  <2>. QED  BY <1>2, <2>2 DEF StoreGood, Filled
<1>. QED  BY <1>1, <1>3, <1>4, HeldMoves

LEMMA StoresMove ==
  ASSUME Typed, FrontGood, Loads, ~Phantoms, UnitsWork, EntriesGood,
         StoresQueued, StationsGood, StoresGood,
         NEW grant, NEW slow, NEW late,
         Moves(grant, slow, late), ~squash(sq_rob_valid)
  PROVE  StoresGood'
BY StoreGoodMoves DEF StoresGood

-----------------------------------------------------------------------------
(* The search of a load.                                                   *)

LEMMA BeforeIs ==
  ASSUME NEW h \in SqIdx, h = sq_head, NEW r \in 1 .. STORE_QUEUE_SIZE - 1,
         NEW p, p = At(h, r)
  PROVE  /\ \A j \in Before(p) : \E s \in 0 .. r - 1 : j = At(h, s)
         /\ \A s \in 0 .. r - 1 : At(h, s) \in Before(p)
<1>1. /\ h \in Int /\ 0 <= h /\ h < STORE_QUEUE_SIZE /\ STORE_QUEUE_SIZE \in Nat
      /\ r \in Int /\ 1 <= r /\ r < STORE_QUEUE_SIZE
  BY CoreAssumption DEF SqIdx
<1>2. p = IF h + r < STORE_QUEUE_SIZE THEN h + r ELSE h + r - STORE_QUEUE_SIZE
  BY DEF At
<1>3. ASSUME NEW j \in Before(p) PROVE \E s \in 0 .. r - 1 : j = At(h, s)
  <2>1. j \in SqIdx
    BY DEF Before
  <2>2. j \in Int /\ 0 <= j /\ j < STORE_QUEUE_SIZE
    BY <1>1, <2>1 DEF SqIdx
  <2>3. IF p > h THEN h <= j /\ j < p ELSE j < p \/ h <= j
    BY DEF Before
  <2>4. CASE h <= j
    <3>1. j - h \in 0 .. r - 1
      BY <1>1, <1>2, <2>2, <2>3, <2>4
    <3>2. j = At(h, j - h)
      BY <1>1, <2>2 DEF At
    <3>. QED  BY <3>1, <3>2
  <2>5. CASE ~(h <= j)
    <3>1. j - h + STORE_QUEUE_SIZE \in 0 .. r - 1
      BY <1>1, <1>2, <2>2, <2>3, <2>5
    <3>2. j = At(h, j - h + STORE_QUEUE_SIZE)
      BY <1>1, <2>2, <2>5 DEF At
    <3>. QED  BY <3>1, <3>2
  <2>. QED  BY <2>4, <2>5
<1>4. ASSUME NEW s \in 0 .. r - 1 PROVE At(h, s) \in Before(p)
  <2>1. PICK j : j = At(h, s)
    OBVIOUS
  <2>2. j = IF h + s < STORE_QUEUE_SIZE THEN h + s ELSE h + s - STORE_QUEUE_SIZE
    BY <2>1 DEF At
  <2>3. j \in Int /\ 0 <= j /\ j < STORE_QUEUE_SIZE
    BY <1>1, <2>2
  <2>4. IF p > h THEN h <= j /\ j < p ELSE j < p \/ h <= j
    BY <1>1, <1>2, <2>2
  <2>5. j \in SqIdx
    BY <1>1, <2>3 DEF SqIdx
  <2>. QED  BY <2>1, <2>4, <2>5 DEF Before
<1>. QED  BY <1>3, <1>4

LEMMA DistanceIs ==
  ASSUME NEW h \in SqIdx, NEW r \in 1 .. STORE_QUEUE_SIZE - 1,
         NEW s \in 0 .. r - 1
  PROVE  Distance(At(h, r), At(h, s)) = r - s
BY CoreAssumption DEF Distance, At, SqIdx

\* The slots that are searched are those of the stores in front of the load.
LEMMA SearchedAre ==
  ASSUME Typed, StoresQueued, NEW t \in RobIdx, Rank(t) >= 1
  PROVE  /\ \A j \in Before(Slot(t)) :
              \E u \in HeldStores : Age(u) < Age(t) /\ j = Slot(u)
         /\ \A u \in HeldStores :
              Age(u) < Age(t) =>
                /\ Slot(u) \in Before(Slot(t))
                /\ Distance(Slot(t), Slot(u)) = Rank(t) - Rank(u)
                /\ Rank(u) \in Nat /\ Rank(t) \in Nat /\ Rank(u) < Rank(t)
<1>1. PICK r : r = Rank(t)
  OBVIOUS
<1>2. PICK h \in SqIdx : h = sq_head
  BY DEF Typed, LsqTyped
<1>3. r \in 1 .. STORE_QUEUE_SIZE - 1 /\ r \in Nat /\ Slot(t) = At(h, r)
  BY <1>1, <1>2, RankIs, CoreAssumption DEF Slot
<1>4. /\ HeldAges \in SUBSET Int /\ IsFiniteSet(HeldAges)
      /\ \A u \in HeldStores : u \in RobIdx /\ Age(u) \in HeldAges
      /\ \A u \in RobIdx : Age(u) \in Int
      /\ r = CountBelow(HeldAges, Age(t))
  BY <1>1, HeldIs, NumbersAre DEF Rank
<1>5. ASSUME NEW j \in Before(Slot(t))
      PROVE  \E u \in HeldStores : Age(u) < Age(t) /\ j = Slot(u)
  <2>1. PICK s \in 0 .. r - 1 : j = At(h, s)
    BY <1>2, <1>3, BeforeIs
  <2>2. PICK a \in HeldAges : a < Age(t) /\ CountBelow(HeldAges, a) = s
    BY <1>4, CountBelowOnto
  <2>3. PICK u \in HeldStores : a = Age(u)
    BY DEF HeldAges
  <2>. QED  BY <1>2, <2>1, <2>2, <2>3 DEF Slot, Rank
<1>6. ASSUME NEW u \in HeldStores, Age(u) < Age(t)
      PROVE  /\ Slot(u) \in Before(Slot(t))
             /\ Distance(Slot(t), Slot(u)) = Rank(t) - Rank(u)
             /\ Rank(u) \in Nat /\ Rank(t) \in Nat /\ Rank(u) < Rank(t)
  <2>1. PICK s : s = Rank(u)
    OBVIOUS
  <2>2. CountBelow(HeldAges, Age(u)) < CountBelow(HeldAges, Age(t))
    BY <1>4, <1>6, CountBelowGrows
  <2>3. s < r /\ s \in Nat
    BY <1>1, <1>4, <2>1, <2>2, RankIs DEF Rank
  <2>4. s \in 0 .. r - 1 /\ Slot(u) = At(h, s)
    BY <1>2, <1>3, <2>1, <2>3 DEF Slot
  <2>5. At(h, s) \in Before(At(h, r)) /\ Distance(At(h, r), At(h, s)) = r - s
    BY <1>2, <1>3, <2>4, BeforeIs, DistanceIs
  <2>. QED  BY <1>1, <1>3, <2>1, <2>3, <2>4, <2>5
<1>. QED  BY <1>5, <1>6

\* The search ends at the nearest store in front of the load that ends it.
LEMMA StopIs ==
  ASSUME Typed, StoresQueued, NEW t \in RobIdx, Rank(t) >= 1,
         NEW e, e.sq_pos = Slot(t), NEW j \in Stop(e)
  PROVE  \E u \in HeldStores :
           /\ Age(u) < Age(t) /\ j = Slot(u) /\ Stops(e, j)
           /\ \A w \in HeldStores :
                Age(u) < Age(w) /\ Age(w) < Age(t) => ~Stops(e, Slot(w))
<1>1. /\ j \in Before(Slot(t)) /\ Stops(e, j)
      /\ \A i \in Before(Slot(t)) :
           Stops(e, i) => Distance(Slot(t), j) <= Distance(Slot(t), i)
  BY DEF Stop
<1>2. PICK u \in HeldStores : Age(u) < Age(t) /\ j = Slot(u)
  BY <1>1, SearchedAre
<1>3. ASSUME NEW w \in HeldStores, Age(u) < Age(w), Age(w) < Age(t),
             Stops(e, Slot(w))
      PROVE  FALSE
  <2>1. /\ Slot(w) \in Before(Slot(t)) /\ Rank(w) \in Nat /\ Rank(u) \in Nat
        /\ Rank(t) \in Nat
        /\ Distance(Slot(t), Slot(w)) = Rank(t) - Rank(w)
        /\ Distance(Slot(t), Slot(u)) = Rank(t) - Rank(u)
    BY <1>2, <1>3, SearchedAre
  <2>2. Distance(Slot(t), Slot(u)) <= Distance(Slot(t), Slot(w))
    BY <1>1, <1>2, <1>3, <2>1
  <2>3. Rank(u) < Rank(w)
    <3>1. /\ HeldAges \in SUBSET Int /\ IsFiniteSet(HeldAges)
          /\ Age(u) \in HeldAges /\ Age(w) \in HeldAges
      BY HeldIs
    <3>2. Age(w) \in Int
      BY <3>1
    <3>. QED  BY <1>3, <3>1, <3>2, CountBelowGrows DEF Rank
  <2>. QED  BY <2>1, <2>2, <2>3
<1>. QED  BY <1>1, <1>2, <1>3

\* A search that ends nowhere has passed all the stores.
LEMMA NoStopIs ==
  ASSUME Typed, StoresQueued, NEW t \in RobIdx, Rank(t) >= 1,
         NEW e, e.sq_pos = Slot(t), Stop(e) = {},
         NEW u \in HeldStores, Age(u) < Age(t)
  PROVE  ~Stops(e, Slot(u))
<1> SUFFICES ASSUME Stops(e, Slot(u)) PROVE FALSE
  OBVIOUS
<1>1. PICK B : B = {j \in Before(Slot(t)) : Stops(e, j)}
  OBVIOUS
<1>2. PICK D : D = {Distance(Slot(t), j) : j \in B}
  OBVIOUS
<1>3. Slot(u) \in B
  BY <1>1, SearchedAre
<1>4. D \in SUBSET Nat /\ D # {}
  <2>1. ASSUME NEW j \in B PROVE Distance(Slot(t), j) \in Nat
    <3>1. PICK w \in HeldStores : Age(w) < Age(t) /\ j = Slot(w)
      BY <1>1, SearchedAre
    <3>2. Distance(Slot(t), j) = Rank(t) - Rank(w) /\ Rank(w) \in Nat
          /\ Rank(t) \in Nat /\ Rank(w) < Rank(t)
      BY <3>1, SearchedAre
    <3>. QED  BY <3>2
  <2>. QED  BY <1>2, <1>3, <2>1
<1>5. PICK d \in D : \A x \in D : d =< x
  BY <1>4, LeastNat
<1>6. PICK j \in B : d = Distance(Slot(t), j)
  BY <1>2, <1>5
<1>7. j \in Stop(e)
  BY <1>1, <1>2, <1>5, <1>6 DEF Stop
<1>. QED  BY <1>7

\* It ends in one place.
LEMMA StopOnce ==
  ASSUME Typed, StoresQueued, NEW t \in RobIdx, Rank(t) >= 1,
         NEW e, e.sq_pos = Slot(t), NEW i \in Stop(e), NEW j \in Stop(e)
  PROVE  i = j
<1>1. /\ i \in Before(Slot(t)) /\ j \in Before(Slot(t))
      /\ Distance(Slot(t), i) <= Distance(Slot(t), j)
      /\ Distance(Slot(t), j) <= Distance(Slot(t), i)
  BY DEF Stop
<1>2. PICK u \in HeldStores : Age(u) < Age(t) /\ i = Slot(u)
  BY <1>1, SearchedAre
<1>3. PICK w \in HeldStores : Age(w) < Age(t) /\ j = Slot(w)
  BY <1>1, SearchedAre
<1>4. /\ Distance(Slot(t), i) = Rank(t) - Rank(u) /\ Rank(u) \in Nat
      /\ Distance(Slot(t), j) = Rank(t) - Rank(w) /\ Rank(w) \in Nat
      /\ Rank(t) \in Nat
  BY <1>2, <1>3, SearchedAre
<1>5. Rank(u) = Rank(w)
  BY <1>1, <1>4
<1>. QED  BY <1>2, <1>3, <1>5 DEF Slot

\* No store that ends the search is in the way of the load.
LEMMA PassedApart ==
  ASSUME Typed, StoresQueued, ~PartialOverlap, NEW f \in busy,
         rd_mem(working[f].inst), OperandsIn(f),
         NEW t, t = rs_entries[f].T_dest, NEW e,
         e.addr = address(working[f].inst, working[f].rs_value[1]),
         e.mem_size = working[f].inst.size,
         NEW u \in HeldStores, Age(u) < Age(t), ~Stops(e, Slot(u))
  PROVE  Apart(u, e.addr, e.mem_size)
<1>1. /\ u \in StoresInRob /\ ~(sq_rob_valid /\ u = rob_head)
      /\ SlotOf(u) = Slot(u)
  BY StoreRankIs DEF HeldStores
<1>2. PICK d : d = sq_entries[Slot(u)]
  OBVIOUS
<1>3. d.filled /\ ~(d.addr = e.addr /\ d.mem_size = e.mem_size)
  BY <1>2 DEF Stops, SameWord
<1>4. Bytes(d.addr, d.mem_size) \cap Bytes(e.addr, e.mem_size) = {}
  BY <1>1, <1>2, <1>3 DEF PartialOverlap
<1>. QED  BY <1>2, <1>3, <1>4 DEF Apart, Filled

-----------------------------------------------------------------------------
(* The load queue after the cycle.                                         *)

\* The load that is dispatched is told to the entry of its unit.
LEMMA LoadGoesTo ==
  ASSUME NEW grant, NEW f
  PROVE  /\ LoadDispatched(Disp(grant), f) =>
              \/ f \in Taken_0(grant) /\ rd_mem(id_packet_out_0.inst)
              \/ f \in Taken_1(grant) /\ rd_mem(id_packet_out_1.inst)
         /\ f \in Taken_0(grant) /\ rd_mem(id_packet_out_0.inst) =>
              LoadDispatched(Disp(grant), f)
         /\ f \in Taken_1(grant) /\ rd_mem(id_packet_out_1.inst) =>
              LoadDispatched(Disp(grant), f)
<1>1. PICK u0 : u0 = Taken_0(grant)
  OBVIOUS
<1>2. PICK u1 : u1 = Taken_1(grant)
  OBVIOUS
<1>3. /\ u0 = {} \/ \E g : u0 = {g}
      /\ u1 = {} \/ \E g : u1 = {g}
  BY <1>1, <1>2, StartsAre DEF Takes
<1>4. u1 # {} => ~BothLs(id_packet_out_0.inst, id_packet_out_1.inst)
  <2>1. u1 # {} => Dispatch(Taken(grant)).en1
    BY <1>2, StartsAre DEF Takes, Starts_1
  <2>2. Dispatch(Taken(grant)).en1 =>
          ~BothLs(id_packet_out_0.inst, id_packet_out_1.inst)
    BY DispatchIs
  <2>. QED  BY <2>1, <2>2
<1>5. ASSUME NEW p, NEW u, u = {} \/ \E g : u = {g}
      PROVE  LoadDispatched(ToLsq(p, u), f) <=> f \in u /\ rd_mem(p.inst)
  <2>1. /\ ToLsq(p, u).valid = (u # {}) /\ ToLsq(p, u).load = rd_mem(p.inst)
        /\ ToLsq(p, u).idx = IF u = {} THEN 0 ELSE CHOOSE i \in u : TRUE
    BY DEF ToLsq
  <2>2. CASE u = {}
    BY <2>1, <2>2 DEF LoadDispatched
  <2>3. CASE u # {}
    <3>1. PICK g : u = {g}
      BY <1>5, <2>3
    <3>2. ToLsq(p, u).valid /\ ToLsq(p, u).idx = g
      BY <2>1, <3>1
    <3>. QED  BY <2>1, <3>1, <3>2 DEF LoadDispatched
  <2>. QED  BY <2>2, <2>3
<1>6. Disp(grant) = IF fu_type(id_packet_out_0.inst) = FU_LS
                    THEN ToLsq(id_packet_out_0, u0)
                    ELSE ToLsq(id_packet_out_1, u1)
  BY <1>1, <1>2 DEF Disp, rs_lsq
<1>7. CASE fu_type(id_packet_out_0.inst) = FU_LS
  <2>1. Disp(grant) = ToLsq(id_packet_out_0, u0)
    BY <1>6, <1>7
  <2>2. LoadDispatched(Disp(grant), f) <=> f \in u0 /\ rd_mem(id_packet_out_0.inst)
    BY <1>3, <1>5, <2>1
  <2>3. ~(f \in u1 /\ rd_mem(id_packet_out_1.inst))
    BY <1>4, <1>7, MemOpIs DEF BothLs
  <2>. QED  BY <1>1, <1>2, <2>2, <2>3
<1>8. CASE fu_type(id_packet_out_0.inst) # FU_LS
  <2>1. Disp(grant) = ToLsq(id_packet_out_1, u1)
    BY <1>6, <1>8
  <2>2. LoadDispatched(Disp(grant), f) <=> f \in u1 /\ rd_mem(id_packet_out_1.inst)
    BY <1>3, <1>5, <2>1
  <2>3. ~rd_mem(id_packet_out_0.inst)
    BY <1>8, MemOpIs
  <2>. QED  BY <1>1, <1>2, <2>2, <2>3
<1>. QED  BY <1>7, <1>8

EntryOf(grant, i) == LoadEntry(Disp(grant), fu_lsq, sq_retire, i)
KeepsValue(grant, i) == StillDone(Disp(grant), fu_lsq, i)
StopOf(grant, i) ==
  IF Searches(EntryOf(grant, i), KeepsValue(grant, i))
  THEN Stop(EntryOf(grant, i)) ELSE {}
Forwards(grant, i) == \E j \in StopOf(grant, i) : sq_entries[j].filled
Clears(grant, i) ==
  Searches(EntryOf(grant, i), KeepsValue(grant, i)) /\ StopOf(grant, i) = {}
Answered(slow, i) == lsq_load_dc.valid /\ ~slow /\ i = lq_selection

LEMMA LoadQueueMoves ==
  ASSUME NEW grant, NEW slow, NEW late, Moves(grant, slow, late),
         ~squash(sq_rob_valid), NEW i \in FU_LS
  PROVE  /\ lq_entries'[i] = IF Clears(grant, i)
                             THEN [EntryOf(grant, i) EXCEPT !.sq_pos = NO_SQ_POS]
                             ELSE EntryOf(grant, i)
         /\ lq_retire_valid'[i] <=> \/ KeepsValue(grant, i)
                                    \/ Forwards(grant, i) \/ Answered(slow, i)
         /\ lq_value'[i] =
              IF Answered(slow, i)
              THEN MemRead(mem, lq_entries[i].addr, lq_entries[i].mem_size)
              ELSE IF Forwards(grant, i)
              THEN sq_entries[CHOOSE j \in StopOf(grant, i) : TRUE].value
              ELSE lq_value[i]
<1>1. PICK dp : dp = Disp(grant)
  OBVIOUS
<1>2. PICK rp : rp = Reply(slow)
  OBVIOUS
<1> DEFINE e == [x \in FU_LS |-> LoadEntry(dp, fu_lsq, sq_retire, x)]
           d == [x \in FU_LS |-> StillDone(dp, fu_lsq, x)]
           st == [x \in FU_LS |-> IF Searches(e[x], d[x]) THEN Stop(e[x]) ELSE {}]
           fw(x) == \E j \in st[x] : sq_entries[j].filled
           cl(x) == Searches(e[x], d[x]) /\ st[x] = {}
           an(x) == rp.valid /\ x = lq_selection
<1>3. /\ lq_entries' = [x \in FU_LS |->
                          IF cl(x) THEN [e[x] EXCEPT !.sq_pos = NO_SQ_POS]
                          ELSE e[x]]
      /\ lq_retire_valid' = [x \in FU_LS |-> d[x] \/ fw(x) \/ an(x)]
      /\ lq_value' = [x \in FU_LS |->
           IF an(x) THEN rp.value
           ELSE IF fw(x) THEN sq_entries[CHOOSE j \in st[x] : TRUE].value
           ELSE lq_value[x]]
  <2>1. LqUpdate(dp, fu_lsq, sq_retire, rp)
    BY <1>1, <1>2, QueueStepIs
  <2>. QED  BY <2>1 DEF LqUpdate
<1>4. /\ e[i] = EntryOf(grant, i) /\ d[i] = KeepsValue(grant, i)
  BY <1>1 DEF EntryOf, KeepsValue
<1> HIDE DEF e, d
<1>5. st[i] = StopOf(grant, i)
  BY <1>4 DEF StopOf
<1> HIDE DEF st
<1>6. /\ fw(i) <=> Forwards(grant, i)
      /\ cl(i) <=> Clears(grant, i)
  BY <1>4, <1>5 DEF Forwards, Clears
<1>7. /\ an(i) <=> Answered(slow, i)
      /\ an(i) => rp.value = MemRead(mem, lq_entries[i].addr,
                                     lq_entries[i].mem_size)
  BY <1>2 DEF Reply, Answered, lsq_load_dc
<1> HIDE DEF fw, cl, an
<1>8. /\ lq_entries'[i] = IF cl(i) THEN [e[i] EXCEPT !.sq_pos = NO_SQ_POS]
                          ELSE e[i]
      /\ lq_retire_valid'[i] = (d[i] \/ fw(i) \/ an(i))
      /\ lq_value'[i] =
           IF an(i) THEN rp.value
           ELSE IF fw(i) THEN sq_entries[CHOOSE j \in st[i] : TRUE].value
           ELSE lq_value[i]
  BY <1>3
<1>9. lq_retire_valid'[i] <=> d[i] \/ fw(i) \/ an(i)
  BY <1>8, Zenon
<1>. QED  BY <1>4, <1>5, <1>6, <1>7, <1>8, <1>9

LEMMA LimitIs ==
  ASSUME Typed, StoresQueued, NEW t \in RobIdx
  PROVE  /\ Slot(t) = sq_head <=> Rank(t) = 0
         /\ Rank(t) # 0 => Rank(t) >= 1
         /\ Slot(t) # NO_SQ_POS /\ sq_head # NO_SQ_POS
         /\ Rank(t) = 0 => \A u \in HeldStores : ~(Age(u) < Age(t))
<1>1. /\ Rank(t) \in 0 .. STORE_QUEUE_SIZE - 1 /\ Slot(t) \in SqIdx
      /\ sq_head \in SqIdx /\ STORE_QUEUE_SIZE \in Nat
  BY RankIs, CoreAssumption DEF Typed, LsqTyped
<1>2. Slot(t) = sq_head <=> Rank(t) = 0
  BY <1>1, AtIs DEF Slot
<1>3. Rank(t) # 0 => Rank(t) >= 1
  BY <1>1
<1>4. Slot(t) # NO_SQ_POS /\ sq_head # NO_SQ_POS
  BY <1>1 DEF NO_SQ_POS, SqIdx
<1>5. ASSUME Rank(t) = 0, NEW u \in HeldStores, Age(u) < Age(t) PROVE FALSE
  <2>1. /\ HeldAges \in SUBSET Int /\ IsFiniteSet(HeldAges)
        /\ Age(u) \in HeldAges /\ u \in RobIdx /\ Age(t) \in Int
    BY HeldIs, NumbersAre
  <2>2. Rank(u) < Rank(t)
    BY <1>5, <2>1, CountBelowGrows DEF Rank
  <2>3. Rank(u) \in 0 .. STORE_QUEUE_SIZE - 1
    BY <2>1, RankIs
  <2>. QED  BY <1>1, <1>5, <2>2, <2>3
<1>. QED  BY <1>2, <1>3, <1>4, <1>5

\* What is known of the entry of load f when the cycle has told it of its
\* address and of the store that retires.
Found(e, f) ==
  LET w == working[f]
      t == rs_entries[f].T_dest
  IN  /\ e.valid
      /\ e.filled => /\ OperandsIn(f)
                     /\ e.addr = address(w.inst, w.rs_value[1])
                     /\ e.mem_size = w.inst.size
      /\ e.sq_pos = NO_SQ_POS =>
           \/ e.filled /\ ClearBefore(Age(t), e.addr, e.mem_size)
           \/ \A u \in HeldStores : ~(Age(u) < Age(t))
      /\ e.sq_pos # NO_SQ_POS => e.sq_pos = Slot(t) /\ Rank(t) >= 1

\* A load that keeps its unit is not the one that is dispatched.
LEMMA KeptUntold ==
  ASSUME Loads, NEW grant \in Grants(Requests), NEW f \in busy \ Freed(grant)
  PROVE  ~LoadDispatched(Disp(grant), f)
BY FreedIs, TakenAre, LoadGoesTo

LEMMA OldEntryIs ==
  ASSUME Typed, Loads, UnitsWork, StoresQueued, LoadsWait,
         NEW grant \in Grants(Requests), NEW f \in busy \ Freed(grant),
         rd_mem(working[f].inst)
  PROVE  /\ Found(EntryOf(grant, f), f)
         /\ EntryOf(grant, f) \in LoadType
         /\ lq_retire_valid[f] => KeepsValue(grant, f)
         /\ KeepsValue(grant, f) => lq_retire_valid[f]
         /\ lq_entries[f].filled =>
              /\ EntryOf(grant, f).filled
              /\ EntryOf(grant, f).addr = lq_entries[f].addr
              /\ EntryOf(grant, f).mem_size = lq_entries[f].mem_size
         /\ lq_entries[f].sq_pos = NO_SQ_POS =>
              EntryOf(grant, f).sq_pos = NO_SQ_POS
<1>1. /\ f \in FU_LS /\ rs_entries[f].T_dest \in RobIdx
      /\ lq_entries[f] \in LoadType
  BY MemOpIs DEF UnitsWork, Waiting, Live, Typed, LsqTyped
<1>2. PICK t \in RobIdx : t = rs_entries[f].T_dest
  BY <1>1
<1>3. LoadWaits(f)
  BY DEF LoadsWait
<1>4. ~LoadDispatched(Disp(grant), f)
  BY KeptUntold
<1>5. /\ LoadComputed(fu_lsq, f) <=> OperandsIn(f) /\ ~lq_entries[f].filled
      /\ fu_lsq[f].addr = address(working[f].inst, working[f].rs_value[1])
      /\ fu_lsq[f].mem_size = working[f].inst.size
  BY <1>1, <1>3 DEF LoadComputed, fu_lsq, LoadWaits
<1> DEFINE e == IF LoadComputed(fu_lsq, f)
                THEN [addr |-> fu_lsq[f].addr, mem_size |-> fu_lsq[f].mem_size,
                      valid |-> TRUE, filled |-> TRUE,
                      sq_pos |-> lq_entries[f].sq_pos]
                ELSE lq_entries[f]
<1>6. PICK d : d = EntryOf(grant, f)
  OBVIOUS
<1>7. d = IF sq_retire /\ e.sq_pos = sq_head
          THEN [e EXCEPT !.sq_pos = NO_SQ_POS] ELSE e
  BY <1>4, <1>6 DEF EntryOf, LoadEntry
<1>8. /\ e.valid /\ e.sq_pos = lq_entries[f].sq_pos
      /\ e.filled => /\ OperandsIn(f)
                     /\ e.addr = address(working[f].inst, working[f].rs_value[1])
                     /\ e.mem_size = working[f].inst.size
      /\ lq_entries[f].filled => e = lq_entries[f]
  BY <1>3, <1>5 DEF LoadWaits
<1>9. DOMAIN e = {"addr", "mem_size", "valid", "filled", "sq_pos"}
  BY <1>1 DEF LoadType
<1> HIDE DEF e
<1>10. /\ d.valid = e.valid /\ d.filled = e.filled
       /\ d.addr = e.addr /\ d.mem_size = e.mem_size
       /\ d.sq_pos = IF sq_retire /\ e.sq_pos = sq_head
                     THEN NO_SQ_POS ELSE e.sq_pos
  BY <1>7, <1>9
<1>11. ASSUME d.sq_pos = NO_SQ_POS
       PROVE  \/ d.filled /\ ClearBefore(Age(t), d.addr, d.mem_size)
              \/ \A u \in HeldStores : ~(Age(u) < Age(t))
  <2>1. CASE lq_entries[f].sq_pos = NO_SQ_POS
    <3>1. \/ /\ lq_entries[f].filled
             /\ ClearBefore(Age(t), lq_entries[f].addr, lq_entries[f].mem_size)
          \/ \A u \in HeldStores : ~(Age(u) < Age(t))
      BY <1>2, <1>3, <2>1 DEF LoadWaits
    <3>2. lq_entries[f].filled =>
            d.filled /\ d.addr = lq_entries[f].addr
            /\ d.mem_size = lq_entries[f].mem_size
      BY <1>8, <1>10
    <3>. QED  BY <3>1, <3>2
  <2>2. CASE lq_entries[f].sq_pos # NO_SQ_POS
    <3>1. lq_entries[f].sq_pos = sq_head /\ lq_entries[f].sq_pos = Slot(t)
      BY <1>2, <1>3, <1>8, <1>10, <1>11, <2>2 DEF LoadWaits
    <3>. QED  BY <1>2, <3>1, LimitIs
  <2>. QED  BY <2>1, <2>2
<1>12. ASSUME d.sq_pos # NO_SQ_POS
       PROVE  d.sq_pos = Slot(t) /\ Rank(t) >= 1
  <2>1. /\ d.sq_pos = lq_entries[f].sq_pos
        /\ lq_entries[f].sq_pos = Slot(t) /\ (Rank(t) = 0 => sq_rob_valid)
        /\ ~(sq_retire /\ lq_entries[f].sq_pos = sq_head)
    BY <1>2, <1>3, <1>8, <1>10, <1>12 DEF LoadWaits
  <2>2. sq_rob_valid => sq_retire
    BY DEF StoresQueued, sq_retire
  <2>. QED  BY <1>2, <2>1, <2>2, LimitIs
<1>13. d \in LoadType
  BY <1>1, <1>6, LoadEntryIs DEF EntryOf
<1>14. Found(d, f)
  BY <1>2, <1>8, <1>10, <1>11, <1>12 DEF Found
<1>15. lq_retire_valid[f] <=> KeepsValue(grant, f)
  BY <1>3, <1>4, <1>5 DEF KeepsValue, StillDone, LoadWaits
<1>. QED  BY <1>6, <1>8, <1>10, <1>13, <1>14, <1>15, <1>1, LimitIs

\* What the search of a load establishes.
LEMMA SearchSees ==
  ASSUME Typed, Loads, UnitsWork, StoresQueued, ~PartialOverlap,
         NEW grant \in Grants(Requests), NEW f \in busy,
         rd_mem(working[f].inst), NEW t, t = rs_entries[f].T_dest,
         NEW e, e = EntryOf(grant, f), Found(e, f)
  PROVE  /\ Clears(grant, f) => e.filled /\ ClearBefore(Age(t), e.addr, e.mem_size)
         /\ Forwards(grant, f) =>
              /\ e.filled
              /\ LoadSees(Age(t), e.addr, e.mem_size,
                   Trim(sq_entries[CHOOSE j \in StopOf(grant, f) : TRUE].value,
                        e.mem_size))
<1>1. t \in RobIdx
  BY DEF UnitsWork, Waiting, Live
<1> SUFFICES ASSUME Clears(grant, f) \/ Forwards(grant, f)
             PROVE  /\ Clears(grant, f) =>
                         e.filled /\ ClearBefore(Age(t), e.addr, e.mem_size)
                    /\ Forwards(grant, f) =>
                         /\ e.filled
                         /\ LoadSees(Age(t), e.addr, e.mem_size,
                              Trim(sq_entries[CHOOSE j \in StopOf(grant, f) :
                                                TRUE].value, e.mem_size))
  OBVIOUS
<1>2. e.filled /\ e.sq_pos # NO_SQ_POS /\ StopOf(grant, f) = Stop(e)
  BY DEF Clears, Forwards, StopOf, Searches
<1>3. /\ OperandsIn(f)
      /\ e.addr = address(working[f].inst, working[f].rs_value[1])
      /\ e.mem_size = working[f].inst.size
      /\ e.sq_pos = Slot(t) /\ Rank(t) >= 1
  BY <1>2 DEF Found
<1>4. ASSUME NEW u \in HeldStores, Age(u) < Age(t), ~Stops(e, Slot(u))
      PROVE  Apart(u, e.addr, e.mem_size)
  BY <1>3, <1>4, PassedApart
<1>5. ASSUME Clears(grant, f) PROVE ClearBefore(Age(t), e.addr, e.mem_size)
  <2>1. Stop(e) = {}
    BY <1>2, <1>5 DEF Clears
  <2>. QED  BY <1>1, <1>3, <1>4, <2>1, NoStopIs DEF ClearBefore
<1>6. ASSUME Forwards(grant, f)
      PROVE  LoadSees(Age(t), e.addr, e.mem_size,
                   Trim(sq_entries[CHOOSE j \in StopOf(grant, f) : TRUE].value,
                        e.mem_size))
  <2>1. PICK j \in Stop(e) : sq_entries[j].filled
    BY <1>2, <1>6 DEF Forwards
  <2>2. (CHOOSE i \in StopOf(grant, f) : TRUE) = j
    BY <1>1, <1>2, <1>3, <2>1, StopOnce
  <2>3. PICK u \in HeldStores :
          /\ Age(u) < Age(t) /\ j = Slot(u) /\ Stops(e, j)
          /\ \A w \in HeldStores :
               Age(u) < Age(w) /\ Age(w) < Age(t) => ~Stops(e, Slot(w))
    BY <1>1, <1>3, <2>1, StopIs
  <2>4. Filled(u) /\ SameAccess(u, e.addr, e.mem_size)
    BY <2>1, <2>3 DEF Filled, SameAccess, Stops, SameWord
  <2>5. \A w \in HeldStores : Age(u) < Age(w) /\ Age(w) < Age(t) =>
                                Apart(w, e.addr, e.mem_size)
    BY <1>4, <2>3
  <2>. QED  BY <2>2, <2>3, <2>4, <2>5 DEF LoadSees
<1>. QED  BY <1>2, <1>5, <1>6

\* What the data cache answers is what the load reads.
LEMMA AnswerSees ==
  ASSUME Typed, LoadsWait, NEW slow, NEW f \in FU_LS, Answered(slow, f),
         NEW t, t = rs_entries[f].T_dest
  PROVE  /\ f \in busy /\ rd_mem(working[f].inst) /\ ~lq_retire_valid[f]
         /\ lq_entries[f].filled
         /\ LoadSees(Age(t), lq_entries[f].addr, lq_entries[f].mem_size,
                     Trim(MemRead(mem, lq_entries[f].addr,
                                  lq_entries[f].mem_size),
                          lq_entries[f].mem_size))
<1>1. /\ lq_entries[f].sq_pos = NO_SQ_POS /\ lq_entries[f].valid
      /\ lq_entries[f].filled /\ ~lq_retire_valid[f]
  BY DEF Answered, lsq_load_dc, Asks
<1>2. f \in busy /\ rd_mem(working[f].inst) /\ LoadWaits(f)
  BY <1>1 DEF LoadsWait
<1>3. ClearBefore(Age(t), lq_entries[f].addr, lq_entries[f].mem_size)
  BY <1>1, <1>2 DEF LoadWaits, ClearBefore
<1>4. mem \in MemType /\ lq_entries[f].addr \in ByteAddr
  BY DEF Typed, LsqTyped, LoadType, MemType
<1>. QED  BY <1>1, <1>2, <1>3, <1>4, TrimRead DEF LoadSees

\* A load that keeps its unit, with what its search and the data cache tell
\* it in the cycle.
LEMMA KeptLoad ==
  ASSUME Typed, Loads, UnitsWork, StoresQueued, LoadsWait, ~PartialOverlap,
         NEW grant, NEW slow, NEW late, Moves(grant, slow, late),
         ~squash(sq_rob_valid), NEW f \in busy \ Freed(grant),
         rd_mem(working[f].inst), NEW t, t = rs_entries[f].T_dest,
         NEW d, d = lq_entries'[f]
  PROVE  /\ Found(d, f)
         /\ lq_retire_valid'[f] =>
              d.filled /\ LoadSees(Age(t), d.addr, d.mem_size,
                                   Trim(lq_value'[f], d.mem_size))
<1>1. grant \in Grants(Requests) /\ f \in FU_LS
  BY MemOpIs DEF Moves, UnitsWork
<1>2. PICK e : e = EntryOf(grant, f)
  OBVIOUS
<1>3. /\ Found(e, f) /\ e \in LoadType
      /\ lq_retire_valid[f] <=> KeepsValue(grant, f)
      /\ lq_entries[f].filled =>
           e.filled /\ e.addr = lq_entries[f].addr
           /\ e.mem_size = lq_entries[f].mem_size
  BY <1>1, <1>2, OldEntryIs
<1>4. /\ d = IF Clears(grant, f) THEN [e EXCEPT !.sq_pos = NO_SQ_POS] ELSE e
      /\ lq_retire_valid'[f] <=> \/ KeepsValue(grant, f)
                                 \/ Forwards(grant, f) \/ Answered(slow, f)
      /\ lq_value'[f] =
           IF Answered(slow, f)
           THEN MemRead(mem, lq_entries[f].addr, lq_entries[f].mem_size)
           ELSE IF Forwards(grant, f)
           THEN sq_entries[CHOOSE j \in StopOf(grant, f) : TRUE].value
           ELSE lq_value[f]
  BY <1>1, <1>2, LoadQueueMoves
<1>5. /\ d.valid = e.valid /\ d.filled = e.filled
      /\ d.addr = e.addr /\ d.mem_size = e.mem_size
      /\ d.sq_pos = IF Clears(grant, f) THEN NO_SQ_POS ELSE e.sq_pos
  BY <1>3, <1>4 DEF LoadType
<1>6. /\ Clears(grant, f) => e.filled /\ ClearBefore(Age(t), e.addr, e.mem_size)
      /\ Forwards(grant, f) =>
           /\ e.filled
           /\ LoadSees(Age(t), e.addr, e.mem_size,
                Trim(sq_entries[CHOOSE j \in StopOf(grant, f) : TRUE].value,
                     e.mem_size))
  BY <1>1, <1>2, <1>3, SearchSees
<1>7. Found(d, f)
  BY <1>3, <1>5, <1>6 DEF Found
<1>8. ASSUME lq_retire_valid'[f]
      PROVE  e.filled /\ LoadSees(Age(t), e.addr, e.mem_size,
                                  Trim(lq_value'[f], e.mem_size))
  <2>1. CASE Answered(slow, f)
    BY <1>1, <1>3, <1>4, <2>1, AnswerSees
  <2>2. CASE ~Answered(slow, f) /\ Forwards(grant, f)
    BY <1>4, <1>6, <2>2
  <2>3. CASE ~Answered(slow, f) /\ ~Forwards(grant, f)
    <3>1. lq_retire_valid[f] /\ lq_value'[f] = lq_value[f]
      BY <1>3, <1>4, <1>8, <2>3
    <3>2. LoadWaits(f)
      BY DEF LoadsWait
    <3>. QED  BY <1>3, <3>1, <3>2 DEF LoadWaits
  <2>. QED  BY <2>1, <2>2, <2>3
<1>. QED  BY <1>5, <1>7, <1>8

-----------------------------------------------------------------------------
(* The loads wait.                                                         *)

\* A unit that has its operands keeps them until its result is granted.
LEMMA WorkKeeps ==
  ASSUME Typed, Loads, NEW grant, NEW slow, NEW late,
         Moves(grant, slow, late), ~squash(sq_rob_valid),
         NEW f \in busy \ Freed(grant), OperandsIn(f)
  PROVE  /\ OperandsIn(f)' /\ working'[f].rs_value = working[f].rs_value
         /\ working'[f].inst = working[f].inst
<1>1. /\ grant \in Grants(Requests) /\ f \in Fu /\ working[f] \in WorkingType
      /\ working[f].inst # NOP /\ working[f].rs_value_valid
  BY DEF Moves, RsTyped, Typed, OperandsIn, Loaded
<1>2. f \notin Taken_0(grant) /\ (f \in Taken_1(grant)) = FALSE
  BY <1>1, TakenAre, FreedIs
<1>3. PICK freed : freed = Freed(grant)
  OBVIOUS
<1>4. PICK info : info = NextOf(grant)[f].rs_entry_info
  OBVIOUS
<1>5. PICK p, pos : working'[f] = NextWorking(f, freed, FALSE, p, info, pos)
  <2>1. working'[f] = NextWorking(f, freed, f \in Taken_1(grant),
                                  id_packet_out_1, info,
                                  storeq_pos(id_packet_out_1))
    BY <1>1, <1>2, <1>3, <1>4, StepRsIs
  <2>. QED  BY <1>2, <2>1
<1>6. working'[f] = [working[f] EXCEPT !.selected = FALSE]
  BY <1>1, <1>3, <1>5 DEF NextWorking
<1>7. /\ working'[f].rs_value = working[f].rs_value
      /\ working'[f].inst = working[f].inst
      /\ working'[f].rs_value_valid = working[f].rs_value_valid
  BY <1>1, <1>6 DEF WorkingType
<1>. QED  BY <1>1, <1>7 DEF OperandsIn, Loaded

\* A load whose unit works for it is no store, and does not leave.
LEMMA LoadWorks ==
  ASSUME Typed, UnitsWork, EntriesGood, StoresQueued, NEW f \in busy,
         rd_mem(working[f].inst), NEW t, t = rs_entries[f].T_dest
  PROVE  /\ t \in RobIdx /\ t \in Live /\ Stays(t) /\ t \in Waiting
         /\ t \notin HeldStores /\ f \in FU_LS
         /\ \A late : StoreTaken(late) => t # rob_head /\ Age(t) # 0
<1>1. t \in Waiting /\ t \in Live /\ t \in RobIdx /\ ~rob_entries[t].ready
  BY DEF UnitsWork, Waiting, Live
<1>2. rd_mem(Word(t)) /\ f \in fu_type(working[f].inst)
  BY DEF UnitsWork, Word
<1>3. ~rob_entries[t].store
  BY <1>1, <1>2, MemOpIs DEF EntriesGood, EntryGood, GoodEntry
<1>4. t \notin HeldStores
  BY <1>3 DEF HeldStores, StoresInRob
<1>5. ~Leaves(t)
  BY <1>1, LeavesAre DEF Leaves, Retired, Leaves_0, Leaves_1, HeadEntry, SecondEntry
<1>6. ASSUME NEW late, StoreTaken(late) PROVE t # rob_head /\ Age(t) # 0
  <2>1. rob_head \in HeldStores /\ rob_head \in RobIdx /\ Age(rob_head) = 0
    BY <1>6, TakenStoreIs, EntriesAre DEF Typed
  <2>. QED  BY <1>1, <1>4, <2>1, AgeIs DEF Typed
<1>. QED  BY <1>1, <1>2, <1>4, <1>5, <1>6, MemOpIs DEF Stays

LEMMA KeptWaits ==
  ASSUME Typed, FrontGood, Loads, ~Phantoms, UnitsWork, EntriesGood,
         StoresQueued, LoadsWait, ~PartialOverlap,
         NEW grant, NEW slow, NEW late, Moves(grant, slow, late),
         ~squash(sq_rob_valid), NEW f \in busy \ Freed(grant),
         rd_mem(working[f].inst)
  PROVE  LoadWaits(f)'
<1>1. PICK t : t = rs_entries[f].T_dest
  OBVIOUS
<1>2. PICK d : d = lq_entries'[f]
  OBVIOUS
<1>3. PICK v : v = lq_value'[f]
  OBVIOUS
<1>4. PICK n : n = Age(t)
  OBVIOUS
<1>5. PICK m : m = n - Left
  OBVIOUS
<1>6. /\ t \in RobIdx /\ t \in Live /\ Stays(t) /\ f \in FU_LS /\ f \in Fu
      /\ StoreTaken(late) => t # rob_head /\ n # 0
  BY <1>1, <1>4, LoadWorks DEF Typed, RsTyped
<1>7. /\ Found(d, f)
      /\ lq_retire_valid'[f] =>
           d.filled /\ LoadSees(n, d.addr, d.mem_size, Trim(v, d.mem_size))
  BY <1>1, <1>2, <1>3, <1>4, KeptLoad
<1>8. /\ working'[f].inst = working[f].inst /\ rs_entries'[f].T_dest = t
  BY <1>1, <1>6, UnitMoves DEF KeepsWork
<1>9. Age(t)' = m /\ n \in Int /\ 0 <= n /\ n <= rob_counter
  BY <1>4, <1>5, <1>6, StaysMove, NumbersAre DEF Stays
<1>10. d.addr \in ByteAddr
  <2>1. d \in LoadType
    <3>1. lq_entries' \in [FU_LS -> LoadType]
      BY LsqTypeMoves DEF LsqTyped, LoadType, NO_SQ_POS
    <3>. QED  BY <1>2, <1>6, <3>1
  <2>. QED  BY <2>1 DEF LoadType
<1>11. d.filled => /\ OperandsIn(f)'
                   /\ d.addr = address(working'[f].inst, working'[f].rs_value[1])
                   /\ d.mem_size = working'[f].inst.size
  BY <1>7, WorkKeeps DEF Found
<1>12. d.sq_pos = NO_SQ_POS =>
         \/ d.filled /\ ClearBefore(m, d.addr, d.mem_size)'
         \/ \A u \in HeldStores' : ~(Age(u)' < m)
  <2>1. ASSUME ClearBefore(n, d.addr, d.mem_size)
        PROVE  ClearBefore(m, d.addr, d.mem_size)'
    BY <1>5, <1>9, <2>1, ClearMoves
  <2>2. ASSUME \A u \in HeldStores : ~(Age(u) < n),
               NEW u \in HeldStores', Age(u)' < m
        PROVE  FALSE
    <3>1. u \in RobIdx
      BY DEF HeldStores, StoresInRob, Live, RobIdx
    <3>. QED  BY <1>5, <1>9, <2>2, <3>1, HeldBefore
  <2>. QED  BY <1>1, <1>4, <1>7, <2>1, <2>2 DEF Found
<1>13. ASSUME d.sq_pos # NO_SQ_POS
       PROVE  d.sq_pos = Slot(t)' /\ (Rank(t)' = 0 => sq_rob_valid')
  <2>1. d.sq_pos = Slot(t) /\ Rank(t) >= 1
    BY <1>1, <1>7, <1>13 DEF Found
  <2>2. Slot(t)' = Slot(t)
    BY <1>6, SlotsMove
  <2>3. Rank(t)' = Rank(t) - (IF StoreTaken(late) THEN 1 ELSE 0)
    BY <1>6, RanksMove
  <2>4. sq_rob_valid' = StoreTaken(late)
    BY QueueStepIs
  <2>. QED  BY <2>1, <2>2, <2>3, <2>4
<1>14. lq_retire_valid'[f] =>
         d.filled /\ LoadSees(m, d.addr, d.mem_size, Trim(v, d.mem_size))'
  BY <1>5, <1>6, <1>7, <1>9, <1>10, LoadSeesMoves
<1>15. t = rs_entries'[f].T_dest /\ m = Age(t)'
  BY <1>8, <1>9
<1>16. d.valid
  BY <1>7 DEF Found
<1>. QED  BY <1>2, <1>3, <1>11, <1>12, <1>13, <1>14, <1>15, <1>16 DEF LoadWaits

\* A unit whose load waits is not granted a bus.
LEMMA WaitsUngranted ==
  ASSUME Typed, Loads, NEW grant \in Grants(Requests), NEW f \in busy,
         f \in FU_LS, rd_mem(working[f].inst), ~lq_retire_valid[f]
  PROVE  f \notin Freed(grant)
<1>1. f \notin Requests
  <2>1. lsq_fu[f].valid = lq_retire_valid[f]
    BY DEF lsq_fu
  <2>. QED  BY <2>1, MemOpIs DEF Requests, fu_result_valid
<1>. QED  BY <1>1, GrantIs DEF Freed, Granted

\* The entry of a load that is dispatched.
LEMMA NewLoadIs ==
  ASSUME Typed, Loads, StoresQueued, LoadsWait,
         NEW grant, NEW slow, NEW late, Moves(grant, slow, late),
         ~squash(sq_rob_valid), NEW f \in FU_LS,
         f \in Taken_0(grant) \cup Taken_1(grant),
         LoadDispatched(Disp(grant), f)
  PROVE  /\ lq_entries'[f].valid /\ ~lq_entries'[f].filled
         /\ ~lq_retire_valid'[f]
         /\ lq_entries'[f].sq_pos = IF sq_counter = 0 THEN NO_SQ_POS ELSE sq_tail
         /\ sq_tail # NO_SQ_POS
<1>1. grant \in Grants(Requests)
  BY DEF Moves
<1> DEFINE e == [addr |-> 0, mem_size |-> 0, valid |-> TRUE, filled |-> FALSE,
                 sq_pos |-> storeq_tail]
<1>2. PICK d : d = EntryOf(grant, f)
  OBVIOUS
<1>3. d = IF sq_retire /\ e.sq_pos = sq_head
          THEN [e EXCEPT !.sq_pos = NO_SQ_POS] ELSE e
  BY <1>2 DEF EntryOf, LoadEntry
<1>4. /\ sq_head \in SqIdx /\ sq_tail = At(sq_head, sq_counter)
      /\ sq_counter \in 0 .. STORE_QUEUE_SIZE - 1 /\ STORE_QUEUE_SIZE \in Nat
  BY CoreAssumption, HeldIs DEF Typed, LsqTyped, StoresQueued
<1>5. /\ sq_tail \in SqIdx /\ (sq_counter # 0 => sq_tail # sq_head)
      /\ NO_SQ_POS \notin SqIdx
  <2>1. NO_SQ_POS \notin SqIdx
    BY <1>4 DEF NO_SQ_POS, SqIdx
  <2>. QED  BY <1>4, <2>1, AtIs
<1>6. storeq_tail # sq_head
  BY <1>4, <1>5 DEF storeq_tail
<1>7. d = e
  BY <1>3, <1>6
<1>8. d.valid /\ ~d.filled /\ d.sq_pos = storeq_tail
  BY <1>7
<1>9. ~Answered(slow, f)
  <2>1. SUFFICES ASSUME Answered(slow, f) PROVE FALSE
    OBVIOUS
  <2>2. f \in busy /\ rd_mem(working[f].inst) /\ ~lq_retire_valid[f]
    BY <2>1, AnswerSees
  <2>3. f \in busy \ Freed(grant)
    BY <1>1, <2>2, WaitsUngranted
  <2>. QED  BY <1>1, <2>3, TakenAre, FreedIs
<1>10. ~KeepsValue(grant, f) /\ ~Forwards(grant, f) /\ ~Clears(grant, f)
  <2>1. ~Searches(d, KeepsValue(grant, f))
    BY <1>8 DEF Searches
  <2>. QED  BY <1>2, <2>1 DEF KeepsValue, StillDone, Forwards, Clears, StopOf
<1>11. lq_entries'[f] = d /\ ~lq_retire_valid'[f]
  BY <1>2, <1>9, <1>10, LoadQueueMoves
<1>. QED  BY <1>5, <1>8, <1>11 DEF storeq_tail

LEMMA NewWaits ==
  ASSUME Typed, FrontGood, Loads, ~Phantoms, StoresQueued, LoadsWait,
         NEW grant, NEW slow, NEW late, Moves(grant, slow, late),
         ~squash(sq_rob_valid),
         NEW f \in Taken_0(grant) \cup Taken_1(grant),
         rd_mem(working'[f].inst)
  PROVE  LoadWaits(f)'
<1>1. /\ grant \in Grants(Requests) /\ f \in Fu
      /\ rob_tail \in RobIdx /\ rob_tail_plus_1 \in RobIdx
      /\ rob_counter \in Int /\ Left \in Int
  BY TakenAre, EntriesAre, NumbersAre DEF Moves, Typed
<1>2. \/ /\ f \in Taken_0(grant) /\ Enters_0(grant)
         /\ GetsWork(f, id_packet_out_0, rob_tail)
      \/ /\ f \in Taken_1(grant) /\ Enters_1(grant)
         /\ GetsWork(f, id_packet_out_1, rob_tail_plus_1)
  BY <1>1, UnitMoves, StartsAre, StartsEnter DEF Takes
<1>3. PICK t \in RobIdx : t = rs_entries'[f].T_dest
  BY <1>1, <1>2 DEF GetsWork
<1>4. f \in FU_LS /\ LoadDispatched(Disp(grant), f)
  BY <1>2, MemOpIs, LoadGoesTo DEF GetsWork
<1>5. PICK d : d = lq_entries'[f]
  OBVIOUS
<1>6. /\ d.valid /\ ~d.filled /\ ~lq_retire_valid'[f]
      /\ d.sq_pos = IF sq_counter = 0 THEN NO_SQ_POS ELSE sq_tail
      /\ sq_tail # NO_SQ_POS
  BY <1>4, <1>5, NewLoadIs
<1>7. \/ /\ Enters_0(grant) /\ t = rob_tail /\ ~wr_mem(id_packet_out_0.inst)
      \/ /\ Enters_1(grant) /\ t = rob_tail_plus_1
         /\ ~wr_mem(id_packet_out_0.inst) /\ ~wr_mem(id_packet_out_1.inst)
         /\ fu_type(id_packet_out_1.inst) = FU_LS
  <2>1. CASE /\ f \in Taken_0(grant) /\ Enters_0(grant)
             /\ GetsWork(f, id_packet_out_0, rob_tail)
    BY <1>3, <2>1, MemOpIs DEF GetsWork
  <2>2. CASE /\ f \in Taken_1(grant) /\ Enters_1(grant)
             /\ GetsWork(f, id_packet_out_1, rob_tail_plus_1)
    <3>1. rd_mem(id_packet_out_1.inst)
      BY <2>2 DEF GetsWork
    <3>. QED  BY <1>3, <2>2, <3>1, MemOpIs, StoreEntersIs DEF GetsWork
  <2>. QED  BY <1>2, <2>1, <2>2
<1>8. /\ Slot(t)' = sq_tail
      /\ Rank(t)' = sq_counter - Acked(late)
  <2>1. Slot(t)' = sq_tail
    BY <1>7, SlotsMove
  <2>2. CASE Enters_0(grant) /\ t = rob_tail
    BY <2>1, <2>2, RanksMove
  <2>3. CASE /\ Enters_1(grant) /\ t = rob_tail_plus_1
             /\ ~wr_mem(id_packet_out_0.inst)
    <3>1. Rank(t)' = sq_counter - Acked(late) + 0
      BY <2>3, RanksMove
    <3>2. sq_counter - Acked(late) \in Int
      BY TakenStoreIs DEF Acked, Typed, LsqTyped
    <3>. QED  BY <2>1, <3>1, <3>2
  <2>. QED  BY <1>7, <2>2, <2>3
<1>9. ASSUME sq_counter = 0, NEW u \in HeldStores', Age(u)' < Age(t)'
      PROVE  FALSE
  <2>1. u \in RobIdx
    BY DEF HeldStores, StoresInRob, Live, RobIdx
  <2>2. u \notin HeldStores
    BY <1>9, <2>1, RankIs
  <2>3. CASE Enters_0(grant) /\ t = rob_tail /\ ~wr_mem(id_packet_out_0.inst)
    <3>1. Enters_1(grant) /\ u = rob_tail_plus_1
      BY <2>1, <2>2, <2>3, HeldMoves
    <3>2. Age(u)' = rob_counter - Left + 1 /\ Age(t)' = rob_counter - Left
      BY <2>1, <2>3, <3>1, AgeMoves
    <3>. QED  BY <1>1, <1>9, <3>2
  <2>4. CASE /\ Enters_1(grant) /\ t = rob_tail_plus_1
             /\ ~wr_mem(id_packet_out_0.inst) /\ ~wr_mem(id_packet_out_1.inst)
    BY <2>1, <2>2, <2>4, HeldMoves
  <2>. QED  BY <1>7, <2>3, <2>4
<1>10. ASSUME sq_counter # 0
       PROVE  d.sq_pos = Slot(t)' /\ (Rank(t)' = 0 => sq_rob_valid')
  <2>1. sq_rob_valid' = StoreTaken(late)
    BY QueueStepIs
  <2>. QED  BY <1>6, <1>8, <1>10, <2>1 DEF Acked, Typed, LsqTyped
<1>11. PICK n : n = Age(t)'
  OBVIOUS
<1>12. /\ d.sq_pos = NO_SQ_POS => \A u \in HeldStores' : ~(Age(u)' < Age(t)')
       /\ d.sq_pos # NO_SQ_POS =>
            d.sq_pos = Slot(t)' /\ (Rank(t)' = 0 => sq_rob_valid')
  BY <1>6, <1>9, <1>10
<1>. QED  BY <1>3, <1>5, <1>6, <1>12 DEF LoadWaits

LEMMA LoadsMove ==
  ASSUME Typed, FrontGood, Loads, ~Phantoms, UnitsWork, EntriesGood,
         StoresQueued, LoadsWait, ~PartialOverlap,
         NEW grant, NEW slow, NEW late, Moves(grant, slow, late),
         ~squash(sq_rob_valid)
  PROVE  LoadsWait'
<1>1. grant \in Grants(Requests) /\ FU_LS \subseteq Fu
  BY DEF Moves, Fu
<1>2. ASSUME NEW f \in busy', rd_mem(working'[f].inst) PROVE LoadWaits(f)'
  <2>1. f \in Fu
    BY RsTypeMoves DEF RsTyped
  <2>2. CASE f \in busy \ Freed(grant)
    <3>1. rd_mem(working[f].inst)
      BY <1>2, <2>1, <2>2, UnitMoves DEF KeepsWork
    <3>. QED  BY <2>2, <3>1, KeptWaits
  <2>3. CASE f \in Taken_0(grant) \cup Taken_1(grant)
    BY <1>2, <2>3, NewWaits
  <2>. QED  BY <2>1, <2>2, <2>3, UnitMoves
<1>3. ASSUME NEW f \in FU_LS, lq_entries'[f].valid, ~lq_retire_valid'[f]
      PROVE  f \in busy' /\ rd_mem(working'[f].inst)
  <2>1. f \in Fu
    BY <1>1
  <2>2. CASE LoadDispatched(Disp(grant), f)
    BY <2>1, <2>2, LoadGoesTo, UnitMoves DEF GetsWork
  <2>3. CASE ~LoadDispatched(Disp(grant), f)
    <3>1. lq_entries[f].valid
      <4>1. EntryOf(grant, f).valid
        <5>1. EntryOf(grant, f) \in LoadType
          BY LoadEntryIs DEF EntryOf
        <5>. QED  BY <1>3, <5>1, LoadQueueMoves DEF LoadType
      <4> DEFINE e == IF LoadComputed(fu_lsq, f)
                      THEN [addr |-> fu_lsq[f].addr,
                            mem_size |-> fu_lsq[f].mem_size,
                            valid |-> TRUE, filled |-> TRUE,
                            sq_pos |-> lq_entries[f].sq_pos]
                      ELSE lq_entries[f]
      <4>2. EntryOf(grant, f) = IF sq_retire /\ e.sq_pos = sq_head
                                THEN [e EXCEPT !.sq_pos = NO_SQ_POS] ELSE e
        BY <2>3 DEF EntryOf, LoadEntry
      <4>3. DOMAIN e = {"addr", "mem_size", "valid", "filled", "sq_pos"}
            /\ (e.valid => lq_entries[f].valid)
        BY DEF LoadType, Typed, LsqTyped, LoadComputed
      <4> HIDE DEF e
      <4>4. e.valid
        BY <4>1, <4>2, <4>3
      <4>. QED  BY <4>3, <4>4
    <3>2. ~KeepsValue(grant, f)
      BY <1>3, LoadQueueMoves
    <3>3. CASE lq_retire_valid[f]
      <4>1. LoadComputed(fu_lsq, f)
        BY <2>3, <3>2, <3>3 DEF KeepsValue, StillDone
      <4>2. OperandsIn(f) /\ rd_mem(working[f].inst) /\ ~lq_entries[f].filled
        BY <4>1 DEF LoadComputed, fu_lsq
      <4>3. f \in busy
        BY <2>1, <4>2 DEF OperandsIn, Loads
      <4>. QED  BY <3>3, <4>2, <4>3 DEF LoadsWait, LoadWaits
    <3>4. CASE ~lq_retire_valid[f]
      <4>1. f \in busy /\ rd_mem(working[f].inst)
        BY <3>1, <3>4 DEF LoadsWait
      <4>2. f \in busy \ Freed(grant)
        BY <1>1, <3>4, <4>1, WaitsUngranted
      <4>. QED  BY <2>1, <4>1, <4>2, UnitMoves DEF KeepsWork
    <3>. QED  BY <3>3, <3>4
  <2>. QED  BY <2>2, <2>3
<1>. QED  BY <1>2, <1>3 DEF LoadsWait

-----------------------------------------------------------------------------
(* The results.                                                            *)

\* What a unit gives to the bus is what its instruction says.
LEMMA FinishSays ==
  ASSUME Typed, Loads, UnitsWork, EntriesGood, StationsGood, LoadsWait,
         NEW f \in Requests, NEW t, t = rs_entries[f].T_dest,
         rs_cdb(f, lsq_fu) \in CdbEntry
  PROVE  /\ t \in Live
         /\ \E v1, v2 \in Value :
              /\ ReadsBoth(Age(t), Word(t), v1, v2)
              /\ ResultSays(Complete(rob_entries[t], rs_cdb(f, lsq_fu)),
                            Word(t), Age(t), v1, v2)
<1>1. /\ f \in busy /\ OperandsIn(f) /\ working[f].rs_value_valid
      /\ IF f \in FU_LS THEN wr_mem(working[f].inst) \/ lsq_fu[f].valid
         ELSE ~working[f].selected /\ unit[f].valid
  BY RequestsAre DEF Requests, fu_result_valid, OperandsIn
<1>2. /\ t \in Live /\ t \in RobIdx /\ working[f].PC = rob_entries[t].PC
      /\ rob_entries[t] \in RobEntry
      /\ f \in fu_type(working[f].inst)
  BY <1>1, EntriesAre DEF UnitsWork, Waiting, Live, Typed
<1>3. PICK i : i = working[f].inst
  OBVIOUS
<1>4. PICK v1 : v1 = working[f].rs_value[1]
  OBVIOUS
<1>5. PICK v2 : v2 = working[f].rs_value[2]
  OBVIOUS
<1>6. /\ i = Word(t) /\ i \in Decoded /\ v1 \in Value /\ v2 \in Value
      /\ ReadsBoth(Age(t), i, v1, v2)
  BY <1>1, <1>3, <1>4, <1>5, WorksWith
<1>7. PICK npc : npc = NPC(working[f].PC)
  OBVIOUS
<1>8. PICK res : res = UnitResult(f, lsq_fu)
  OBVIOUS
<1>9. PICK e : e = Complete(rob_entries[t], rs_cdb(f, lsq_fu))
  OBVIOUS
<1>10. /\ e.value = IF TakesBranch(f) THEN npc ELSE res
       /\ e.branch_target = IF TakesBranch(f) THEN res ELSE npc
       /\ e.PC = rob_entries[t].PC /\ NPC(e.PC) = npc
  <2>1. /\ e.value = rs_cdb(f, lsq_fu).value
        /\ e.branch_target = rs_cdb(f, lsq_fu).branch_target
        /\ e.PC = rob_entries[t].PC
    BY <1>2, <1>9, CompleteIs DEF SameInst
  <2>. QED  BY <1>2, <1>7, <1>8, <2>1 DEF rs_cdb
<1>11. CASE f \in FU_BEQ
  <2>1. f \notin FU_LS /\ f \notin FU_ALU /\ f \notin FU_MULT
    BY <1>11, SelectionAssumption
  <2>2. cond_branch(i) \/ uncond_branch(i)
    BY <1>2, <1>3, <2>1 DEF fu_type
  <2>3. /\ dest_reg_idx(i) = ZERO_REG \/ uncond_branch(i)
        /\ ~rd_mem(i)
    BY <2>2 DEF dest_reg_idx, cond_branch, uncond_branch, rd_mem
  <2>4. res = alu_result(i, v1, v2)
    BY <1>3, <1>4, <1>5, <1>8, <1>11, <2>1 DEF UnitResult
  <2>5. unit[f].result = 1 <=> v1 = v2
    BY <1>1, <1>4, <1>5, <1>11, <2>1 DEF StationsGood, UnitGood
  <2>6. TakesBranch(f) <=> take_branch(i, v1, v2)
    BY <1>3, <1>11, <2>5 DEF TakesBranch, take_branch
  <2>7. e.branch_target = next_pc(i, e.PC, v1, v2)
    BY <1>10, <2>4, <2>6 DEF next_pc
  <2>8. uncond_branch(i) => e.value = NPC(e.PC)
    BY <1>10, <2>6 DEF take_branch
  <2>9. ResultSays(e, i, Age(t), v1, v2)
    BY <2>3, <2>7, <2>8 DEF ResultSays
  <2>. QED  BY <1>2, <1>6, <1>9, <2>9
<1>12. CASE f \notin FU_BEQ
  <2>1. ~cond_branch(i) /\ ~uncond_branch(i)
    BY <1>2, <1>3, <1>12 DEF fu_type
  <2>2. ~TakesBranch(f) /\ ~take_branch(i, v1, v2)
    BY <1>12, <2>1 DEF TakesBranch, take_branch
  <2>3. e.value = res /\ e.branch_target = next_pc(i, e.PC, v1, v2)
    BY <1>10, <2>2 DEF next_pc
  <2>4. CASE f \in FU_LS
    <3>1. f \notin FU_ALU /\ f \notin FU_MULT
      BY <2>4, SelectionAssumption
    <3>2. rd_mem(i) \/ wr_mem(i)
      BY <1>2, <1>3, <2>1, <3>1 DEF fu_type
    <3>3. rd_mem(i) \/ dest_reg_idx(i) = ZERO_REG
      BY <3>2 DEF wr_mem, rd_mem, dest_reg_idx
    <3>4. ASSUME rd_mem(i)
          PROVE  LoadSees(Age(t), address(i, v1), i.size, e.value)
      <4>1. LoadWaits(f)
        BY <1>1, <1>3, <3>4 DEF LoadsWait
      <4>2. lq_retire_valid[f] /\ lsq_fu[f].value = lq_value[f]
        BY <1>1, <1>3, <2>4, <3>4, MemOpIs DEF lsq_fu
      <4>3. res = Trim(lq_value[f], i.size)
        BY <1>3, <1>8, <2>4, <3>4, <4>2, MemOpIs DEF UnitResult
      <4>4. LoadSees(Age(t), address(i, v1), i.size, Trim(lq_value[f], i.size))
        BY <1>3, <1>4, <4>1, <4>2 DEF LoadWaits
      <4>. QED  BY <2>3, <4>3, <4>4
    <3>5. ResultSays(e, i, Age(t), v1, v2)
      BY <2>1, <2>3, <3>3, <3>4 DEF ResultSays
    <3>. QED  BY <1>2, <1>6, <1>9, <3>5
  <2>5. CASE f \notin FU_LS
    <3>1. f \in FU_ALU \cup FU_MULT /\ ~rd_mem(i)
      BY <1>2, <1>3, <1>12, <2>1, <2>5, MemOpIs DEF fu_type
    <3>2. res = unit[f].result
      BY <1>8, <1>12, <2>5 DEF UnitResult
    <3>3. res = alu_result(i, v1, v2)
      BY <1>1, <1>3, <1>4, <1>5, <2>5, <3>1, <3>2 DEF StationsGood, UnitGood
    <3>4. ResultSays(e, i, Age(t), v1, v2)
      BY <2>1, <2>3, <3>1, <3>3 DEF ResultSays
    <3>. QED  BY <1>2, <1>6, <1>9, <3>4
  <2>. QED  BY <2>4, <2>5
<1>. QED  BY <1>11, <1>12

\* The entry of an instruction that stays says the same after the cycle.
LEMMA ResultMoves ==
  ASSUME Typed, FrontGood, Loads, ~Phantoms, UnitsWork, EntriesGood,
         StoresQueued, NEW grant, NEW slow, NEW late,
         Moves(grant, slow, late), ~squash(sq_rob_valid),
         NEW t \in Live, ~Leaves(t), NEW e, e = rob_entries'[t],
         NEW v1 \in Value, NEW v2 \in Value,
         ReadsBoth(Age(t), Word(t), v1, v2),
         ResultSays(e, Word(t), Age(t), v1, v2)
  PROVE  ResultGood(t)'
<1>1. t \in RobIdx
  BY DEF Live
<1>2. PICK i : i = Word(t)
  OBVIOUS
<1>3. PICK n : n = Age(t)
  OBVIOUS
<1>4. PICK m : m = n - Left
  OBVIOUS
<1>5. /\ Word(t)' = i /\ i \in Decoded /\ Age(t)' = m
      /\ n \in Int /\ Left <= n /\ n <= rob_counter /\ 0 <= n
  BY <1>1, <1>2, <1>3, <1>4, StaysMove, NumbersAre
<1>6. ReadsBoth(m, i, v1, v2)'
  BY <1>2, <1>3, <1>4, <1>5, BothMove
<1>7. ASSUME rd_mem(i), LoadSees(n, address(i, v1), i.size, e.value)
      PROVE  LoadSees(m, address(i, v1), i.size, e.value)'
  <2>1. ~rob_entries[t].store
    BY <1>2, <1>7, MemOpIs DEF EntriesGood, EntryGood, GoodEntry
  <2>2. StoreTaken(late) => n # 0
    <3>1. SUFFICES ASSUME StoreTaken(late), n = 0 PROVE FALSE
      OBVIOUS
    <3>2. rob_head \in HeldStores /\ rob_head \in RobIdx /\ Age(rob_head) = 0
      BY <3>1, TakenStoreIs, EntriesAre DEF Typed
    <3>3. t = rob_head
      BY <1>1, <1>3, <3>1, <3>2, AgeIs DEF Typed
    <3>. QED  BY <2>1, <3>2, <3>3 DEF HeldStores, StoresInRob
  <2>3. PICK a \in ByteAddr : a = address(i, v1)
    BY <1>5, AddressIs
  <2>. QED  BY <1>4, <1>5, <1>7, <2>2, <2>3, LoadSeesMoves
<1>8. ResultSays(e, i, m, v1, v2)'
  BY <1>2, <1>3, <1>7 DEF ResultSays
<1>9. /\ i = Word(t)' /\ m = Age(t)' /\ v1 \in Value' /\ v2 \in Value'
  BY <1>5 DEF Value
<1>. QED  BY <1>6, <1>8, <1>9 DEF ResultGood

LEMMA ResultsMove ==
  ASSUME Typed, FrontGood, Loads, ~Phantoms, UnitsWork, EntriesGood,
         StoresQueued, StationsGood, LoadsWait, ResultsGood,
         NEW grant, NEW slow, NEW late, Moves(grant, slow, late),
         ~squash(sq_rob_valid)
  PROVE  ResultsGood'
<1>1. grant \in Grants(Requests)
  BY DEF Moves
<1>2. SUFFICES ASSUME NEW t \in Live', rob_entries'[t].ready
               PROVE  ResultGood(t)'
  BY DEF ResultsGood
<1>3. t \in RobIdx
  BY DEF Live, RobIdx
<1>4. t \in Live /\ ~Leaves(t) /\ rob_entries'[t] = Updated(grant, t)
  BY <1>2, <1>3, EntryMoves, NewEntryIs
<1>5. PICK e : e = rob_entries'[t]
  OBVIOUS
<1>6. \E v1, v2 \in Value :
        /\ ReadsBoth(Age(t), Word(t), v1, v2)
        /\ ResultSays(e, Word(t), Age(t), v1, v2)
  <2>1. CASE Finishes(grant, t)
    <3>1. PICK f \in Freed(grant) :
            /\ rs_entries[f].T_dest = t /\ rs_cdb(f, lsq_fu) \in CdbEntry
            /\ Updated(grant, t) = Complete(rob_entries[t], rs_cdb(f, lsq_fu))
      BY <1>1, <1>4, <2>1, UpdatedIs
    <3>2. f \in Requests
      BY <1>1, GrantIs DEF Freed, Granted
    <3>. QED  BY <1>4, <1>5, <3>1, <3>2, FinishSays
  <2>2. CASE ~Finishes(grant, t)
    <3>1. e = rob_entries[t]
      BY <1>1, <1>4, <1>5, <2>2, UpdatedIs
    <3>2. ResultGood(t)
      BY <1>2, <1>4, <1>5, <3>1 DEF ResultsGood
    <3>. QED  BY <3>1, <3>2 DEF ResultGood
  <2>. QED  BY <2>1, <2>2
<1>. QED  BY <1>4, <1>5, <1>6, ResultMoves

-----------------------------------------------------------------------------
(* What is held is right in every state.                                   *)

\* A squash, and power-up, leave nothing that could be wrong.
NoWork == busy = {} /\ Live = {} /\ \A f \in FU_LS : ~lq_entries[f].valid

LEMMA NoWorkGood == NoWork => ValuesGood
<1> SUFFICES ASSUME NoWork  PROVE ValuesGood
  OBVIOUS
<1>1. HeldStores = {}
  BY DEF NoWork, HeldStores, StoresInRob
<1>. QED
  BY <1>1 DEF ValuesGood, StationsGood, StoresGood, LoadsWait, ResultsGood,
              NoWork

LEMMA ValuesInit == CoreInit => ValuesGood
<1> SUFFICES ASSUME CoreInit  PROVE NoWork
  BY NoWorkGood
<1>1. Live = {}
  BY DEF CoreInit, RobInit, EmptyEntry, Live
<1>2. busy = {}
  BY DEF CoreInit, RsInit
<1>3. lq_entries = [i \in FU_LS |-> EmptyLoad]
  BY DEF CoreInit, LsqInit, LqReset
<1>. QED  BY <1>1, <1>2, <1>3 DEF NoWork, EmptyLoad

LEMMA ValuesSquash ==
  ASSUME NEW grant, NEW slow, NEW late, Moves(grant, slow, late),
         squash(sq_rob_valid)
  PROVE  ValuesGood'
<1>1. NoWork'
  <2>1. RobReset
    BY RobStepIs DEF RobStep
  <2>2. Live' = {}
    BY <2>1 DEF RobReset, EmptyEntry, Live
  <2>3. busy' = {}
    BY SquashRsIs
  <2>4. lq_entries' = [i \in FU_LS |-> EmptyLoad]
    BY StepsAre DEF LsqStep, LqStep, LqReset
  <2>. QED  BY <2>2, <2>3, <2>4 DEF NoWork, EmptyLoad
<1>. QED  BY <1>1, NoWorkGood, PTL

LEMMA ValuesStutter ==
  ASSUME UNCHANGED coreVars  PROVE ValuesGood' <=> ValuesGood
<1> USE DEF coreVars
<1>1. /\ Live' = Live /\ HeldStores' = HeldStores
      /\ \A r : Writers(r)' = Writers(r)
  BY DEF HeldStores, StoresInRob, Live, Writers
<1>2. \A t : Age(t)' = Age(t) /\ Word(t)' = Word(t)
  BY DEF Age, Word
<1>3. HeldAges' = HeldAges
  BY <1>1, <1>2 DEF HeldAges
<1>4. \A t : Rank(t)' = Rank(t) /\ Slot(t)' = Slot(t)
  BY <1>3 DEF Slot, Rank, CountBelow, At, Age
<1>5. \A n, r, v : Reads(n, r, v)' <=> Reads(n, r, v)
  BY <1>1, <1>2 DEF Reads, SourceAt, NoSourceAt
<1>6. \A n, i, v1, v2 : ReadsBoth(n, i, v1, v2)' <=> ReadsBoth(n, i, v1, v2)
  BY <1>5 DEF ReadsBoth
<1>7. /\ \A t, a, s : Apart(t, a, s)' <=> Apart(t, a, s)
      /\ \A t, a, s : SameAccess(t, a, s)' <=> SameAccess(t, a, s)
      /\ \A t : Filled(t)' <=> Filled(t)
  BY <1>4 DEF Apart, SameAccess, Filled
<1>8. \A n, a, s : ClearBefore(n, a, s)' <=> ClearBefore(n, a, s)
  BY <1>1, <1>2, <1>7 DEF ClearBefore
<1>9. \A n, a, s, v : LoadSees(n, a, s, v)' <=> LoadSees(n, a, s, v)
  BY <1>1, <1>2, <1>4, <1>7, <1>8 DEF LoadSees
<1>10. StationsGood' <=> StationsGood
  <2>1. \A f, k : OperandGood(f, k)' <=> OperandGood(f, k)
    <3> SUFFICES ASSUME NEW f, NEW k
                 PROVE  OperandGood(f, k)' <=> OperandGood(f, k)
      OBVIOUS
    <3>1. \A info, n, r : InfoGood(info, n, r)' <=> InfoGood(info, n, r)
      BY <1>1, <1>2, <1>5 DEF InfoGood, SourceAt
    <3>2. AgeOf(f)' = AgeOf(f)
      BY DEF AgeOf, Age
    <3>. QED  BY <3>1, <3>2 DEF OperandGood
  <2>2. \A f : WorkGood(f)' <=> WorkGood(f)
    BY DEF WorkGood
  <2>3. \A f : UnitGood(f)' <=> UnitGood(f)
    BY DEF UnitGood
  <2>. QED  BY <2>1, <2>2, <2>3 DEF StationsGood
<1>11. StoresGood' <=> StoresGood
  <2>1. \A t : StoreGood(t)' <=> StoreGood(t)
    BY <1>2, <1>4, <1>6, <1>7 DEF StoreGood
  <2>. QED  BY <1>1, <2>1 DEF StoresGood
<1>12. LoadsWait' <=> LoadsWait
  <2>1. \A f : LoadWaits(f)' <=> LoadWaits(f)
    <3> SUFFICES ASSUME NEW f  PROVE LoadWaits(f)' <=> LoadWaits(f)
      OBVIOUS
    <3>1. OperandsIn(f)' <=> OperandsIn(f)
      BY DEF OperandsIn, Loaded
    <3>. QED  BY <1>1, <1>2, <1>4, <1>8, <1>9, <3>1 DEF LoadWaits
  <2>. QED  BY <2>1 DEF LoadsWait
<1>13. ResultsGood' <=> ResultsGood
  <2>1. \A e, i, n, v1, v2 :
          ResultSays(e, i, n, v1, v2)' <=> ResultSays(e, i, n, v1, v2)
    BY <1>9 DEF ResultSays
  <2>2. \A t : ResultGood(t)' <=> ResultGood(t)
    BY <1>2, <1>6, <2>1 DEF ResultGood
  <2>. QED  BY <1>1, <2>2 DEF ResultsGood
<1>. QED  BY <1>10, <1>11, <1>12, <1>13 DEF ValuesGood

LEMMA ValuesMove ==
  CoreInd /\ ~Phantoms /\ ~PartialOverlap /\ ValuesGood /\ [Cycle]_coreVars
    => ValuesGood'
<1> SUFFICES ASSUME CoreInd, ~Phantoms, ~PartialOverlap, ValuesGood, Cycle
             PROVE  ValuesGood'
  BY ValuesStutter
<1>1. PICK grant, slow, late : Moves(grant, slow, late)
  BY CycleIs
<1>2. CASE squash(sq_rob_valid)
  BY <1>1, <1>2, ValuesSquash
<1>3. CASE ~squash(sq_rob_valid)
  <2>1. /\ Typed /\ FrontGood /\ Loads /\ UnitsWork /\ Renames /\ EntriesGood
        /\ StoresQueued
    BY DEF CoreInd
  <2>2. StationsGood /\ StoresGood /\ LoadsWait /\ ResultsGood
    BY DEF ValuesGood
  <2>3. StationsGood'
    BY <1>1, <1>3, <2>1, <2>2, StationsMove
  <2>4. StoresGood'
    BY <1>1, <1>3, <2>1, <2>2, StoresMove
  <2>5. LoadsWait'
    BY <1>1, <1>3, <2>1, <2>2, LoadsMove
  <2>6. ResultsGood'
    BY <1>1, <1>3, <2>1, <2>2, ResultsMove
  <2>. QED  BY <2>3, <2>4, <2>5, <2>6 DEF ValuesGood
<1>. QED  BY <1>2, <1>3

-----------------------------------------------------------------------------
(* What retires is what the machine executes.                              *)

MachineState == [pc : Pc, regs : [Reg -> Value], mem : MemType]

LEMMA ArchIs ==
  ASSUME Typed
  PROVE  /\ Arch \in MachineState /\ Arch.regs[ZERO_REG] = 0
         /\ \A r \in Reg \ {ZERO_REG} : Arch.regs[r] = registers[r]
<1>1. registers \in [Reg -> Value] /\ mem \in MemType /\ commit_PC \in Pc
  BY DEF Typed, MapTyped, MemType
<1>2. HeadEntry.PC \in Pc
  BY EntriesAre DEF Typed, RobEntry
<1>3. ZERO_REG \in Reg /\ 0 \in Value
  BY IsaAssumption, WordIs DEF ZERO_REG
<1>. QED  BY <1>1, <1>2, <1>3, NpcIs DEF Arch, MachineState

\* The machine when the instruction of entry e, which is not a store, is done.
After(s, e) ==
  [pc |-> e.branch_target,
   regs |-> IF e.dest_reg_idx = ZERO_REG THEN s.regs
            ELSE [s.regs EXCEPT ![e.dest_reg_idx] = e.value],
   mem |-> s.mem]

LEMMA AfterIs ==
  ASSUME NEW s \in MachineState, NEW e \in RobEntry
  PROVE  After(s, e) \in MachineState
BY WordIs DEF After, MachineState, RobEntry

\* What an instruction does depends on the operands it waits for.
Operands(s, i, v1, v2) ==
  v1 = s.regs[input_reg_idx(i, 1)] /\ v2 = s.regs[input_reg_idx(i, 2)]

Does(s, i, v1, v2) ==
  [pc |-> next_pc(i, s.pc, v1, v2),
   regs |-> IF dest_reg_idx(i) = ZERO_REG THEN s.regs
            ELSE [s.regs EXCEPT ![dest_reg_idx(i)] =
                    CASE uncond_branch(i) -> NPC(s.pc)
                      [] rd_mem(i) -> MemRead(s.mem, address(i, v1), i.size)
                      [] OTHER -> alu_result(i, v1, v2)],
   mem |-> IF wr_mem(i) THEN MemWrite(s.mem, address(i, v1), i.size, v2)
           ELSE s.mem]

LEMMA ExecuteIs ==
  ASSUME NEW s \in MachineState, NEW i \in Instruction,
         i = Fetch(program, s.pc), NEW v1, NEW v2, Operands(s, i, v1, v2)
  PROVE  Execute(program, s) = Does(s, i, v1, v2)
<1>1. PICK w1, w2 : w1 = s.regs[i.rs1] /\ w2 = s.regs[i.rs2]
  OBVIOUS
<1>2. Execute(program, s)
        = [pc |-> next_pc(i, s.pc, w1, w2),
           regs |-> IF dest_reg_idx(i) = ZERO_REG THEN s.regs
                    ELSE [s.regs EXCEPT ![i.rd] =
                      CASE uncond_branch(i) -> NPC(s.pc)
                        [] rd_mem(i) -> MemRead(s.mem, address(i, w1), i.size)
                        [] OTHER -> alu_result(i, w1, w2)],
           mem |-> IF wr_mem(i) THEN MemWrite(s.mem, address(i, w1), i.size, w2)
                   ELSE s.mem]
  BY <1>1 DEF Execute
<1>3. /\ 1 \in req_reg(i) => v1 = w1
      /\ 2 \in req_reg(i) => v2 = w2
  BY <1>1 DEF Operands, input_reg_idx
<1>4. i.op \in Op
  BY DEF Instruction
<1>5. dest_reg_idx(i) # ZERO_REG => dest_reg_idx(i) = i.rd
  BY DEF dest_reg_idx
<1>6. CASE i.op = "li"
  BY <1>2, <1>5, <1>6
     DEF Does, next_pc, take_branch, uncond_branch, cond_branch, alu_result,
         rd_mem, wr_mem
<1>7. CASE i.op = "jal"
  BY <1>2, <1>5, <1>7
     DEF Does, next_pc, take_branch, uncond_branch, cond_branch, alu_result,
         rd_mem, wr_mem
<1>8. CASE i.op = "jalr"
  <2>1. v1 = w1
    BY <1>3, <1>8 DEF req_reg
  <2>. QED
    BY <1>2, <1>5, <1>8, <2>1
       DEF Does, next_pc, take_branch, uncond_branch, cond_branch, alu_result,
           rd_mem, wr_mem
<1>9. CASE i.op = "load"
  <2>1. v1 = w1
    BY <1>3, <1>9 DEF req_reg
  <2>. QED
    BY <1>2, <1>5, <1>9, <2>1
       DEF Does, next_pc, take_branch, uncond_branch, cond_branch, rd_mem,
           wr_mem
<1>10. CASE i.op \notin {"li", "jal", "jalr", "load"}
  <2>1. v1 = w1 /\ v2 = w2
    BY <1>3, <1>10 DEF req_reg
  <2>. QED  BY <1>2, <1>5, <2>1 DEF Does
<1>. QED  BY <1>6, <1>7, <1>8, <1>9, <1>10

\* An entry that says what its instruction does.
LEMMA EntryDoes ==
  ASSUME NEW s \in MachineState, NEW e \in RobEntry, NEW i \in Instruction,
         e.PC = s.pc, i = Fetch(program, e.PC), GoodEntry(e, i), e.ready,
         ~wr_mem(i), NEW n, NEW v1, NEW v2, Operands(s, i, v1, v2),
         ResultSays(e, i, n, v1, v2),
         \A a, v : LoadSees(n, a, i.size, v) => v = MemRead(s.mem, a, i.size)
  PROVE  Runnable(program, s) /\ Execute(program, s) = After(s, e)
<1>1. Runnable(program, s)
  BY DEF Runnable, GoodEntry, valid_inst
<1>2. Execute(program, s) = Does(s, i, v1, v2)
  BY ExecuteIs
<1>3. e.branch_target = next_pc(i, s.pc, v1, v2)
  BY DEF ResultSays
<1>4. e.dest_reg_idx = dest_reg_idx(i)
  BY DEF GoodEntry
<1>5. ASSUME dest_reg_idx(i) # ZERO_REG
      PROVE  e.value = CASE uncond_branch(i) -> NPC(s.pc)
                         [] rd_mem(i) -> MemRead(s.mem, address(i, v1), i.size)
                         [] OTHER -> alu_result(i, v1, v2)
  <2>1. uncond_branch(i) => e.value = NPC(s.pc) /\ ~rd_mem(i)
    BY DEF ResultSays, uncond_branch, rd_mem
  <2>2. rd_mem(i) => e.value = MemRead(s.mem, address(i, v1), i.size)
    BY DEF ResultSays
  <2>3. ~uncond_branch(i) /\ ~rd_mem(i) => e.value = alu_result(i, v1, v2)
    BY <1>5 DEF ResultSays
  <2>. QED  BY <2>1, <2>2, <2>3
<1>. QED  BY <1>1, <1>2, <1>3, <1>4, <1>5 DEF Does, After

\* What the two oldest instructions read is what the machine reads.
LEMMA ReadsFirst ==
  ASSUME Typed, NEW r \in Reg, NEW v, Reads(0, r, v)
  PROVE  v = Arch.regs[r]
<1>1. \A w \in RobIdx : ~(Age(w) < 0)
  BY AgeIs DEF Typed
<1>2. \A w : ~SourceAt(0, r, w)
  BY <1>1 DEF SourceAt, Writers, Live
<1>. QED  BY <1>2, ArchIs DEF Reads

LEMMA ReadsSecond ==
  ASSUME Typed, Leaves_0, NEW r \in Reg, NEW v, Reads(1, r, v)
  PROVE  v = After(Arch, HeadEntry).regs[r]
<1>1. /\ rob_head \in Live /\ rob_head \in RobIdx /\ Age(rob_head) = 0
      /\ \A w \in RobIdx : Age(w) < 1 => w = rob_head
  <2>1. /\ \A w \in RobIdx : Age(w) \in 0 .. ROB_SIZE - 1
        /\ \A t, u \in RobIdx : Age(t) = Age(u) => t = u
        /\ Age(rob_head) = 0
    BY AgeIs DEF Typed
  <2>2. rob_head \in Live /\ rob_head \in RobIdx
    BY LeavesAre, NumbersAre
  <2>3. \A w \in RobIdx : Age(w) < 1 => Age(w) = 0
    BY <2>1, CoreAssumption
  <2>. QED  BY <2>1, <2>2, <2>3
<1>2. rob_head \in Writers(r) <=> HeadEntry.dest_reg_idx = r
  BY <1>1 DEF Writers, HeadEntry
<1>3. HeadEntry.dest_reg_idx \in Reg
  BY EntriesAre DEF Typed, RobEntry
<1>4. /\ Arch.regs \in [Reg -> Value] /\ Arch.regs[ZERO_REG] = 0
      /\ \A q \in Reg \ {ZERO_REG} : Arch.regs[q] = registers[q]
  BY ArchIs DEF MachineState
<1>5. After(Arch, HeadEntry).regs[r]
        = IF r # ZERO_REG /\ HeadEntry.dest_reg_idx = r THEN HeadEntry.value
          ELSE Arch.regs[r]
  BY <1>3, <1>4 DEF After
<1>6. CASE r = ZERO_REG /\ v = 0
  BY <1>4, <1>5, <1>6
<1>7. CASE r # ZERO_REG /\ NoSourceAt(1, r) /\ v = registers[r]
  <2>1. HeadEntry.dest_reg_idx # r
    BY <1>1, <1>2, <1>7 DEF NoSourceAt
  <2>. QED  BY <1>4, <1>5, <1>7, <2>1
<1>8. ASSUME r # ZERO_REG,
             NEW w \in RobIdx, SourceAt(1, r, w), v = rob_entries[w].value
      PROVE  v = After(Arch, HeadEntry).regs[r]
  <2>1. w = rob_head /\ w \in Writers(r)
    BY <1>1, <1>8 DEF SourceAt
  <2>. QED  BY <1>2, <1>5, <1>8, <2>1 DEF HeadEntry
<1>. QED  BY <1>6, <1>7, <1>8 DEF Reads

\* What they load is in the memory.
LEMMA LoadsFirst ==
  ASSUME Typed, NEW a, NEW s, NEW v, LoadSees(0, a, s, v)
  PROVE  v = MemRead(mem, a, s)
<1>1. \A u \in HeldStores : ~(Age(u) < 0)
  BY AgeIs, HeldIs DEF Typed
<1>. QED  BY <1>1 DEF LoadSees

LEMMA LoadsSecond ==
  ASSUME Typed, StoresQueued, Leaves_0,
         NEW a, NEW s, NEW v, LoadSees(1, a, s, v)
  PROVE  v = MemRead(mem, a, s)
<1>1. \A u \in HeldStores : ~(Age(u) < 1)
  <2> SUFFICES ASSUME NEW u \in HeldStores, Age(u) < 1  PROVE FALSE
    OBVIOUS
  <2>1. u \in RobIdx /\ Age(u) \in 0 .. ROB_SIZE - 1
    BY HeldIs, AgeIs DEF Typed
  <2>2. Left \in 0 .. 2 /\ (Leaves(u) <=> Age(u) < Left)
    BY <2>1, LeavesAre
  <2>3. Left >= 1
    BY DEF Left, RobCount
  <2>4. Leaves(u)
    BY <2>1, <2>2, <2>3, CoreAssumption
  <2>. QED  BY <2>1, <2>4, TakenStoreIs
<1>. QED  BY <1>1 DEF LoadSees

LEMMA HeadDoes ==
  ASSUME Typed, EntriesGood, RobPath, StoresQueued, ResultsGood, Leaves_0
  PROVE  /\ sq_rob_valid => After(Arch, HeadEntry) = Arch
         /\ ~sq_rob_valid => /\ Runnable(program, Arch)
                             /\ Execute(program, Arch) = After(Arch, HeadEntry)
<1>1. /\ rob_head \in Live /\ Age(rob_head) = 0 /\ HeadEntry.ready
      /\ HeadEntry \in RobEntry /\ HeadEntry = rob_entries[rob_head]
  BY LeavesAre, AgeIs, EntriesAre DEF Typed, HeadEntry
<1>2. PICK i : i = Word(rob_head)
  OBVIOUS
<1>3. /\ i = Fetch(program, HeadEntry.PC) /\ i \in Instruction
      /\ GoodEntry(HeadEntry, i)
  BY <1>1, <1>2, FetchIs DEF EntriesGood, EntryGood, Word, Typed
<1>4. PICK v1 \in Value, v2 \in Value :
        ReadsBoth(0, i, v1, v2) /\ ResultSays(HeadEntry, i, 0, v1, v2)
  BY <1>1, <1>2 DEF ResultsGood, ResultGood
<1>5. ASSUME sq_rob_valid  PROVE After(Arch, HeadEntry) = Arch
  <2>1. wr_mem(i)
    BY <1>3, <1>5 DEF StoresQueued, GoodEntry
  <2>2. HeadEntry.dest_reg_idx = ZERO_REG
    BY <1>3, <2>1 DEF GoodEntry, dest_reg_idx, wr_mem
  <2>3. HeadEntry.branch_target = NPC(HeadEntry.PC)
    BY <1>4, <2>1 DEF ResultSays, next_pc, take_branch, cond_branch,
                      uncond_branch, wr_mem
  <2>. QED  BY <1>5, <2>2, <2>3 DEF After, Arch
<1>6. ASSUME ~sq_rob_valid
      PROVE  /\ Runnable(program, Arch)
             /\ Execute(program, Arch) = After(Arch, HeadEntry)
  <2>1. ~wr_mem(i)
    BY <1>3, <1>6 DEF Leaves_0, retire_valid_0, GoodEntry
  <2>2. Arch.pc = HeadEntry.PC
    BY <1>1, <1>6 DEF RobPath, Arch
  <2>3. Operands(Arch, i, v1, v2)
    <3>1. \A k \in 1 .. 2 : input_reg_idx(i, k) \in Reg
      BY <1>3, SourceIs DEF Decoded
    <3>. QED  BY <1>4, <3>1, ReadsFirst DEF Operands, ReadsBoth
  <2>4. Arch.mem = mem
    BY DEF Arch
  <2>5. \A a, v : LoadSees(0, a, i.size, v) => v = MemRead(Arch.mem, a, i.size)
    BY <2>4, LoadsFirst
  <2>. QED  BY <1>1, <1>3, <1>4, <2>1, <2>2, <2>3, <2>5, ArchIs, EntryDoes
<1>. QED  BY <1>5, <1>6

LEMMA SecondDoes ==
  ASSUME Typed, EntriesGood, RobPath, StoresQueued, ResultsGood, Leaves_1,
         NEW s, s = After(Arch, HeadEntry)
  PROVE  /\ Runnable(program, s)
         /\ Execute(program, s) = After(s, SecondEntry)
<1>1. /\ rob_head_plus_1 \in Live /\ Age(rob_head_plus_1) = 1
      /\ SecondEntry.ready /\ Leaves_0
      /\ SecondEntry \in RobEntry /\ SecondEntry = rob_entries[rob_head_plus_1]
  BY LeavesAre, AgeIs, EntriesAre DEF Typed, SecondEntry
<1>2. PICK i : i = Word(rob_head_plus_1)
  OBVIOUS
<1>3. /\ i = Fetch(program, SecondEntry.PC) /\ i \in Instruction
      /\ GoodEntry(SecondEntry, i)
  BY <1>1, <1>2, FetchIs DEF EntriesGood, EntryGood, Word, Typed
<1>4. PICK v1 \in Value, v2 \in Value :
        ReadsBoth(1, i, v1, v2) /\ ResultSays(SecondEntry, i, 1, v1, v2)
  BY <1>1, <1>2 DEF ResultsGood, ResultGood
<1>5. s \in MachineState
  BY ArchIs, EntriesAre, AfterIs DEF Typed
<1>6. ~wr_mem(i)
  BY <1>3 DEF Leaves_1, retire_valid_1, GoodEntry
<1>7. s.pc = SecondEntry.PC
  <2>1. rob_head \in Live /\ Age(rob_head) = 0
    BY <1>1, LeavesAre, AgeIs DEF Typed
  <2>2. Leads(rob_head, SecondEntry.PC)
    BY <1>1, <2>1 DEF RobPath
  <2>3. ~Diverted(HeadEntry) /\ HeadEntry.ready /\ EntryGood(rob_head)
    BY <1>1, <2>1
       DEF Leaves_0, Leaves_1, retire_valid_0, retire_valid_1, squash_0,
           EntriesGood
  <2>4. SecondEntry.PC = HeadEntry.branch_target
    BY <2>2, <2>3 DEF EntryGood, GoodEntry, Leads, Ends, HeadEntry
  <2>. QED  BY <2>4 DEF After
<1>8. Operands(s, i, v1, v2)
  <2>1. \A k \in 1 .. 2 : input_reg_idx(i, k) \in Reg
    BY <1>3, SourceIs DEF Decoded
  <2>. QED  BY <1>1, <1>4, <2>1, ReadsSecond DEF Operands, ReadsBoth
<1>9. s.mem = mem
  BY DEF After, Arch
<1>10. \A a, v : LoadSees(1, a, i.size, v) => v = MemRead(s.mem, a, i.size)
  BY <1>1, <1>9, LoadsSecond
<1>. QED  BY <1>1, <1>3, <1>4, <1>5, <1>6, <1>7, <1>8, <1>10, EntryDoes

\* A cycle in which the cache takes no store.
LEMMA ArchMoves ==
  ASSUME Typed, StoresQueued, NEW grant, NEW slow, NEW late,
         Moves(grant, slow, late), ~StoreTaken(late)
  PROVE  /\ ~Leaves_0 => Arch' = Arch
         /\ Leaves_0 /\ ~Leaves_1 => Arch' = After(Arch, HeadEntry)
         /\ Leaves_1 => Arch' = After(After(Arch, HeadEntry), SecondEntry)
<1>1. sq_rob_valid' = FALSE
  <2>1. CASE squash(sq_rob_valid)
    BY <2>1, StepsAre DEF LsqStep, SqStep
  <2>2. CASE ~squash(sq_rob_valid)
    BY <2>2, QueueStepIs
  <2>. QED  BY <2>1, <2>2
<1>2. mem' = mem
  BY TakenWrites
<1>3. Arch' = [pc |-> commit_PC', regs |-> [registers' EXCEPT ![ZERO_REG] = 0],
               mem |-> mem]
  BY <1>1, <1>2 DEF Arch
<1>4. /\ registers \in [Reg -> Value] /\ registers' \in [Reg -> Value]
      /\ HeadEntry.dest_reg_idx \in Reg /\ SecondEntry.dest_reg_idx \in Reg
  <2>1. Typed'
    BY TypedMoves
  <2>. QED
    BY <2>1, EntriesAre, MapTypeMoves DEF Typed, MapTyped, Value, RobEntry
<1>5. \A r \in Reg \ {ZERO_REG} :
        registers'[r]
          = IF Leaves_1 /\ SecondEntry.dest_reg_idx = r THEN SecondEntry.value
            ELSE IF Leaves_0 /\ HeadEntry.dest_reg_idx = r THEN HeadEntry.value
            ELSE registers[r]
  BY RegisterMoves
<1>6. /\ commit_PC' = IF Leaves_1 THEN SecondEntry.branch_target
                      ELSE IF Leaves_0 THEN HeadEntry.branch_target
                      ELSE commit_PC
      /\ Leaves_1 => Leaves_0
      /\ ~Leaves_0 => ~sq_rob_valid
  BY CommitIs, LeavesAre, TakenStoreIs
<1>7. PICK old, new : /\ old = [registers EXCEPT ![ZERO_REG] = 0]
                      /\ new = [registers' EXCEPT ![ZERO_REG] = 0]
  OBVIOUS
<1>8. /\ Arch.regs = old /\ Arch'.regs = new /\ Arch.mem = mem
  BY <1>3, <1>7 DEF Arch
<1>9. ASSUME ~Leaves_0  PROVE Arch' = Arch
  <2>1. \A r \in Reg : new[r] = old[r]
    BY <1>4, <1>5, <1>6, <1>7, <1>9
  <2>2. new = old
    BY <1>4, <1>7, <2>1
  <2>. QED  BY <1>3, <1>6, <1>7, <1>9, <2>2 DEF Arch
<1>10. ASSUME Leaves_0, ~Leaves_1  PROVE Arch' = After(Arch, HeadEntry)
  <2>1. PICK m : m = IF HeadEntry.dest_reg_idx = ZERO_REG THEN old
                     ELSE [old EXCEPT ![HeadEntry.dest_reg_idx]
                             = HeadEntry.value]
    OBVIOUS
  <2>2. \A r \in Reg : new[r] = m[r]
    BY <1>4, <1>5, <1>7, <1>10, <2>1
  <2>3. new = m
    BY <1>4, <1>7, <2>1, <2>2
  <2>. QED  BY <1>3, <1>6, <1>7, <1>8, <1>10, <2>1, <2>3 DEF After
<1>11. ASSUME Leaves_1
       PROVE  Arch' = After(After(Arch, HeadEntry), SecondEntry)
  <2>1. PICK m : m = IF HeadEntry.dest_reg_idx = ZERO_REG THEN old
                     ELSE [old EXCEPT ![HeadEntry.dest_reg_idx]
                             = HeadEntry.value]
    OBVIOUS
  <2>2. PICK k : k = IF SecondEntry.dest_reg_idx = ZERO_REG THEN m
                     ELSE [m EXCEPT ![SecondEntry.dest_reg_idx]
                             = SecondEntry.value]
    OBVIOUS
  <2>3. \A r \in Reg : new[r] = k[r]
    BY <1>4, <1>5, <1>6, <1>7, <1>11, <2>1, <2>2
  <2>4. new = k
    BY <1>4, <1>7, <2>1, <2>2, <2>3
  <2>. QED
    BY <1>3, <1>6, <1>7, <1>8, <1>11, <2>1, <2>2, <2>4 DEF After
<1>. QED  BY <1>9, <1>10, <1>11

\* A cycle in which it does: the store is the next instruction.
LEMMA StoreDoes ==
  ASSUME Typed, EntriesGood, RobPath, StoresQueued, StoresGood,
         NEW grant, NEW slow, NEW late, Moves(grant, slow, late),
         StoreTaken(late)
  PROVE  /\ Runnable(program, Arch)
         /\ Arch' = Execute(program, Arch)
<1>1. /\ ~sq_rob_valid /\ ~squash(sq_rob_valid)
      /\ rob_head \in HeldStores /\ Age(rob_head) = 0 /\ Left = 0
  BY TakenStoreIs
<1>2. /\ rob_head \in HeldStores /\ rob_head \in Live /\ rob_head \in RobIdx
      /\ Filled(rob_head) /\ Slot(rob_head) = sq_head
      /\ mem' = MemWrite(mem, sq_entries[sq_head].addr,
                         sq_entries[sq_head].mem_size,
                         sq_entries[sq_head].value)
  BY TakenWrites, HeldIs
<1>3. PICK i : i = Word(rob_head)
  OBVIOUS
<1>4. /\ i = Fetch(program, HeadEntry.PC) /\ i \in Instruction
      /\ GoodEntry(HeadEntry, i)
  BY <1>2, <1>3, FetchIs DEF EntriesGood, EntryGood, Word, Typed, HeadEntry
<1>5. wr_mem(i)
  <2>1. HeadEntry.store
    BY <1>2 DEF HeldStores, StoresInRob, HeadEntry
  <2>. QED  BY <1>4, <2>1 DEF GoodEntry
<1>6. PICK v1 \in Value, v2 \in Value :
        /\ ReadsBoth(0, i, v1, v2)
        /\ sq_entries[sq_head].addr = address(i, v1)
        /\ sq_entries[sq_head].mem_size = i.size
        /\ sq_entries[sq_head].value = v2
  BY <1>1, <1>2, <1>3 DEF StoresGood, StoreGood
<1>7. Operands(Arch, i, v1, v2)
  <2>1. \A k \in 1 .. 2 : input_reg_idx(i, k) \in Reg
    BY <1>4, SourceIs DEF Decoded
  <2>. QED  BY <1>6, <2>1, ReadsFirst DEF Operands, ReadsBoth
<1>8. /\ Arch = [pc |-> HeadEntry.PC,
                 regs |-> [registers EXCEPT ![ZERO_REG] = 0], mem |-> mem]
      /\ i = Fetch(program, Arch.pc)
  BY <1>1, <1>2, <1>4 DEF RobPath, Arch, HeadEntry
<1>9. Runnable(program, Arch)
  BY <1>4, <1>5, <1>8 DEF Runnable, GoodEntry, valid_inst, wr_mem, isHalt
<1>10. Execute(program, Arch)
         = [pc |-> NPC(HeadEntry.PC),
            regs |-> [registers EXCEPT ![ZERO_REG] = 0], mem |-> mem']
  <2>1. Execute(program, Arch) = Does(Arch, i, v1, v2)
    BY <1>4, <1>7, <1>8, ArchIs, ExecuteIs
  <2>2. dest_reg_idx(i) = ZERO_REG
    BY <1>5 DEF dest_reg_idx, wr_mem
  <2>3. next_pc(i, Arch.pc, v1, v2) = NPC(HeadEntry.PC)
    BY <1>5, <1>8 DEF next_pc, take_branch, uncond_branch, cond_branch, wr_mem
  <2>. QED  BY <1>2, <1>5, <1>6, <1>8, <2>1, <2>2, <2>3 DEF Does
<1>11. Arch' = [pc |-> NPC(HeadEntry.PC),
                regs |-> [registers EXCEPT ![ZERO_REG] = 0], mem |-> mem']
  <2>1. ~Leaves_0 /\ ~Leaves_1
    BY <1>1, LeavesAre DEF Left, RobCount
  <2>2. sq_rob_valid' = TRUE
    BY <1>1, QueueStepIs
  <2>3. rob_head' = rob_head
    BY <1>1, <2>1, RobMoveIs DEF RobAdvance
  <2>4. rob_entries'[rob_head].PC = rob_entries[rob_head].PC
    <3>1. ~Leaves(rob_head)
      BY <2>1 DEF Leaves, Retired, Leaves_0, Leaves_1
    <3>2. rob_entries'[rob_head] = Updated(grant, rob_head)
      BY <1>1, <1>2, <3>1, EntryMoves
    <3>3. grant \in Grants(Requests)
      BY DEF Moves
    <3>. QED  BY <1>2, <3>2, <3>3, UpdatedKeeps DEF SameInst
  <2>5. HeadEntry'.PC = HeadEntry.PC
    BY <2>3, <2>4 DEF HeadEntry
  <2>6. /\ registers \in [Reg -> Value] /\ registers' \in [Reg -> Value]
    BY MapTypeMoves DEF Typed, MapTyped, Value
  <2>7. \A r \in Reg \ {ZERO_REG} : registers'[r] = registers[r]
    BY <2>1, RegisterMoves
  <2>8. [registers' EXCEPT ![ZERO_REG] = 0] = [registers EXCEPT ![ZERO_REG] = 0]
    BY <2>6, <2>7
  <2>. QED  BY <2>2, <2>5, <2>8 DEF Arch, NPC
<1>. QED  BY <1>9, <1>10, <1>11

-----------------------------------------------------------------------------
(* The refinement.                                                         *)

\* The machine of the abstract specification is the one of the core.
LEMMA SameMachine ==
  /\ \A s : Machine!Execute(program, s) = Execute(program, s)
  /\ \A s : Machine!Runnable(program, s) <=> Runnable(program, s)
<1>1. \A pc : Machine!Fetch(program, pc) = Fetch(program, pc)
  BY DEF Machine!Fetch, Fetch, Machine!ILLEGAL, ILLEGAL
<1>2. \A i : /\ Machine!uncond_branch(i) <=> uncond_branch(i)
             /\ Machine!cond_branch(i) <=> cond_branch(i)
             /\ Machine!rd_mem(i) <=> rd_mem(i)
             /\ Machine!wr_mem(i) <=> wr_mem(i)
             /\ Machine!isHalt(i) <=> isHalt(i)
             /\ Machine!isIllegal(i) <=> isIllegal(i)
  BY DEF Machine!uncond_branch, uncond_branch, Machine!cond_branch,
         cond_branch, Machine!rd_mem, rd_mem, Machine!wr_mem, wr_mem,
         Machine!isHalt, isHalt, Machine!isIllegal, isIllegal
<1>3. \A pc : Machine!NPC(pc) = NPC(pc)
  BY DEF Machine!NPC, NPC
<1>4. \A i, v1, v2 : Machine!alu_result(i, v1, v2) = alu_result(i, v1, v2)
  BY DEF Machine!alu_result, alu_result
<1>5. \A i, v1 : Machine!address(i, v1) = address(i, v1)
  BY DEF Machine!address, address
<1>6. \A i, v1, v2 : Machine!take_branch(i, v1, v2) <=> take_branch(i, v1, v2)
  BY <1>2 DEF Machine!take_branch, take_branch
<1>7. \A i, pc, v1, v2 :
        Machine!next_pc(i, pc, v1, v2) = next_pc(i, pc, v1, v2)
  BY <1>3, <1>4, <1>6 DEF Machine!next_pc, next_pc
<1>8. \A a, s : Machine!Align(a, s) = Align(a, s)
  BY DEF Machine!Align, Align
<1>9. \A m, a, s : Machine!MemRead(m, a, s) = MemRead(m, a, s)
  BY <1>8 DEF Machine!MemRead, MemRead
<1>10. \A m, a, s, v : Machine!MemWrite(m, a, s, v) = MemWrite(m, a, s, v)
  BY <1>8 DEF Machine!MemWrite, MemWrite
<1>11. \A i : Machine!dest_reg_idx(i) = dest_reg_idx(i)
  BY DEF Machine!dest_reg_idx, dest_reg_idx, Machine!ZERO_REG, ZERO_REG
<1>12. \A s : Machine!Execute(program, s) = Execute(program, s)
  BY <1>1, <1>2, <1>3, <1>4, <1>5, <1>7, <1>9, <1>10, <1>11
     DEF Machine!Execute, Execute, Machine!ZERO_REG, ZERO_REG
<1>13. \A s : Machine!Runnable(program, s) <=> Runnable(program, s)
  BY <1>1, <1>2 DEF Machine!Runnable, Runnable
<1>. QED  BY <1>12, <1>13

LEMMA MachineInit == CoreInit => Machine!Init
<1> SUFFICES ASSUME CoreInit  PROVE Machine!Init
  OBVIOUS
<1>1. Arch.regs[ZERO_REG] = 0
  BY TypedInit, ArchIs
<1>2. Arch.pc = 0
  BY DEF CoreInit, LsqInit, Arch
<1>. QED  BY <1>1, <1>2 DEF Machine!Init, Machine!ZERO_REG, ZERO_REG

\* A cycle executes no instruction, one, or two.
LEMMA MachineMoves ==
  CoreInd /\ ~Phantoms /\ ~DeadEnds /\ ValuesGood /\ [Cycle]_coreVars
    => [Machine!Next]_<<program, Arch>>
<1> SUFFICES ASSUME CoreInd, ~Phantoms, ~DeadEnds, ValuesGood,
                    [Cycle]_coreVars
             PROVE  [Machine!Next]_<<program, Arch>>
  OBVIOUS
<1>1. CASE UNCHANGED coreVars
  BY <1>1 DEF coreVars, Arch, HeadEntry, NPC
<1>2. CASE Cycle
  <2>1. PICK grant, slow, late : Moves(grant, slow, late)
    BY <1>2, CycleIs
  <2>2. program' = program
    BY <2>1 DEF Moves
  <2>3. /\ Typed /\ EntriesGood /\ RobPath /\ StoresQueued
        /\ StoresGood /\ ResultsGood
    BY DEF CoreInd, PathGood, ValuesGood
  <2>4. CASE StoreTaken(late)
    <3>1. Runnable(program, Arch) /\ Arch' = Execute(program, Arch)
      BY <2>1, <2>3, <2>4, StoreDoes
    <3>2. Machine!One
      BY <3>1, SameMachine DEF Machine!One
    <3>. QED  BY <2>2, <3>2 DEF Machine!Next
  <2>5. CASE ~StoreTaken(late) /\ ~Leaves_0
    <3>1. Arch' = Arch
      BY <2>1, <2>3, <2>5, ArchMoves
    <3>. QED  BY <2>2, <3>1
  <2>6. CASE ~StoreTaken(late) /\ Leaves_0 /\ ~Leaves_1
    <3>1. Arch' = After(Arch, HeadEntry)
      BY <2>1, <2>3, <2>6, ArchMoves
    <3>2. CASE sq_rob_valid
      BY <2>2, <2>3, <2>6, <3>1, <3>2, HeadDoes
    <3>3. CASE ~sq_rob_valid
      <4>1. Runnable(program, Arch) /\ Arch' = Execute(program, Arch)
        BY <2>3, <2>6, <3>1, <3>3, HeadDoes
      <4>2. Machine!One
        BY <4>1, SameMachine DEF Machine!One
      <4>. QED  BY <2>2, <4>2 DEF Machine!Next
    <3>. QED  BY <3>2, <3>3
  <2>7. CASE ~StoreTaken(late) /\ Leaves_1
    <3>1. PICK s : s = After(Arch, HeadEntry)
      OBVIOUS
    <3>2. Arch' = After(s, SecondEntry)
      BY <2>1, <2>3, <2>7, <3>1, ArchMoves
    <3>3. Runnable(program, s) /\ Execute(program, s) = After(s, SecondEntry)
      BY <2>3, <2>7, <3>1, SecondDoes
    <3>4. Leaves_0
      BY <2>3, <2>7, LeavesAre
    <3>5. CASE sq_rob_valid
      <4>1. s = Arch
        BY <2>3, <3>1, <3>4, <3>5, HeadDoes
      <4>2. Machine!One
        BY <3>2, <3>3, <4>1, SameMachine DEF Machine!One
      <4>. QED  BY <2>2, <4>2 DEF Machine!Next
    <3>6. CASE ~sq_rob_valid
      <4>1. Runnable(program, Arch) /\ Execute(program, Arch) = s
        BY <2>3, <3>1, <3>4, <3>6, HeadDoes
      <4>2. Machine!Two
        BY <3>2, <3>3, <4>1, SameMachine DEF Machine!Two
      <4>. QED  BY <2>2, <4>2 DEF Machine!Next
    <3>. QED  BY <3>5, <3>6
  <2>. QED  BY <2>4, <2>5, <2>6, <2>7
<1>. QED  BY <1>1, <1>2

\* A text that loads or stores nothing, or nothing but bytes.
BytesOnly ==
  \A pc, qc \in Pc :
    rd_mem(Fetch(program, pc)) /\ wr_mem(Fetch(program, qc)) =>
      Fetch(program, pc).size = 1 /\ Fetch(program, qc).size = 1

LEMMA BytesDoNotOverlap ==
  CoreInd /\ ~Phantoms /\ BytesOnly /\ ValuesGood => ~PartialOverlap
<1> SUFFICES ASSUME CoreInd, ~Phantoms, BytesOnly, ValuesGood,
                    NEW f \in busy, NEW t \in StoresInRob,
                    rd_mem(working[f].inst), ~(sq_rob_valid /\ t = rob_head),
                    sq_entries[SlotOf(t)].filled,
                    NEW a, a = address(working[f].inst, working[f].rs_value[1]),
                    NEW e, e = sq_entries[SlotOf(t)],
                    Bytes(e.addr, e.mem_size)
                      \cap Bytes(a, working[f].inst.size) # {}
             PROVE  <<e.addr, e.mem_size>> = <<a, working[f].inst.size>>
  BY DEF PartialOverlap
<1>1. /\ Typed /\ UnitsWork /\ EntriesGood /\ StoresQueued /\ StoresGood
  BY DEF CoreInd, ValuesGood
<1>2. t \in HeldStores /\ t \in Live /\ t \in RobIdx
  BY <1>1, HeldIs DEF HeldStores
<1>3. SlotOf(t) = Slot(t) /\ Filled(t)
  BY <1>1, <1>2, StoreRankIs DEF Filled
<1>4. e.mem_size = Word(t).size
  BY <1>1, <1>2, <1>3 DEF StoresGood, StoreGood
<1>5. wr_mem(Word(t)) /\ rob_entries[t].PC \in Pc
  BY <1>1, <1>2, EntriesAre
     DEF EntriesGood, EntryGood, GoodEntry, StoresInRob, Typed, RobEntry
<1>6. working[f].inst = Fetch(program, working[f].PC) /\ working[f].PC \in Pc
  BY <1>1 DEF UnitsWork, Typed, RsTyped, WorkingType
<1>7. working[f].inst.size = 1 /\ e.mem_size = 1
  BY <1>4, <1>5, <1>6 DEF BytesOnly, Word
<1>. QED  BY <1>7 DEF Bytes

-----------------------------------------------------------------------------
(* Theorems.                                                               *)

(* Every value in flight is the one the program computes: what a station   *)
(* and a unit hold of an operand, what a slot of the store queue, a load   *)
(* and a completed entry of the reorder buffer say is what the             *)
(* instructions in front of them leave in the registers and in the memory. *)
THEOREM ValuesAreRight ==
  CoreSpec /\ [](~Phantoms /\ ~PartialOverlap) => []ValuesGood
BY ValuesInit, ValuesMove, CoreInductive, PTL DEF CoreSpec

(* The processor is the sequential machine: in every text without the      *)
(* pairs that make the front end repeat itself, and as long as no load     *)
(* meets an older store that shares some of its bytes and is not the same  *)
(* access, the registers, the memory and the program counter change as if  *)
(* one instruction was executed after the other, whatever is renamed,      *)
(* speculated, forwarded and squashed, and however long the caches take.   *)
THEOREM CoreImplementsIsa ==
  CoreSpec /\ [](~Phantoms /\ ~DeadEnds /\ ~PartialOverlap) => ImplementsIsa
<1>1. CoreSpec /\ [](~Phantoms /\ ~DeadEnds /\ ~PartialOverlap)
        => []ValuesGood
  BY ValuesAreRight, PTL
<1>. QED
  BY <1>1, MachineInit, MachineMoves, CoreInductive, PTL
     DEF CoreSpec, ImplementsIsa, Machine!Spec

(* For texts that load or store nothing, or nothing but bytes, this is a   *)
(* condition on the text alone.                                            *)
THEOREM BytesImplementIsa ==
  CoreSpec /\ [](~Phantoms /\ ~DeadEnds /\ BytesOnly) => ImplementsIsa
<1>1. CoreInd /\ ~Phantoms /\ BytesOnly /\ ValuesGood /\ [Cycle]_coreVars
        => ValuesGood'
  BY BytesDoNotOverlap, ValuesMove
<1>. QED
  BY <1>1, ValuesInit, MachineInit, MachineMoves, CoreInductive, PTL
     DEF CoreSpec, ImplementsIsa, Machine!Spec
=============================================================================
