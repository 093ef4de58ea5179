--------------------------------- MODULE Rob ---------------------------------
(***************************************************************************)
(* The reorder buffer of verilog/rob_2.sv: a circular buffer of ROB_SIZE   *)
(* entries that takes up to two dispatched instructions, two results of    *)
(* the common data bus and two retirements in one clock cycle.             *)
(*                                                                         *)
(* The four VARIABLES are the four registers of the module.  Every         *)
(* `assign' of the source is an operator over them and over the inputs of  *)
(* the cycle; RobStep is the clock edge.  RobStep takes the inputs as      *)
(* parameters, so that P6Core can connect it to the other components;      *)
(* RobSpec closes the module with an environment of its own.               *)
(***************************************************************************)
EXTENDS Integers, Sequences

CONSTANTS
  ROB_SIZE,     \* `ROB_SIZE (32 in sys_defs.svh)
  Reg,          \* architectural register numbers
  ZERO_REG,     \* `ZERO_REG: the register no instruction writes
  Value,        \* data words
  Pc,           \* instruction addresses
  IdPacket,     \* the dispatch packets (ID_ROB_PACKET) that can arrive
  CdbPacket     \* the results (CDB_ENTRY) that can arrive

VARIABLES
  rob_head,     \* index of the oldest entry
  rob_tail,     \* index the next instruction takes
  rob_counter,  \* number of live entries
  rob_entries   \* the buffer

robVars == <<rob_head, rob_tail, rob_counter, rob_entries>>

RobIdx == 0 .. ROB_SIZE - 1

RobEntry == [valid : BOOLEAN, ready : BOOLEAN, dest_reg_idx : Reg,
             value : Value, store : BOOLEAN, is_branch : BOOLEAN,
             mis_pred : BOOLEAN, take_branch : BOOLEAN, halt : BOOLEAN,
             branch_target : Pc, NPC_out : Pc, PC : Pc]

IdRobPacket == [valid : BOOLEAN, dispatch_enable : BOOLEAN,
                dest_reg_idx : Reg, store : BOOLEAN, is_branch : BOOLEAN,
                take_branch : BOOLEAN, halt : BOOLEAN, NPC_out : Pc, PC : Pc]

CdbEntry == [valid : BOOLEAN, tag : 0 .. ROB_SIZE, value : Value,
             take_branch : BOOLEAN, branch_target : Pc]

ASSUME RobAssumption ==
  /\ ROB_SIZE \in Nat /\ ROB_SIZE >= 2
  /\ ZERO_REG \in Reg
  /\ Value \subseteq Int /\ 0 \in Value
  /\ Pc \subseteq Int /\ 0 \in Pc
  /\ IdPacket \subseteq IdRobPacket
  /\ CdbPacket \subseteq CdbEntry

EmptyEntry ==
  [valid |-> FALSE, ready |-> FALSE, dest_reg_idx |-> ZERO_REG, value |-> 0,
   store |-> FALSE, is_branch |-> FALSE, mis_pred |-> FALSE,
   take_branch |-> FALSE, halt |-> FALSE, branch_target |-> 0,
   NPC_out |-> 0, PC |-> 0]

-----------------------------------------------------------------------------
(* The window of live entries, oldest first.                               *)

RobSucc(t) == IF t = ROB_SIZE - 1 THEN 0 ELSE t + 1

rob_head_plus_1 == RobSucc(rob_head)
rob_tail_plus_1 == RobSucc(rob_tail)
rob_empty == rob_counter = 0

\* The oldest entry and the one behind it.
HeadEntry == rob_entries[rob_head]
SecondEntry == rob_entries[rob_head_plus_1]

\* How far entry t is behind the head.
Age(t) == IF t >= rob_head THEN t - rob_head ELSE t - rob_head + ROB_SIZE

-----------------------------------------------------------------------------
(* rob_icache: the first mispredicted branch whose result has arrived.     *)
(* The source scans the array from rob_head to rob_tail (two loops when    *)
(* the window wraps) and keeps the first hit.                              *)

Resolved(t) == rob_entries[t].ready /\ rob_entries[t].mis_pred

\* The first hit of one loop over the indexes a .. b - 1.
FirstResolved(a, b) ==
  {t \in RobIdx : /\ a <= t /\ t < b /\ Resolved(t)
                  /\ \A u \in RobIdx : a <= u /\ u < t => ~Resolved(u)}

\* Mutation: one scan over the array when the window wraps.
EarlyBranchUnwrapped ==
  IF rob_head < rob_tail THEN FirstResolved(rob_head, rob_tail)
  ELSE IF rob_empty THEN {}
  ELSE FirstResolved(0, ROB_SIZE)

EarlyBranch ==
  IF rob_head < rob_tail THEN FirstResolved(rob_head, rob_tail)
  ELSE IF rob_empty THEN {}
  ELSE IF \E t \in RobIdx : t >= rob_head /\ Resolved(t)
       THEN FirstResolved(rob_head, ROB_SIZE)
       ELSE FirstResolved(0, rob_tail)

early_branch_valid == EarlyBranch # {}

\* Mutation: dispatch does not wait for the squash.
NotStalled_0 == rob_counter = ROB_SIZE

rob_full_0 == rob_counter = ROB_SIZE \/ early_branch_valid
\* Mutation: slot 1 asks for one free entry, not for two.
OneFree_1 == rob_full_0

rob_full_1 == rob_full_0 \/ rob_counter = ROB_SIZE - 1

-----------------------------------------------------------------------------
(* Retirement.  `acked' is lsq_rob.retire_valid: the data cache has taken  *)
(* the store at the head.                                                  *)

halt == HeadEntry.halt

sq_retire == HeadEntry.ready /\ HeadEntry.store

retire_valid_0(acked) ==
  /\ HeadEntry.ready
  /\ ~rob_empty
  /\ HeadEntry.store => acked

Diverted(e) == e.mis_pred \/ (e.is_branch /\ e.NPC_out # e.branch_target)

squash_0(acked) == Diverted(HeadEntry) /\ retire_valid_0(acked)

\* Mutation: a store may leave through port 1, without its acknowledgement.
RetiresStores_1(acked) ==
  /\ retire_valid_0(acked)
  /\ ~squash_0(acked)
  /\ ~HeadEntry.halt
  /\ SecondEntry.valid
  /\ SecondEntry.ready
  /\ ~SecondEntry.halt

retire_valid_1(acked) ==
  /\ retire_valid_0(acked)
  /\ ~squash_0(acked)
  /\ ~HeadEntry.halt
  /\ SecondEntry.valid
  /\ SecondEntry.ready
  /\ ~SecondEntry.halt
  /\ ~SecondEntry.store

squash_1(acked) == Diverted(SecondEntry) /\ retire_valid_1(acked)

squash(acked) == squash_0(acked) \/ squash_1(acked)

\* Mutation: the target of port 0, whichever port squashes.
HeadTarget(acked) == HeadEntry.branch_target

\* Where fetch resumes after a squash.
squash_target(acked) ==
  IF squash_0(acked) THEN HeadEntry.branch_target ELSE SecondEntry.branch_target

\* The register writes of the cycle (rob_reg_0, rob_reg_1).
RegWrite(e, retires) ==
  [dest_valid |-> retires /\ e.dest_reg_idx # ZERO_REG,
   dest_reg_idx |-> e.dest_reg_idx,
   dest_value |-> e.value]

rob_reg_0(acked) == RegWrite(HeadEntry, retire_valid_0(acked) \/ halt)
rob_reg_1(acked) == RegWrite(SecondEntry, retire_valid_1(acked))

-----------------------------------------------------------------------------
(* The clock edge.                                                         *)

Accepted_0(id0) == id0.dispatch_enable /\ id0.valid
Accepted_1(id0, id1) ==
  Accepted_0(id0) /\ id1.dispatch_enable /\ id1.valid

NewEntry(id) ==
  [valid |-> TRUE, ready |-> FALSE, dest_reg_idx |-> id.dest_reg_idx,
   value |-> 0, store |-> id.store, is_branch |-> id.is_branch,
   mis_pred |-> FALSE, take_branch |-> id.take_branch, halt |-> id.halt,
   branch_target |-> 0, NPC_out |-> id.NPC_out, PC |-> id.PC]

\* A result of the common data bus reaches entry t.
Hits(cdb, t) == cdb.valid /\ cdb.tag = t /\ rob_entries[t].valid

Complete(e, cdb) ==
  [e EXCEPT !.ready = TRUE,
            !.value = cdb.value,
            !.mis_pred = e.take_branch # cdb.take_branch,
            !.branch_target = cdb.branch_target]

AfterCdb(t, cdb0, cdb1) ==
  IF Hits(cdb1, t) THEN Complete(rob_entries[t], cdb1)
  ELSE IF Hits(cdb0, t) THEN Complete(rob_entries[t], cdb0)
  ELSE rob_entries[t]

\* Mutation: only the entry at the head is cleared.
HeadRetired(t, acked) == retire_valid_0(acked) /\ t = rob_head

Retired(t, acked) ==
  \/ retire_valid_0(acked) /\ t = rob_head
  \/ retire_valid_1(acked) /\ t = rob_head_plus_1

\* Mutation: retirement clears the valid bit and nothing else.
ValidBitCleared(t, id0, id1, cdb0, cdb1, acked) ==
  IF Accepted_1(id0, id1) /\ t = rob_tail_plus_1 THEN NewEntry(id1)
  ELSE IF Accepted_0(id0) /\ t = rob_tail THEN NewEntry(id0)
  ELSE IF Retired(t, acked) THEN [rob_entries[t] EXCEPT !.valid = FALSE]
  ELSE AfterCdb(t, cdb0, cdb1)

NextEntry(t, id0, id1, cdb0, cdb1, acked) ==
  IF Accepted_1(id0, id1) /\ t = rob_tail_plus_1 THEN NewEntry(id1)
  ELSE IF Accepted_0(id0) /\ t = rob_tail THEN NewEntry(id0)
  ELSE IF Retired(t, acked) THEN EmptyEntry
  ELSE AfterCdb(t, cdb0, cdb1)

RobReset ==
  /\ rob_head' = 0
  /\ rob_tail' = 0
  /\ rob_counter' = 0
  /\ rob_entries' = [t \in RobIdx |-> EmptyEntry]

RobAdvance(p, one, two) ==
  IF two THEN RobSucc(RobSucc(p)) ELSE IF one THEN RobSucc(p) ELSE p

RobCount(one, two) == IF two THEN 2 ELSE IF one THEN 1 ELSE 0

RobMove(id0, id1, cdb0, cdb1, acked) ==
  /\ rob_head' = RobAdvance(rob_head, retire_valid_0(acked),
                         retire_valid_1(acked))
  /\ rob_tail' = RobAdvance(rob_tail, Accepted_0(id0), Accepted_1(id0, id1))
  /\ rob_counter' = rob_counter
       - RobCount(retire_valid_0(acked), retire_valid_1(acked))
       + RobCount(Accepted_0(id0), Accepted_1(id0, id1))
  /\ rob_entries' = [t \in RobIdx |->
                       NextEntry(t, id0, id1, cdb0, cdb1, acked)]

RobStep(id0, id1, cdb0, cdb1, acked) ==
  IF squash(acked) THEN RobReset
  ELSE RobMove(id0, id1, cdb0, cdb1, acked)

-----------------------------------------------------------------------------
(* The module on its own.  pipeline.sv gates dispatch_enable of a slot     *)
(* with rob_full of that slot; results name any tag, in any order.         *)

RobInit ==
  /\ rob_head = 0
  /\ rob_tail = 0
  /\ rob_counter = 0
  /\ rob_entries = [t \in RobIdx |-> EmptyEntry]

DispatchEnable(id0, id1) ==
  /\ id0.dispatch_enable => ~rob_full_0
  /\ id1.dispatch_enable => ~rob_full_1

RobCycle ==
  \E id0, id1 \in IdPacket, cdb0, cdb1 \in CdbPacket, acked \in BOOLEAN :
    /\ DispatchEnable(id0, id1)
    /\ RobStep(id0, id1, cdb0, cdb1, acked)

RobSpec == RobInit /\ [][RobCycle]_robVars

-----------------------------------------------------------------------------
(* Properties.                                                             *)

RobTypeOK ==
  /\ rob_head \in RobIdx
  /\ rob_tail \in RobIdx
  /\ rob_counter \in 0 .. ROB_SIZE
  /\ rob_entries \in [RobIdx -> RobEntry]

\* rob_2.sv keeps the occupancy three times: in rob_counter, in the distance
\* from rob_head to rob_tail, and in the valid bits.  The three agree after
\* any number of two-wide dispatches, retirements and squashes, the full and
\* the empty buffer (rob_head = rob_tail in both) included.
InWindow(t) == Age(t) < rob_counter

WindowAgrees ==
  /\ rob_tail = IF rob_head + rob_counter < ROB_SIZE
                THEN rob_head + rob_counter
                ELSE rob_head + rob_counter - ROB_SIZE
  /\ \A t \in RobIdx : rob_entries[t].valid <=> InWindow(t)

\* A slot outside the window holds the reset value, so the combinational
\* reads of rob_entries[rob_head] and rob_entries[rob_head_plus_1], which
\* rob_2.sv mostly does without asking whether they are live (halt,
\* sq_retire, squash), never see what a retired instruction left behind.
DeadSlotsClear ==
  \A t \in RobIdx : ~InWindow(t) => rob_entries[t] = EmptyEntry

\* The buffer is a ring of live entries between two pointers: what its three
\* counts of them say agrees, and nothing is left of the dead ones.  (Not one
\* of the three parts is inductive without the others: a retirement is allowed
\* by what rob_entries[rob_head_plus_1] says, so what dead slots hold matters.)
RobInv == RobTypeOK /\ WindowAgrees /\ DeadSlotsClear

\* rob_icache names the OLDEST resolved misprediction: the instruction cache
\* prefetches at its target and dispatch waits for it to retire, so a younger
\* one, which the older one is about to squash, must not win the scan when
\* the window wraps.
EarlyBranchIsOldest ==
  EarlyBranch = {t \in RobIdx :
                   /\ InWindow(t) /\ Resolved(t)
                   /\ \A u \in RobIdx : InWindow(u) /\ Resolved(u)
                                          => Age(t) <= Age(u)}

\* How many entries were dispatched behind entry t.
Behind(t) == rob_counter - Age(t)

\* rob_icache promises the instruction cache a squash that has not happened:
\* it prefetches at the branch_target of the announced entry b as soon as its
\* result is in, perhaps many cycles before b retires.  Until then nothing
\* joins the entries behind b and none of them leaves; b does not leave
\* either, but by a squash that empties the buffer, through port 0 or port 1,
\* and sends fetch to the target that was announced.  One thing may come
\* first: an OLDER instruction, predicted in the right direction but to the
\* wrong address, which no result marks mis_pred and rob_icache never names.
KeepsAnnouncement ==
  \A b \in EarlyBranch :
    \/ InWindow(b)' /\ Behind(b)' = Behind(b)
    \/ /\ rob_counter' = 0
       /\ \E acked \in BOOLEAN, t \in RobIdx :
            /\ squash(acked)
            /\ squash_target(acked) = rob_entries[t].branch_target
            /\ Diverted(rob_entries[t])
            /\ t = b \/ (Age(t) < Age(b) /\ ~rob_entries[t].mis_pred)

AnnouncedIsSquashed == [][KeepsAnnouncement]_robVars

\* The queue the buffer stands for.
Queue == [i \in 1 .. rob_counter |->
            LET t == rob_head + i - 1
            IN rob_entries[IF t < ROB_SIZE THEN t ELSE t - ROB_SIZE]]

Abstract == INSTANCE InOrderCommit
              WITH queue <- Queue, Capacity <- ROB_SIZE, Width <- 2

\* rob_2.sv implements the in-order commit queue: completions out of order,
\* two-wide retirement over the wrap and the squash of slot 0 or slot 1
\* never let an instruction leave early, late, or without those before it.
ImplementsInOrderCommit == Abstract!Spec
=============================================================================
