------------------------------ MODULE Rob_proofs ------------------------------
(***************************************************************************)
(* Proofs about the reorder buffer, for every ROB_SIZE and every set of    *)
(* dispatch packets and results.                                           *)
(***************************************************************************)
EXTENDS Rob, TLAPS

USE RobAssumption

LEMMA EmptyEntryType == EmptyEntry \in RobEntry
BY DEF EmptyEntry, RobEntry

LEMMA SuccType == ASSUME NEW t \in RobIdx
                  PROVE  /\ RobSucc(t) \in RobIdx
                         /\ RobSucc(t) # t
BY DEF RobSucc, RobIdx

\* Only live entries retire, and dispatch finds room.
LEMMA RetireBounds ==
  ASSUME RobInv, NEW acked \in BOOLEAN
  PROVE  /\ retire_valid_0(acked) => rob_counter >= 1
         /\ retire_valid_1(acked) => rob_counter >= 2 /\ retire_valid_0(acked)
<1>1. rob_counter \in Nat /\ rob_head \in RobIdx
  BY DEF RobInv, RobTypeOK
<1>2. retire_valid_0(acked) => rob_counter >= 1
  BY <1>1 DEF retire_valid_0, rob_empty
<1>3. ASSUME retire_valid_1(acked) PROVE rob_counter >= 2
  <2>1. rob_head_plus_1 \in RobIdx /\ rob_entries[rob_head_plus_1].valid
    BY <1>1, <1>3, SuccType DEF retire_valid_1, SecondEntry, rob_head_plus_1
  <2>2. Age(rob_head_plus_1) < rob_counter
    BY <2>1 DEF RobInv, WindowAgrees, InWindow
  <2>3. Age(rob_head_plus_1) = 1
    BY <1>1 DEF Age, rob_head_plus_1, RobSucc, RobIdx
  <2>. QED  BY <1>1, <2>2, <2>3
<1>. QED  BY <1>2, <1>3 DEF retire_valid_1

LEMMA DispatchBounds ==
  ASSUME RobInv, NEW id0, NEW id1, DispatchEnable(id0, id1)
  PROVE  /\ Accepted_0(id0) => rob_counter + 1 <= ROB_SIZE
         /\ Accepted_1(id0, id1) => /\ rob_counter + 2 <= ROB_SIZE
                                    /\ Accepted_0(id0)
BY DEF RobInv, RobTypeOK, DispatchEnable, Accepted_0, Accepted_1,
       rob_full_0, rob_full_1

LEMMA CompleteType ==
  ASSUME NEW e \in RobEntry, NEW cdb \in CdbEntry
  PROVE  Complete(e, cdb) \in RobEntry /\ Complete(e, cdb).valid = e.valid
BY DEF RobEntry, CdbEntry, Complete

LEMMA NewEntryType ==
  ASSUME NEW id \in IdRobPacket
  PROVE  NewEntry(id) \in RobEntry /\ NewEntry(id).valid
BY DEF RobEntry, IdRobPacket, NewEntry

\* What the clock edge does to one slot.
LEMMA NextEntryValid ==
  ASSUME RobTypeOK, NEW t \in RobIdx,
         NEW id0 \in IdRobPacket, NEW id1 \in IdRobPacket,
         NEW cdb0 \in CdbEntry, NEW cdb1 \in CdbEntry, NEW acked \in BOOLEAN
  PROVE  LET e == NextEntry(t, id0, id1, cdb0, cdb1, acked)
             new == \/ Accepted_0(id0) /\ t = rob_tail
                    \/ Accepted_1(id0, id1) /\ t = rob_tail_plus_1
         IN  /\ e \in RobEntry
             /\ new => e.valid
             /\ ~new /\ Retired(t, acked) => e = EmptyEntry
             /\ ~new /\ ~Retired(t, acked) => e.valid = rob_entries[t].valid
             /\ ~new /\ ~rob_entries[t].valid /\ rob_entries[t] = EmptyEntry
                  => e = EmptyEntry
<1>1. rob_entries[t] \in RobEntry
  BY DEF RobTypeOK
<1>2. /\ AfterCdb(t, cdb0, cdb1) \in RobEntry
      /\ AfterCdb(t, cdb0, cdb1).valid = rob_entries[t].valid
      /\ ~rob_entries[t].valid => AfterCdb(t, cdb0, cdb1) = rob_entries[t]
  BY <1>1, CompleteType DEF AfterCdb, Hits
<1>3. /\ NewEntry(id0) \in RobEntry /\ NewEntry(id0).valid
      /\ NewEntry(id1) \in RobEntry /\ NewEntry(id1).valid
  BY NewEntryType
<1>. QED  BY <1>2, <1>3, EmptyEntryType DEF NextEntry

LEMMA RobInvInit == RobInit => RobInv
BY EmptyEntryType
   DEF RobInit, RobInv, RobTypeOK, WindowAgrees, DeadSlotsClear, InWindow, Age,
       RobIdx, EmptyEntry

LEMMA RobInvReset == RobReset => RobInv'
BY EmptyEntryType
   DEF RobReset, RobInv, RobTypeOK, WindowAgrees, DeadSlotsClear, InWindow,
       Age, RobIdx, EmptyEntry

\* The clock edge that is not a squash.  n instructions retire and m are
\* dispatched; the window moves from (rob_head, rob_counter) to
\* (rob_head + n, rob_counter - n + m) around the ring.
LEMMA RobInvMove ==
  ASSUME RobInv,
         NEW id0 \in IdRobPacket, NEW id1 \in IdRobPacket,
         NEW cdb0 \in CdbEntry, NEW cdb1 \in CdbEntry, NEW acked \in BOOLEAN,
         DispatchEnable(id0, id1),
         RobMove(id0, id1, cdb0, cdb1, acked)
  PROVE  RobInv'
<1> DEFINE r0 == retire_valid_0(acked)
           r1 == retire_valid_1(acked)
           a0 == Accepted_0(id0)
           a1 == Accepted_1(id0, id1)
           new(t) == (a0 /\ t = rob_tail) \/ (a1 /\ t = rob_tail_plus_1)
           gone(t) == Retired(t, acked)
<1>1. /\ rob_head \in RobIdx /\ rob_tail \in RobIdx
      /\ rob_counter \in 0 .. ROB_SIZE
      /\ rob_tail = IF rob_head + rob_counter < ROB_SIZE
                    THEN rob_head + rob_counter
                    ELSE rob_head + rob_counter - ROB_SIZE
  BY DEF RobInv, RobTypeOK, WindowAgrees
<1>2. /\ r0 => rob_counter >= 1
      /\ r1 => rob_counter >= 2 /\ r0
  BY RetireBounds
<1>3. /\ a0 => rob_counter + 1 <= ROB_SIZE
      /\ a1 => rob_counter + 2 <= ROB_SIZE /\ a0
  BY DispatchBounds
<1>4. /\ rob_head' = RobAdvance(rob_head, r0, r1)
      /\ rob_tail' = RobAdvance(rob_tail, a0, a1)
      /\ rob_counter' = rob_counter - RobCount(r0, r1) + RobCount(a0, a1)
  BY DEF RobMove
<1>5. \A t \in RobIdx :
        /\ rob_entries'[t] \in RobEntry
        /\ new(t) => rob_entries'[t].valid
        /\ ~new(t) /\ gone(t) => rob_entries'[t] = EmptyEntry
        /\ ~new(t) /\ ~gone(t)
             => rob_entries'[t].valid = rob_entries[t].valid
        /\ ~new(t) /\ ~rob_entries[t].valid /\ rob_entries[t] = EmptyEntry
             => rob_entries'[t] = EmptyEntry
  BY NextEntryValid DEF RobMove, RobInv
<1>6. rob_entries' = [t \in RobIdx |-> rob_entries'[t]]
  BY DEF RobMove
<1>7. ~EmptyEntry.valid
  BY DEF EmptyEntry
<1>8. \A t \in RobIdx : rob_entries[t].valid <=> InWindow(t)
  BY DEF RobInv, WindowAgrees
<1>9. /\ rob_head' \in RobIdx /\ rob_tail' \in RobIdx
      /\ rob_counter' \in 0 .. ROB_SIZE
      /\ rob_tail' = IF rob_head' + rob_counter' < ROB_SIZE
                     THEN rob_head' + rob_counter'
                     ELSE rob_head' + rob_counter' - ROB_SIZE
  BY <1>1, <1>2, <1>3, <1>4 DEF RobAdvance, RobCount, RobSucc, RobIdx
<1>10. RobTypeOK'
  BY <1>5, <1>6, <1>9 DEF RobTypeOK
<1>11. \A t \in RobIdx :
         InWindow(t)' <=> new(t) \/ (InWindow(t) /\ ~gone(t))
  <2> SUFFICES ASSUME NEW t \in RobIdx
               PROVE  InWindow(t)' <=> new(t) \/ (InWindow(t) /\ ~gone(t))
    OBVIOUS
  <2>1. InWindow(t)' <=> (IF t >= rob_head' THEN t - rob_head'
                          ELSE t - rob_head' + ROB_SIZE) < rob_counter'
    BY DEF InWindow, Age
  <2>2. InWindow(t) <=> (IF t >= rob_head THEN t - rob_head
                         ELSE t - rob_head + ROB_SIZE) < rob_counter
    BY DEF InWindow, Age
  <2>3. gone(t) <=> (r0 /\ t = rob_head) \/ (r1 /\ t = RobSucc(rob_head))
    BY DEF Retired, rob_head_plus_1
  <2>4. new(t) <=> (a0 /\ t = rob_tail) \/ (a1 /\ t = RobSucc(rob_tail))
    BY DEF rob_tail_plus_1
  <2> HIDE DEF r0, r1, a0, a1, new, gone
  <2>. QED
    BY <1>1, <1>2, <1>3, <1>4, <2>1, <2>2, <2>3, <2>4
       DEF RobAdvance, RobCount, RobSucc, RobIdx
<1>12. \A t \in RobIdx : rob_entries'[t].valid <=> InWindow(t)'
  BY <1>5, <1>7, <1>8, <1>11
<1>13. WindowAgrees'
  BY <1>9, <1>12 DEF WindowAgrees
<1>14. ASSUME NEW t \in RobIdx, ~InWindow(t)'
       PROVE  rob_entries'[t] = EmptyEntry
  BY <1>5, <1>8, <1>11, <1>14 DEF RobInv, DeadSlotsClear
<1>. QED  BY <1>10, <1>13, <1>14 DEF RobInv, DeadSlotsClear

(* The occupancy of the reorder buffer is the same in rob_counter, in the  *)
(* pointers and in the valid bits, and dead slots read as reset, for every *)
(* ROB_SIZE >= 2 and whatever arrives.                                     *)
THEOREM RobInvariant == RobSpec => []RobInv
<1>1. RobInit => RobInv
  BY RobInvInit
<1>2. RobInv /\ [RobCycle]_robVars => RobInv'
  <2> SUFFICES ASSUME RobInv, [RobCycle]_robVars  PROVE RobInv'
    OBVIOUS
  <2>1. CASE RobCycle
    <3>1. PICK id0 \in IdPacket, id1 \in IdPacket, cdb0 \in CdbPacket,
               cdb1 \in CdbPacket, acked \in BOOLEAN :
                 /\ DispatchEnable(id0, id1)
                 /\ RobStep(id0, id1, cdb0, cdb1, acked)
      BY <2>1 DEF RobCycle
    <3>2. CASE squash(acked)
      BY <3>1, <3>2, RobInvReset DEF RobStep
    <3>3. CASE ~squash(acked)
      BY <3>1, <3>3, RobInvMove DEF RobStep
    <3>. QED  BY <3>2, <3>3
  <2>2. CASE UNCHANGED robVars
    BY <2>2 DEF robVars, RobInv, RobTypeOK, WindowAgrees, DeadSlotsClear,
                InWindow, Age
  <2>. QED  BY <2>1, <2>2
<1>. QED  BY <1>1, <1>2, PTL DEF RobSpec

(* The type invariant.                                                     *)
THEOREM RobTypeCorrect == RobSpec => []RobTypeOK
<1>1. RobInv => RobTypeOK
  BY DEF RobInv
<1>. QED  BY <1>1, RobInvariant, PTL

(* rob_counter, the pointers and the valid bits agree.                     *)
THEOREM RobWindow == RobSpec => []WindowAgrees
<1>1. RobInv => WindowAgrees
  BY DEF RobInv
<1>. QED  BY <1>1, RobInvariant, PTL

(* The entry behind the head is read combinationally even when it is dead. *)
THEOREM RobDeadSlots == RobSpec => []DeadSlotsClear
<1>1. RobInv => DeadSlotsClear
  BY DEF RobInv
<1>. QED  BY <1>1, RobInvariant, PTL

\* The two loops of rob_icache against the oldest resolved misprediction.
LEMMA EarlyBranchOldestLemma == RobInv => EarlyBranchIsOldest
<1> SUFFICES ASSUME RobInv PROVE EarlyBranchIsOldest
  OBVIOUS
<1> DEFINE Oldest(t) == /\ InWindow(t) /\ Resolved(t)
                        /\ \A u \in RobIdx : InWindow(u) /\ Resolved(u)
                                               => Age(t) <= Age(u)
<1>1. /\ rob_head \in RobIdx /\ rob_tail \in RobIdx
      /\ rob_counter \in 0 .. ROB_SIZE
      /\ rob_tail = IF rob_head + rob_counter < ROB_SIZE
                    THEN rob_head + rob_counter
                    ELSE rob_head + rob_counter - ROB_SIZE
  BY DEF RobInv, RobTypeOK, WindowAgrees
<1>2. CASE rob_head < rob_tail
  <2>1. \A t \in RobIdx : /\ InWindow(t) <=> rob_head <= t /\ t < rob_tail
                          /\ rob_head <= t => Age(t) = t - rob_head
    BY <1>1, <1>2 DEF InWindow, Age, RobIdx
  <2>2. \A t \in RobIdx : t \in FirstResolved(rob_head, rob_tail) <=> Oldest(t)
    BY <1>1, <2>1 DEF FirstResolved, RobIdx
  <2>3. EarlyBranch = FirstResolved(rob_head, rob_tail)
    BY <1>2 DEF EarlyBranch
  <2>. QED
    BY <2>2, <2>3 DEF EarlyBranchIsOldest, FirstResolved
<1>3. CASE ~(rob_head < rob_tail) /\ rob_empty
  <2>1. \A t \in RobIdx : ~InWindow(t)
    BY <1>1, <1>3 DEF InWindow, Age, RobIdx, rob_empty
  <2>. QED
    BY <1>3, <2>1 DEF EarlyBranchIsOldest, EarlyBranch
<1>4. CASE ~(rob_head < rob_tail) /\ ~rob_empty
  <2>1. \A t \in RobIdx :
          /\ InWindow(t) <=> rob_head <= t \/ t < rob_tail
          /\ rob_head <= t => Age(t) = t - rob_head
          /\ t < rob_head => Age(t) = t - rob_head + ROB_SIZE
    BY <1>1, <1>4 DEF InWindow, Age, RobIdx, rob_empty
  <2>2. CASE \E t \in RobIdx : t >= rob_head /\ Resolved(t)
    <3>1. PICK f \in RobIdx : rob_head <= f /\ Resolved(f)
      BY <1>1, <2>2 DEF RobIdx
    <3>2. \A t \in RobIdx :
            t \in FirstResolved(rob_head, ROB_SIZE) <=> Oldest(t)
      BY <1>1, <1>4, <2>1, <3>1 DEF FirstResolved, RobIdx
    <3>3. EarlyBranch = FirstResolved(rob_head, ROB_SIZE)
      BY <1>4, <2>2 DEF EarlyBranch
    <3>. QED
      BY <3>2, <3>3 DEF EarlyBranchIsOldest, FirstResolved
  <2>3. CASE ~ \E t \in RobIdx : t >= rob_head /\ Resolved(t)
    <3>1. \A t \in RobIdx : t \in FirstResolved(0, rob_tail) <=> Oldest(t)
      BY <1>1, <1>4, <2>1, <2>3 DEF FirstResolved, RobIdx
    <3>2. EarlyBranch = FirstResolved(0, rob_tail)
      BY <1>4, <2>3 DEF EarlyBranch
    <3>. QED
      BY <3>1, <3>2 DEF EarlyBranchIsOldest, FirstResolved
  <2>. QED  BY <2>2, <2>3
<1>. QED  BY <1>2, <1>3, <1>4

(* The prefetch target and the dispatch stall come from the oldest         *)
(* resolved misprediction, wherever the window lies in the ring.           *)
THEOREM RobEarlyBranch == RobSpec => []EarlyBranchIsOldest
<1>. QED  BY EarlyBranchOldestLemma, RobInvariant, PTL

\* Where the two entries lie that can retire, and no other entry does.
LEMMA RetiringAges ==
  ASSUME RobTypeOK
  PROVE  /\ rob_head \in RobIdx /\ rob_head_plus_1 \in RobIdx
         /\ Age(rob_head) = 0 /\ Age(rob_head_plus_1) = 1
         /\ \A t \in RobIdx : /\ Age(t) \in Nat
                              /\ Age(t) = 0 => t = rob_head
                              /\ Age(t) = 1 => t = rob_head_plus_1
BY DEF RobTypeOK, RobIdx, Age, rob_head_plus_1, RobSucc

\* A squash comes at the announced entry, or at an older one that went in
\* the predicted direction to another address.
LEMMA SquashOfAnnounced ==
  ASSUME RobInv, NEW b \in EarlyBranch, NEW acked \in BOOLEAN, squash(acked)
  PROVE  \E t \in RobIdx :
           /\ squash_target(acked) = rob_entries[t].branch_target
           /\ Diverted(rob_entries[t])
           /\ t = b \/ (Age(t) < Age(b) /\ ~rob_entries[t].mis_pred)
<1>1. /\ b \in RobIdx /\ Resolved(b)
      /\ \A u \in RobIdx : InWindow(u) /\ Resolved(u) => Age(b) <= Age(u)
  BY EarlyBranchOldestLemma DEF EarlyBranchIsOldest
<1>2. /\ rob_head \in RobIdx /\ rob_head_plus_1 \in RobIdx
      /\ Age(rob_head) = 0 /\ Age(rob_head_plus_1) = 1
      /\ Age(b) \in Nat
      /\ Age(b) = 0 => b = rob_head
      /\ Age(b) = 1 => b = rob_head_plus_1
  BY <1>1, RetiringAges DEF RobInv
<1>3. /\ rob_counter \in Nat
      /\ retire_valid_0(acked) => rob_counter >= 1
      /\ retire_valid_1(acked) => rob_counter >= 2 /\ retire_valid_0(acked)
  BY RetireBounds DEF RobInv, RobTypeOK
<1>4. CASE squash_0(acked)
  <2>1. /\ Diverted(HeadEntry) /\ HeadEntry.ready /\ retire_valid_0(acked)
        /\ squash_target(acked) = HeadEntry.branch_target
    BY <1>4 DEF squash_0, retire_valid_0, squash_target
  <2>2. InWindow(rob_head)
    BY <1>2, <1>3, <2>1 DEF InWindow
  <2>3. HeadEntry.mis_pred => Age(b) <= 0
    BY <1>1, <1>2, <2>1, <2>2 DEF Resolved, HeadEntry
  <2>4. b = rob_head \/ (Age(rob_head) < Age(b) /\ ~HeadEntry.mis_pred)
    BY <1>2, <2>3
  <2>. QED  BY <1>2, <2>1, <2>4 DEF HeadEntry
<1>5. CASE ~squash_0(acked)
  <2>1. /\ Diverted(SecondEntry) /\ SecondEntry.ready
        /\ retire_valid_1(acked) /\ retire_valid_0(acked)
        /\ squash_target(acked) = SecondEntry.branch_target
    BY <1>5 DEF squash, squash_1, retire_valid_1, squash_target
  <2>2. InWindow(rob_head_plus_1)
    BY <1>2, <1>3, <2>1 DEF InWindow
  <2>3. SecondEntry.mis_pred => Age(b) <= 1
    BY <1>1, <1>2, <2>1, <2>2 DEF Resolved, SecondEntry
  <2>4. b # rob_head
    BY <1>1, <1>5, <2>1 DEF squash_0, Diverted, Resolved, HeadEntry
  <2>5. \/ b = rob_head_plus_1
        \/ Age(rob_head_plus_1) < Age(b) /\ ~SecondEntry.mis_pred
    BY <1>2, <2>3, <2>4
  <2>. QED  BY <1>2, <2>1, <2>5 DEF SecondEntry
<1>. QED  BY <1>4, <1>5

\* While nothing squashes, what retires is older than the announced entry and
\* nothing is dispatched.
LEMMA AnnouncedStays ==
  ASSUME RobInv, NEW b \in EarlyBranch, NEW acked \in BOOLEAN,
         NEW id0 \in IdPacket, NEW id1 \in IdPacket,
         NEW cdb0 \in CdbPacket, NEW cdb1 \in CdbPacket,
         DispatchEnable(id0, id1), ~squash(acked),
         RobMove(id0, id1, cdb0, cdb1, acked)
  PROVE  InWindow(b)' /\ Behind(b)' = Behind(b)
<1> DEFINE r0 == retire_valid_0(acked)
           r1 == retire_valid_1(acked)
<1>1. b \in RobIdx /\ Resolved(b) /\ InWindow(b)
  BY EarlyBranchOldestLemma DEF EarlyBranchIsOldest
<1>2. ~Accepted_0(id0) /\ ~Accepted_1(id0, id1)
  BY DEF DispatchEnable, rob_full_0, early_branch_valid, Accepted_0, Accepted_1
<1>3. /\ r1 => r0
      /\ r0 => b # rob_head
      /\ r1 => b # RobSucc(rob_head)
  BY <1>1 DEF squash, squash_0, squash_1, retire_valid_1, Diverted, Resolved,
              HeadEntry, SecondEntry, rob_head_plus_1
<1>4. /\ rob_head' = RobAdvance(rob_head, r0, r1)
      /\ rob_counter' = rob_counter - RobCount(r0, r1)
  <2>1. rob_counter \in Int /\ RobCount(r0, r1) \in Int
    BY DEF RobInv, RobTypeOK, RobCount
  <2>. QED  BY <1>2, <2>1 DEF RobMove, RobCount
<1>5. /\ rob_head \in RobIdx /\ rob_counter \in 0 .. ROB_SIZE
      /\ Age(b) < rob_counter
  BY <1>1 DEF RobInv, RobTypeOK, InWindow
<1>6. /\ Age(b) = IF b >= rob_head THEN b - rob_head
                  ELSE b - rob_head + ROB_SIZE
      /\ Age(b)' = IF b >= rob_head' THEN b - rob_head'
                   ELSE b - rob_head' + ROB_SIZE
  BY DEF Age
<1> HIDE DEF r0, r1
<1>7. Age(b)' = Age(b) - RobCount(r0, r1)
  BY <1>1, <1>3, <1>4, <1>5, <1>6 DEF RobAdvance, RobCount, RobSucc, RobIdx
<1>8. Age(b) \in Int /\ RobCount(r0, r1) \in Int
  BY <1>1, <1>5, <1>6 DEF RobIdx, RobCount
<1>. QED  BY <1>4, <1>5, <1>7, <1>8 DEF InWindow, Behind

(* What rob_icache announces comes true: the oldest resolved misprediction *)
(* stays with what is behind it until it is squashed, and fetch goes on    *)
(* where the announcement said, for every ROB_SIZE and whatever arrives;   *)
(* only an older instruction that went to a wrong address comes first.     *)
THEOREM RobSquashesAnnounced == RobSpec => AnnouncedIsSquashed
<1>1. RobInv /\ [RobCycle]_robVars => [KeepsAnnouncement]_robVars
  <2> SUFFICES ASSUME RobInv, RobCycle PROVE KeepsAnnouncement
    OBVIOUS
  <2>1. PICK id0 \in IdPacket, id1 \in IdPacket, cdb0 \in CdbPacket,
             cdb1 \in CdbPacket, acked \in BOOLEAN :
               /\ DispatchEnable(id0, id1)
               /\ RobStep(id0, id1, cdb0, cdb1, acked)
    BY DEF RobCycle
  <2>2. CASE squash(acked)
    BY <2>1, <2>2, SquashOfAnnounced DEF RobStep, RobReset, KeepsAnnouncement
  <2>3. CASE ~squash(acked)
    BY <2>1, <2>3, AnnouncedStays DEF RobStep, KeepsAnnouncement
  <2>. QED  BY <2>2, <2>3
<1>. QED  BY <1>1, RobInvariant, PTL DEF RobSpec, AnnouncedIsSquashed

-----------------------------------------------------------------------------
(* rob_2.sv implements InOrderCommit: Queue is the entries between the     *)
(* pointers, the oldest first.                                             *)

\* The index of the i-th entry from h.
Slot(h, i) == IF h + i - 1 < ROB_SIZE THEN h + i - 1 ELSE h + i - 1 - ROB_SIZE

\* c entries from h on, as a sequence.
Stretch(h, c, e) ==
  [i \in 1 .. c |-> LET t == h + i - 1
                    IN e[IF t < ROB_SIZE THEN t ELSE t - ROB_SIZE]]

LEMMA StretchIs ==
  ASSUME NEW h \in Int, NEW c \in Nat, NEW e
  PROVE  /\ Len(Stretch(h, c, e)) = c
         /\ \A i \in 1 .. c : Stretch(h, c, e)[i] = e[Slot(h, i)]
<1>1. Len(Stretch(h, c, e)) = c
  BY DEF Stretch
<1>2. ASSUME NEW i \in 1 .. c PROVE Stretch(h, c, e)[i] = e[Slot(h, i)]
  BY <1>2 DEF Stretch, Slot
<1>. QED  BY <1>1, <1>2

LEMMA QueueIsStretch ==
  /\ Queue = Stretch(rob_head, rob_counter, rob_entries)
  /\ Queue' = Stretch(rob_head', rob_counter', rob_entries')
<1>1. Queue = Stretch(rob_head, rob_counter, rob_entries)
  BY DEF Queue, Stretch
<1>2. Queue' = Stretch(rob_head', rob_counter', rob_entries')
  BY DEF Queue, Stretch
<1>. QED  BY <1>1, <1>2

LEMMA NoStretch == ASSUME NEW h, NEW e PROVE Stretch(h, 0, e) = <<>>
BY DEF Stretch

\* Results change what an instruction comes to, not what it is.
LEMMA CompleteKeeps ==
  ASSUME NEW e \in RobEntry, NEW cdb \in CdbEntry
  PROVE  /\ Abstract!SameInstruction(Complete(e, cdb), e)
         /\ Complete(e, cdb).ready
BY DEF RobEntry, Complete, Abstract!SameInstruction

LEMMA AfterCdbKeeps ==
  ASSUME RobTypeOK, NEW t \in RobIdx, NEW cdb0 \in CdbPacket,
         NEW cdb1 \in CdbPacket
  PROVE  LET e == AfterCdb(t, cdb0, cdb1)
         IN  /\ Abstract!SameInstruction(e, rob_entries[t])
             /\ e # rob_entries[t] => e.ready
<1>1. rob_entries[t] \in RobEntry /\ cdb0 \in CdbEntry /\ cdb1 \in CdbEntry
  BY DEF RobTypeOK
<1>2. Abstract!SameInstruction(rob_entries[t], rob_entries[t])
  BY DEF Abstract!SameInstruction
<1>. QED  BY <1>1, <1>2, CompleteKeeps DEF AfterCdb

\* The empty buffer is the empty queue.
LEMMA ResetEmpties == RobReset => Queue' = <<>>
BY QueueIsStretch, NoStretch DEF RobReset

LEMMA FirstTwo ==
  ASSUME RobInv
  PROVE  /\ rob_counter \in Nat /\ Len(Queue) = rob_counter
         /\ rob_counter >= 1 => Queue[1] = HeadEntry
         /\ rob_counter >= 2 => Queue[2] = SecondEntry
<1>1. rob_counter \in Nat /\ rob_head \in RobIdx
  BY DEF RobInv, RobTypeOK
<1>2. Slot(rob_head, 1) = rob_head /\ Slot(rob_head, 2) = rob_head_plus_1
  BY <1>1 DEF Slot, rob_head_plus_1, RobSucc, RobIdx
<1>3. rob_head \in Int
  BY <1>1 DEF RobIdx
<1>. QED
  BY <1>1, <1>2, <1>3, QueueIsStretch, StretchIs DEF HeadEntry, SecondEntry

\* What retires may leave, and is diverting if and only if it squashes.
LEMMA RetiringMayLeave ==
  ASSUME RobInv, NEW acked \in BOOLEAN
  PROVE  LET n == RobCount(retire_valid_0(acked), retire_valid_1(acked))
         IN  /\ n \in 0 .. 2 /\ Abstract!MayLeave(n)
             /\ ~squash(acked)
                  => \A i \in 1 .. n : ~Abstract!Diverting(Queue[i])
<1>1. /\ retire_valid_0(acked) => rob_counter >= 1
      /\ retire_valid_1(acked) => rob_counter >= 2 /\ retire_valid_0(acked)
  BY RetireBounds
<1>2. CASE retire_valid_1(acked)
  <2>1. RobCount(retire_valid_0(acked), retire_valid_1(acked)) = 2
    BY <1>2 DEF RobCount
  <2>2. /\ HeadEntry.ready /\ ~HeadEntry.halt
        /\ SecondEntry.ready /\ ~SecondEntry.store /\ ~SecondEntry.halt
    BY <1>2 DEF retire_valid_1, retire_valid_0
  <2>3. Queue[1] = HeadEntry /\ Queue[2] = SecondEntry /\ 2 <= Len(Queue)
    BY <1>1, <1>2, FirstTwo
  <2>4. ASSUME ~squash(acked)
        PROVE  ~Abstract!Diverting(Queue[1]) /\ ~Abstract!Diverting(Queue[2])
    BY <1>1, <1>2, <2>3, <2>4
       DEF Abstract!Diverting, Diverted, squash, squash_0, squash_1
  <2>5. \A i \in 1 .. 2 : i = 1 \/ i = 2
    OBVIOUS
  <2>6. \A i \in 2 .. 2 : i = 2
    OBVIOUS
  <2>. QED  BY <2>1, <2>2, <2>3, <2>4, <2>5, <2>6 DEF Abstract!MayLeave
<1>3. CASE retire_valid_0(acked) /\ ~retire_valid_1(acked)
  <2>1. RobCount(retire_valid_0(acked), retire_valid_1(acked)) = 1
    BY <1>3 DEF RobCount
  <2>2. HeadEntry.ready
    BY <1>3 DEF retire_valid_0
  <2>3. Queue[1] = HeadEntry /\ 1 <= Len(Queue)
    BY <1>1, <1>3, FirstTwo
  <2>4. ~squash(acked) => ~Abstract!Diverting(Queue[1])
    BY <1>3, <2>3 DEF Abstract!Diverting, Diverted, squash, squash_0
  <2>5. \A i \in 1 .. 1 : i = 1
    OBVIOUS
  <2>. QED  BY <2>1, <2>2, <2>3, <2>4, <2>5 DEF Abstract!MayLeave
<1>4. CASE ~retire_valid_0(acked) /\ ~retire_valid_1(acked)
  <2>1. RobCount(retire_valid_0(acked), retire_valid_1(acked)) = 0
    BY <1>4 DEF RobCount
  <2>. QED  BY <2>1, FirstTwo DEF Abstract!MayLeave
<1>. QED  BY <1>1, <1>2, <1>3, <1>4

\* A squash is a flush, at the first or at the second that leaves.
LEMMA SquashFlushes ==
  ASSUME RobInv, NEW acked \in BOOLEAN, squash(acked), RobReset
  PROVE  Abstract!Flush
<1>1. Queue' = <<>>
  BY ResetEmpties
<1>2. /\ retire_valid_0(acked) => rob_counter >= 1
      /\ retire_valid_1(acked) => rob_counter >= 2 /\ retire_valid_0(acked)
  BY RetireBounds
<1>3. CASE squash_0(acked)
  <2>1. retire_valid_0(acked) /\ Diverted(HeadEntry) /\ HeadEntry.ready
    BY <1>3 DEF squash_0, retire_valid_0
  <2>2. Queue[1] = HeadEntry /\ 1 <= Len(Queue)
    BY <1>2, <2>1, FirstTwo
  <2>3. \A i \in 1 .. 1 : i = 1
    OBVIOUS
  <2>4. Abstract!MayLeave(1) /\ Abstract!Diverting(Queue[1])
    BY <2>1, <2>2, <2>3 DEF Abstract!MayLeave, Abstract!Diverting, Diverted
  <2>. QED  BY <1>1, <2>4 DEF Abstract!Flush
<1>4. CASE squash_1(acked) /\ ~squash_0(acked)
  <2>1. retire_valid_1(acked) /\ Diverted(SecondEntry)
    BY <1>4 DEF squash_1
  <2>2. /\ Queue[1] = HeadEntry /\ Queue[2] = SecondEntry
        /\ retire_valid_0(acked)
    BY <1>2, <2>1, FirstTwo
  <2>3. RobCount(retire_valid_0(acked), retire_valid_1(acked)) = 2
    BY <2>1 DEF RobCount
  <2>4. Abstract!MayLeave(2)
    BY <2>3, RetiringMayLeave
  <2>5. Abstract!Diverting(Queue[2]) /\ ~Abstract!Diverting(Queue[1])
    BY <1>4, <2>1, <2>2 DEF Abstract!Diverting, Diverted, squash_0
  <2>6. \A i \in 1 .. 2 - 1 : i = 1
    OBVIOUS
  <2>. QED  BY <1>1, <2>4, <2>5, <2>6 DEF Abstract!Flush
<1>. QED  BY <1>3, <1>4 DEF squash

\* Where the slots that stay, and those that are new, lie in the next cycle.
LEMMA SlotsMove ==
  ASSUME NEW h \in RobIdx, NEW c \in 0 .. ROB_SIZE,
         NEW r0 \in BOOLEAN, NEW r1 \in BOOLEAN, r1 => r0,
         NEW a0 \in BOOLEAN, NEW a1 \in BOOLEAN, a1 => a0,
         RobCount(r0, r1) <= c, c + RobCount(a0, a1) <= ROB_SIZE,
         NEW i \in 1 .. c - RobCount(r0, r1) + RobCount(a0, a1)
  PROVE  LET n == RobCount(r0, r1)
             tail == IF h + c < ROB_SIZE THEN h + c ELSE h + c - ROB_SIZE
             t == Slot(RobAdvance(h, r0, r1), i)
         IN  /\ t \in RobIdx
             /\ i <= c - n => /\ t = Slot(h, i + n)
                              /\ r0 => t # h
                              /\ r1 => t # RobSucc(h)
                              /\ a0 => t # tail
                              /\ a1 => t # RobSucc(tail)
             /\ i > c - n => \/ a0 /\ t = tail
                             \/ a1 /\ t = RobSucc(tail)
<1>1. ASSUME NEW n \in 0 .. 2, n = RobCount(r0, r1),
             NEW m \in 0 .. 2, m = RobCount(a0, a1),
             NEW g, g = RobAdvance(h, r0, r1),
             NEW tail, tail = IF h + c < ROB_SIZE THEN h + c
                              ELSE h + c - ROB_SIZE,
             NEW t, t = Slot(g, i)
      PROVE  /\ t \in RobIdx
             /\ i <= c - n => /\ t = Slot(h, i + n)
                              /\ r0 => t # h
                              /\ r1 => t # RobSucc(h)
                              /\ a0 => t # tail
                              /\ a1 => t # RobSucc(tail)
             /\ i > c - n => \/ a0 /\ t = tail
                             \/ a1 /\ t = RobSucc(tail)
  <2>1. g = IF h + n < ROB_SIZE THEN h + n ELSE h + n - ROB_SIZE
    BY <1>1 DEF RobIdx, RobCount, RobAdvance, RobSucc
  <2>2. t = IF h + n + i - 1 < ROB_SIZE THEN h + n + i - 1
            ELSE h + n + i - 1 - ROB_SIZE
    BY <1>1, <2>1 DEF RobIdx, Slot
  <2>. QED  BY <1>1, <2>2 DEF RobIdx, RobCount, Slot, RobSucc
<1>2. RobCount(r0, r1) \in 0 .. 2 /\ RobCount(a0, a1) \in 0 .. 2
  BY DEF RobCount
<1>. QED  BY <1>1, <1>2

\* Without a squash some leave, some enter, and the rest move up.
LEMMA CycleMoves ==
  ASSUME RobInv,
         NEW id0 \in IdPacket, NEW id1 \in IdPacket,
         NEW cdb0 \in CdbPacket, NEW cdb1 \in CdbPacket, NEW acked \in BOOLEAN,
         DispatchEnable(id0, id1), ~squash(acked),
         RobMove(id0, id1, cdb0, cdb1, acked)
  PROVE  Abstract!Move
<1> DEFINE r0 == retire_valid_0(acked)
           r1 == retire_valid_1(acked)
           a0 == Accepted_0(id0)
           a1 == Accepted_1(id0, id1)
           n == RobCount(r0, r1)
           m == RobCount(a0, a1)
           slot(i) == Slot(rob_head', i)
<1>1. /\ rob_head \in RobIdx /\ rob_counter \in 0 .. ROB_SIZE
      /\ rob_tail = IF rob_head + rob_counter < ROB_SIZE
                    THEN rob_head + rob_counter
                    ELSE rob_head + rob_counter - ROB_SIZE
  BY DEF RobInv, RobTypeOK, WindowAgrees
<1>2. /\ r0 \in BOOLEAN /\ r1 \in BOOLEAN /\ a0 \in BOOLEAN /\ a1 \in BOOLEAN
      /\ r1 => r0
      /\ a1 => a0
      /\ n <= rob_counter /\ rob_counter + m <= ROB_SIZE
      /\ n \in 0 .. 2 /\ m \in 0 .. 2
  <2>1. /\ r0 \in BOOLEAN /\ r1 \in BOOLEAN
    BY DEF retire_valid_0, retire_valid_1, RobInv, RobTypeOK
  <2>2. a0 \in BOOLEAN /\ a1 \in BOOLEAN
    BY DEF Accepted_0, Accepted_1
  <2>3. /\ r0 => rob_counter >= 1
        /\ r1 => rob_counter >= 2 /\ r0
    BY RetireBounds
  <2>4. /\ a0 => rob_counter + 1 <= ROB_SIZE
        /\ a1 => rob_counter + 2 <= ROB_SIZE /\ a0
    BY DispatchBounds
  <2> HIDE DEF r0, r1, a0, a1
  <2>. QED  BY <1>1, <2>1, <2>2, <2>3, <2>4 DEF RobCount
<1>3. /\ rob_head' = RobAdvance(rob_head, r0, r1)
      /\ rob_counter' = rob_counter - n + m
      /\ rob_entries' = [t \in RobIdx |->
                           NextEntry(t, id0, id1, cdb0, cdb1, acked)]
  BY DEF RobMove
<1>4. /\ Abstract!MayLeave(n)
      /\ \A i \in 1 .. n : ~Abstract!Diverting(Queue[i])
  BY RetiringMayLeave
<1>5. /\ rob_counter' \in Nat
      /\ Len(Queue) = rob_counter /\ Len(Queue') = rob_counter'
      /\ \A i \in 1 .. rob_counter :
           Queue[i] = rob_entries[Slot(rob_head, i)]
      /\ \A i \in 1 .. rob_counter' : Queue'[i] = rob_entries'[slot(i)]
  <2>1. rob_counter \in Nat /\ rob_counter' \in Nat
    BY <1>1, <1>2, <1>3
  <2>2. rob_head \in Int /\ rob_head' \in Int
    BY <1>1, <1>3 DEF RobIdx, RobAdvance, RobSucc
  <2>. QED  BY <2>1, <2>2, QueueIsStretch, StretchIs
<1>6. ASSUME NEW i \in 1 .. rob_counter'
      PROVE  /\ slot(i) \in RobIdx
             /\ i <= rob_counter - n => /\ slot(i) = Slot(rob_head, i + n)
                                        /\ r0 => slot(i) # rob_head
                                        /\ r1 => slot(i) # rob_head_plus_1
                                        /\ a0 => slot(i) # rob_tail
                                        /\ a1 => slot(i) # rob_tail_plus_1
             /\ i > rob_counter - n => \/ a0 /\ slot(i) = rob_tail
                                       \/ a1 /\ slot(i) = rob_tail_plus_1
  <2> HIDE DEF r0, r1, a0, a1
  <2>. QED
    BY <1>1, <1>2, <1>3, SlotsMove DEF rob_head_plus_1, rob_tail_plus_1
<1>7. ASSUME NEW i \in 1 .. rob_counter - n
      PROVE  /\ Abstract!SameInstruction(Queue'[i], Queue[i + n])
             /\ Queue'[i] # Queue[i + n] => Queue'[i].ready
  <2>1. i \in 1 .. rob_counter' /\ i + n \in 1 .. rob_counter
    BY <1>1, <1>2, <1>3
  <2>2. /\ Queue[i + n] = rob_entries[slot(i)]
        /\ Queue'[i] = rob_entries'[slot(i)]
    BY <1>5, <1>6, <2>1
  <2>3. rob_entries'[slot(i)] = AfterCdb(slot(i), cdb0, cdb1)
    BY <1>3, <1>6, <2>1 DEF NextEntry, Retired
  <2>4. slot(i) \in RobIdx /\ RobTypeOK
    BY <1>6, <2>1 DEF RobInv
  <2>. QED  BY <2>2, <2>3, <2>4, AfterCdbKeeps
<1>8. ASSUME NEW i \in rob_counter - n + 1 .. rob_counter'
      PROVE  ~Queue'[i].ready
  <2>1. i \in 1 .. rob_counter' /\ i > rob_counter - n
    BY <1>1, <1>2, <1>3
  <2>2. rob_entries'[slot(i)] \in {NewEntry(id0), NewEntry(id1)}
    BY <1>3, <1>6, <2>1 DEF NextEntry
  <2>. QED  BY <1>5, <2>1, <2>2 DEF NewEntry
<1>9. /\ Len(Queue) + m <= ROB_SIZE
      /\ Len(Queue') = Len(Queue) - n + m
      /\ n \in 0 .. 2 /\ m \in 0 .. 2
  BY <1>2, <1>3, <1>5
<1> HIDE DEF n, m
<1>10. \A i \in 1 .. Len(Queue) - n :
         /\ Abstract!SameInstruction(Queue'[i], Queue[i + n])
         /\ Queue'[i] # Queue[i + n] => Queue'[i].ready
  BY <1>5, <1>7
<1>11. \A i \in Len(Queue) - n + 1 .. Len(Queue') : ~Queue'[i].ready
  BY <1>5, <1>8
<1>. QED  BY <1>4, <1>9, <1>10, <1>11 DEF Abstract!Move

\* rob_2.sv keeps what InOrderCommit promises: instructions enter in order,
\* complete in any order and leave in order, at most two at a time, and a
\* squash takes all that is behind it.
THEOREM RobImplementsInOrder == RobSpec => ImplementsInOrderCommit
<1>1. RobInit => Queue = <<>>
  BY QueueIsStretch, NoStretch DEF RobInit
<1>2. RobInv /\ [RobCycle]_robVars => [Abstract!Next]_Queue
  <2> SUFFICES ASSUME RobInv, [RobCycle]_robVars PROVE [Abstract!Next]_Queue
    OBVIOUS
  <2>1. CASE RobCycle
    <3>1. PICK id0 \in IdPacket, id1 \in IdPacket, cdb0 \in CdbPacket,
               cdb1 \in CdbPacket, acked \in BOOLEAN :
                 /\ DispatchEnable(id0, id1)
                 /\ RobStep(id0, id1, cdb0, cdb1, acked)
      BY <2>1 DEF RobCycle
    <3>2. CASE squash(acked)
      BY <3>1, <3>2, SquashFlushes DEF RobStep, Abstract!Next
    <3>3. CASE ~squash(acked)
      BY <3>1, <3>3, CycleMoves DEF RobStep, Abstract!Next
    <3>. QED  BY <3>2, <3>3
  <2>2. CASE UNCHANGED robVars
    BY <2>2 DEF robVars, Queue
  <2>. QED  BY <2>1, <2>2
<1>. QED
  BY <1>1, <1>2, RobInvariant, PTL
     DEF RobSpec, ImplementsInOrderCommit, Abstract!Spec, Abstract!Init
=============================================================================
