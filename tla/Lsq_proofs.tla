----------------------------- MODULE Lsq_proofs -----------------------------
(***************************************************************************)
(* Proofs about the load/store queue between its drivers, for every number *)
(* of units, every size of the ring and of the window, and every memory.   *)
(***************************************************************************)
EXTENDS LsqSystem, Order_proofs

USE LsqAssumption

Access == [store : BOOLEAN, unit : FU_LS, addr : Addr, value : Word,
           finished : BOOLEAN]
LoadType == [addr : Addr, mem_size : {0}, valid : BOOLEAN, filled : BOOLEAN,
             sq_pos : 0 .. NO_SQ_POS]
StoreType == [addr : Addr, mem_size : {0}, filled : BOOLEAN, value : Word]
FuType == [valid : BOOLEAN, load : BOOLEAN, store : BOOLEAN, addr : Addr,
           value : Word, mem_size : {0}, sq_pos : 0 .. NO_SQ_POS]
OpType == [valid : BOOLEAN, load : BOOLEAN, store : BOOLEAN, idx : Nat,
           addr : Addr, value : Word]

Typed ==
  /\ lq_entries \in [FU_LS -> LoadType]
  /\ lq_retire_valid \in [FU_LS -> BOOLEAN]
  /\ lq_value \in [FU_LS -> Word]
  /\ lq_selection \in FU_LS
  /\ sq_entries \in [SqIdx -> StoreType]
  /\ sq_head \in SqIdx
  /\ sq_counter \in 0 .. STORE_QUEUE_SIZE - 1
  /\ sq_rob_valid \in BOOLEAN
  /\ mem \in [Addr -> Word]
  /\ program_mem \in [Addr -> Word]
  /\ window \in Seq(Access)
  /\ fu_lsq \in [FU_LS -> FuType]

\* Position k holds an instruction that works in unit i.
Works(k, i) ==
  k \in DOMAIN window /\ window[k].unit = i /\ ~window[k].finished

\* A unit works for one instruction, for the one it was given, and is quiet
\* without one.
UnitsWork ==
  /\ \A i \in FU_LS, j, k \in DOMAIN window :
       Works(j, i) /\ Works(k, i) => j = k
  /\ \A i \in FU_LS, k \in DOMAIN window :
       Works(k, i) => /\ fu_lsq[i].load = ~window[k].store
                      /\ fu_lsq[i].store = window[k].store
                      /\ fu_lsq[i].addr = window[k].addr
                      /\ fu_lsq[i].value = window[k].value
                      /\ window[k].store => fu_lsq[i].sq_pos = Slot(k)
  /\ \A i \in FU_LS :
       fu_lsq[i].valid => \E k \in DOMAIN window : Works(k, i)

\* The cache takes the store at the head, and only that.
TakesHead ==
  sq_rob_valid => window # <<>> /\ Oldest.store /\ Oldest.finished

\* The limit of a search counts the stores in front of the load.  It may be the
\* head only in the cycle after the last of them has left.
LoadWaits(k, i) ==
  LET e == lq_entries[i]
  IN  /\ e.valid
      /\ e.filled => e.addr = window[k].addr
      /\ e.sq_pos = NO_SQ_POS =>
           \A m \in Waiting : m < k => window[m].addr # window[k].addr
      /\ e.sq_pos # NO_SQ_POS =>
           e.sq_pos = Slot(k) /\ (Rank(k) = 0 => sq_rob_valid)
      /\ lq_retire_valid[i] => e.filled /\ lq_value[i] = window[k].value

LoadsWait ==
  /\ \A i \in FU_LS, k \in DOMAIN window :
       Works(k, i) /\ ~window[k].store => LoadWaits(k, i)
  /\ \A i \in FU_LS :
       lq_entries[i].valid /\ ~lq_retire_valid[i] =>
         \E k \in DOMAIN window : Works(k, i) /\ ~window[k].store

\* What the accesses in front of position k leave at address a.
Finds(k, a, v) ==
  \/ /\ \A m \in Waiting : m < k => window[m].addr # a
     /\ v = mem[a]
  \/ \E m \in Waiting :
       /\ m < k /\ window[m].addr = a /\ v = window[m].value
       /\ \A n \in Waiting : m < n /\ n < k => window[n].addr # a

ValuesInOrder ==
  /\ \A a \in Addr : Finds(Len(window) + 1, a, program_mem[a])
  /\ \A k \in DOMAIN window :
       ~window[k].store => Finds(k, window[k].addr, window[k].value)

\* The ring holds the waiting stores in program order (RingIsStoresInOrder,
\* without the slots that are free).
StoreWaits(k) ==
  /\ sq_entries[Slot(k)].filled =>
       /\ sq_entries[Slot(k)].addr = window[k].addr
       /\ sq_entries[Slot(k)].value = window[k].value
  /\ window[k].finished => sq_entries[Slot(k)].filled

RingInOrder ==
  /\ sq_counter = Cardinality(Waiting)
  /\ sq_tail = (sq_head + sq_counter) % STORE_QUEUE_SIZE
  /\ \A j \in SqIdx : sq_entries[j].filled => \E k \in Waiting : Slot(k) = j
  /\ \A k \in Waiting : StoreWaits(k)

LsqInd ==
  /\ Typed
  /\ UnitsWork
  /\ TakesHead
  /\ RingInOrder
  /\ LoadsWait
  /\ ValuesInOrder

-----------------------------------------------------------------------------
(* Positions and slots.                                                    *)

LEMMA WrapIs ==
  ASSUME NEW x \in Nat, x < 2 * STORE_QUEUE_SIZE
  PROVE  x % STORE_QUEUE_SIZE = IF x < STORE_QUEUE_SIZE THEN x
                                ELSE x - STORE_QUEUE_SIZE
OBVIOUS

LEMMA WaitingIs ==
  ASSUME Typed
  PROVE  /\ Len(window) \in Nat /\ DOMAIN window = 1 .. Len(window)
         /\ \A k \in DOMAIN window : window[k] \in Access
         /\ Waiting \in SUBSET DOMAIN window /\ Waiting \in SUBSET Int
         /\ IsFiniteSet(Waiting) /\ Cardinality(Waiting) \in Nat
<1>1. /\ Len(window) \in Nat /\ DOMAIN window = 1 .. Len(window)
      /\ \A k \in DOMAIN window : window[k] \in Access
  BY DEF Typed
<1>2. Waiting \in SUBSET DOMAIN window
  BY DEF Waiting
<1>3. IsFiniteSet(1 .. Len(window))
  BY <1>1, FS_Interval
<1>4. IsFiniteSet(Waiting)
  BY <1>1, <1>2, <1>3, FS_Subset
<1>. QED  BY <1>1, <1>2, <1>4, FS_CardinalityType

LEMMA RankIs ==
  ASSUME Typed, RingInOrder, NEW k \in Int
  PROVE  /\ Rank(k) = CountBelow(Waiting, k)
         /\ Rank(k) \in Nat /\ Rank(k) <= sq_counter
         /\ k \in Waiting => Rank(k) < sq_counter
<1>1. Rank(k) = CountBelow(Waiting, k)
  BY DEF Rank, CountBelow
<1>2. CountBelow(Waiting, k) \in Nat
      /\ CountBelow(Waiting, k) <= Cardinality(Waiting)
  BY WaitingIs, CountBelowType
<1>3. k \in Waiting => CountBelow(Waiting, k) < Cardinality(Waiting)
  BY WaitingIs, CountBelowElement
<1>. QED  BY <1>1, <1>2, <1>3 DEF RingInOrder

\* The slot of a count.
At(head, r) == IF head + r < STORE_QUEUE_SIZE THEN head + r
               ELSE head + r - STORE_QUEUE_SIZE

LEMMA AtIs ==
  ASSUME NEW h \in SqIdx, NEW r \in 0 .. STORE_QUEUE_SIZE - 1
  PROVE  /\ (h + r) % STORE_QUEUE_SIZE = At(h, r)
         /\ At(h, r) \in SqIdx
         /\ At(h, 0) = h
         /\ r # 0 => At(h, r) # h
         /\ r # 0 => At(SqSucc(h), r - 1) = At(h, r)
         /\ r + 1 < STORE_QUEUE_SIZE => At(h, r + 1) = SqSucc(At(h, r))
         /\ SqSucc(h) \in SqIdx
<1>1. (h + r) % STORE_QUEUE_SIZE = At(h, r)
  <2>1. /\ h \in Nat /\ r \in Nat
        /\ h + r \in Nat /\ h + r < 2 * STORE_QUEUE_SIZE
    BY DEF SqIdx
  <2>2. (h + r) % STORE_QUEUE_SIZE = IF h + r < STORE_QUEUE_SIZE THEN h + r
                                     ELSE h + r - STORE_QUEUE_SIZE
    BY <2>1, WrapIs
  <2>. QED  BY <2>2 DEF At
<1>. QED  BY <1>1 DEF At, SqIdx, SqSucc

LEMMA AtInjective ==
  ASSUME NEW h \in SqIdx, NEW r \in 0 .. STORE_QUEUE_SIZE - 1,
         NEW s \in 0 .. STORE_QUEUE_SIZE - 1, At(h, r) = At(h, s)
  PROVE  r = s
BY DEF At, SqIdx

LEMMA SlotIs ==
  ASSUME Typed, RingInOrder, NEW k \in Int
  PROVE  /\ Rank(k) \in 0 .. STORE_QUEUE_SIZE - 1
         /\ Slot(k) = At(sq_head, Rank(k)) /\ Slot(k) \in SqIdx
         /\ sq_tail = At(sq_head, sq_counter) /\ sq_tail \in SqIdx
<1>1. /\ sq_head \in SqIdx
      /\ sq_counter \in 0 .. STORE_QUEUE_SIZE - 1
  BY DEF Typed
<1>2. Rank(k) \in 0 .. STORE_QUEUE_SIZE - 1
  BY <1>1, RankIs
<1>3. Slot(k) = At(sq_head, Rank(k)) /\ Slot(k) \in SqIdx
  BY <1>1, <1>2, AtIs DEF Slot
<1>4. sq_tail = At(sq_head, sq_counter) /\ sq_tail \in SqIdx
  BY <1>1, AtIs DEF RingInOrder
<1>. QED  BY <1>2, <1>3, <1>4

\* Two waiting stores have two slots.
LEMMA SlotsDiffer ==
  ASSUME Typed, RingInOrder, NEW j \in Waiting, NEW k \in Waiting,
         Slot(j) = Slot(k)
  PROVE  j = k
<1>1. j \in Int /\ k \in Int /\ sq_head \in SqIdx
  BY WaitingIs DEF Typed
<1>2. Rank(j) = Rank(k)
  BY <1>1, SlotIs, AtInjective
<1>3. CountBelow(Waiting, j) = CountBelow(Waiting, k)
  BY <1>1, <1>2, RankIs
<1>. QED  BY <1>3, WaitingIs, CountBelowInjective

-----------------------------------------------------------------------------
(* The initial state, and the state after a squash.                        *)

\* The queue is empty, the units are quiet, the window is empty.
AllEmpty ==
  /\ lq_entries = LqReset.entries
  /\ lq_retire_valid = LqReset.retire_valid
  /\ lq_value = LqReset.value
  /\ lq_selection = LqReset.selection
  /\ sq_entries = [j \in SqIdx |-> EmptyStore]
  /\ sq_head = 0 /\ sq_tail = 0 /\ sq_counter = 0
  /\ sq_rob_valid = FALSE
  /\ mem \in [Addr -> Word]
  /\ program_mem = mem
  /\ window = <<>>
  /\ fu_lsq = [i \in FU_LS |-> Quiet]

LEMMA SelectionIs == LqReset.selection \in FU_LS
BY LeastNat DEF LqReset

LEMMA EmptyGood == AllEmpty => LsqInd
<1> SUFFICES ASSUME AllEmpty PROVE LsqInd
  OBVIOUS
<1>1. 0 \in SqIdx /\ 0 \in 0 .. NO_SQ_POS /\ 0 \in 0 .. STORE_QUEUE_SIZE - 1
  BY DEF SqIdx, NO_SQ_POS
<1>2. EmptyLoad \in LoadType /\ EmptyStore \in StoreType /\ Quiet \in FuType
  BY <1>1 DEF EmptyLoad, EmptyStore, Quiet, LoadType, StoreType, FuType
<1>3. /\ lq_entries = [i \in FU_LS |-> EmptyLoad]
      /\ lq_retire_valid = [i \in FU_LS |-> FALSE]
      /\ lq_value = [i \in FU_LS |-> 0]
  BY DEF AllEmpty, LqReset
<1>4. Typed
  <2>1. <<>> \in Seq(Access)
    OBVIOUS
  <2>2. lq_selection \in FU_LS
    BY SelectionIs DEF AllEmpty
  <2>. QED  BY <1>1, <1>2, <1>3, <2>1, <2>2 DEF AllEmpty, Typed
<1>5. Len(window) = 0 /\ DOMAIN window = {} /\ Waiting = {}
  BY DEF AllEmpty, Waiting
<1>6. UnitsWork
  BY <1>5 DEF UnitsWork, AllEmpty, Quiet
<1>7. TakesHead /\ LoadsWait
  BY <1>3, <1>5 DEF TakesHead, LoadsWait, AllEmpty, EmptyLoad
<1>8. RingInOrder
  <2>1. Cardinality(Waiting) = 0
    BY <1>5, FS_EmptySet
  <2>2. (0 + 0) % STORE_QUEUE_SIZE = 0
    OBVIOUS
  <2>. QED  BY <1>5, <2>1, <2>2 DEF RingInOrder, AllEmpty, EmptyStore
<1>9. ValuesInOrder
  BY <1>5 DEF ValuesInOrder, Finds, AllEmpty
<1>. QED  BY <1>4, <1>6, <1>7, <1>8, <1>9 DEF LsqInd

LEMMA InitGood == SystemInit => LsqInd
<1> SUFFICES ASSUME SystemInit PROVE LsqInd
  OBVIOUS
<1>1. mem \in [Addr -> Word]
  <2>1. ASSUME NEW a \in Addr PROVE (CHOOSE v \in Holds[a] : TRUE) \in Word
    <3>1. Holds[a] \in SUBSET Word /\ Holds[a] # {}
      BY LsqSystemAssumption
    <3>. QED  BY <3>1
  <2>. QED  BY <2>1 DEF SystemInit
<1>. QED  BY <1>1, EmptyGood DEF SystemInit, LsqInit, AllEmpty

-----------------------------------------------------------------------------
(* A cycle without a squash, for given inputs.                             *)

Inputs(granted, answers, ack, op) ==
  /\ granted \in SUBSET FU_LS /\ \A i \in granted : Offers(i)
  /\ answers \in BOOLEAN /\ (answers => lsq_load_dc.valid)
  /\ ack \in BOOLEAN /\ (ack => lsq_store_dc(sq_retire).valid)
  /\ op \in OpType
  /\ op.load = (op.valid /\ ~op.store)
  /\ op.store => op.valid
  /\ op.valid => /\ op.idx \in FU_LS
                 /\ op.idx \in Busy => op.idx \in granted
                 /\ op.store => ~storeq_full
                 /\ ~op.store => op.value = program_mem[op.addr]

Cycle(granted, answers, ack, op) ==
  /\ LqUpdate(op, fu_lsq, sq_retire, Reply(answers))
  /\ SqUpdate(op, fu_lsq, ack)
  /\ mem' = IF ack THEN [mem EXCEPT ![lsq_store_dc(sq_retire).addr] =
                           lsq_store_dc(sq_retire).value]
            ELSE mem
  /\ program_mem' = IF op.valid /\ op.store
                    THEN [program_mem EXCEPT ![op.addr] = op.value]
                    ELSE program_mem
  /\ window' = NextWindow(granted, op)
  /\ \E arrive \in SUBSET (Busy \cup (IF op.valid THEN {op.idx} ELSE {})) :
       fu_lsq' = NextFu(granted, op, arrive)

LEMMA FreshIs ==
  ASSUME Typed, NEW a \in Addr PROVE Fresh(a) \in Word
<1>1. Holds[a] \in SUBSET Word /\ Holds[a] # {} /\ program_mem[a] \in Word
  BY LsqSystemAssumption DEF Typed
<1>2. CASE Holds[a] = {program_mem[a]}
  BY <1>1, <1>2 DEF Fresh
<1>3. CASE Holds[a] # {program_mem[a]}
  <2>1. \E v \in Holds[a] : v # program_mem[a]
    BY <1>1, <1>3
  <2>. QED  BY <1>1, <1>3, <2>1 DEF Fresh
<1>. QED  BY <1>2, <1>3

LEMMA DispatchableIs ==
  ASSUME Typed, NEW free \in SUBSET FU_LS, NEW op \in Dispatchable(free)
  PROVE  /\ op \in OpType
         /\ op.load = (op.valid /\ ~op.store)
         /\ op.store => op.valid
         /\ op.valid => /\ op.idx \in free
                        /\ op.store => ~storeq_full
                        /\ ~op.store => op.value = program_mem[op.addr]
<1>1. CASE op = NoOp
  BY <1>1 DEF NoOp, OpType
<1>2. CASE op # NoOp
  <2> DEFINE i == CHOOSE x \in free : \A y \in free : x <= y
  <2>1. free # {}
    BY <1>2 DEF Dispatchable
  <2>2. \E x \in free : \A y \in free : x <= y
    BY <2>1, LeastNat
  <2>3. i \in free
    BY <2>2
  <2> HIDE DEF i
  <2>4. CASE \E a \in Addr :
               op = [valid |-> TRUE, load |-> TRUE, store |-> FALSE, idx |-> i,
                     addr |-> a, value |-> program_mem[a]]
    <3>1. PICK a \in Addr :
            op = [valid |-> TRUE, load |-> TRUE, store |-> FALSE, idx |-> i,
                  addr |-> a, value |-> program_mem[a]]
      BY <2>4
    <3>2. program_mem[a] \in Word /\ i \in Nat
      BY <2>3 DEF Typed
    <3>. QED  BY <2>3, <3>1, <3>2 DEF OpType
  <2>5. CASE /\ ~storeq_full
             /\ \E a \in Addr :
                  op = [valid |-> TRUE, load |-> FALSE, store |-> TRUE,
                        idx |-> i, addr |-> a, value |-> Fresh(a)]
    <3>1. PICK a \in Addr :
            op = [valid |-> TRUE, load |-> FALSE, store |-> TRUE, idx |-> i,
                  addr |-> a, value |-> Fresh(a)]
      BY <2>5
    <3>2. Fresh(a) \in Word /\ i \in Nat
      BY <2>3, FreshIs
    <3>. QED  BY <2>3, <2>5, <3>1, <3>2 DEF OpType
  <2>. QED  BY <1>2, <2>1, <2>4, <2>5 DEF Dispatchable, i
<1>. QED  BY <1>1, <1>2

LEMMA AdvanceIs ==
  ASSUME LsqInd, Advance
  PROVE  \E granted, answers, ack, op :
           Inputs(granted, answers, ack, op) /\ Cycle(granted, answers, ack, op)
<1>1. PICK granted \in {S \in SUBSET {i \in FU_LS : Offers(i)} :
                          Cardinality(S) <= BUSES},
           answers \in {FALSE, lsq_load_dc.valid},
           ack \in {FALSE, lsq_store_dc(sq_retire).valid} :
      \E op \in Dispatchable((FU_LS \ Busy) \cup granted) :
        Cycle(granted, answers, ack, op)
  BY DEF Advance, Cycle, LsqStep, LqStep, SqStep
<1>2. PICK op \in Dispatchable((FU_LS \ Busy) \cup granted) :
        Cycle(granted, answers, ack, op)
  BY <1>1
<1>3. granted \in SUBSET FU_LS /\ \A i \in granted : Offers(i)
  OBVIOUS
<1>4. /\ answers \in BOOLEAN /\ (answers => lsq_load_dc.valid)
      /\ ack \in BOOLEAN /\ (ack => lsq_store_dc(sq_retire).valid)
  <2>1. lsq_load_dc.valid \in BOOLEAN /\ lsq_store_dc(sq_retire).valid \in BOOLEAN
    <3>1. sq_entries[sq_head].filled \in BOOLEAN /\ sq_rob_valid \in BOOLEAN
      BY DEF LsqInd, Typed, StoreType
    <3>2. sq_retire \in BOOLEAN
      BY DEF sq_retire
    <3>. QED  BY <3>1, <3>2 DEF lsq_load_dc, lsq_store_dc, Asks
  <2>. QED  BY <2>1
<1>5. (FU_LS \ Busy) \cup granted \in SUBSET FU_LS
  BY <1>3
<1>6. /\ op \in OpType
      /\ op.load = (op.valid /\ ~op.store)
      /\ op.store => op.valid
      /\ op.valid => /\ op.idx \in (FU_LS \ Busy) \cup granted
                     /\ op.store => ~storeq_full
                     /\ ~op.store => op.value = program_mem[op.addr]
  BY <1>5, DispatchableIs DEF LsqInd
<1>7. Inputs(granted, answers, ack, op)
  BY <1>3, <1>4, <1>6 DEF Inputs
<1>. QED  BY <1>2, <1>7

-----------------------------------------------------------------------------
(* Where the instructions of the window lie after the cycle.               *)

\* How many positions the window moves up, and where a new one enters.
Gone == IF Leaves THEN 1 ELSE 0
NewAt == Len(window) + 1 - Gone

Finish(e, granted) == [e EXCEPT !.finished = @ \/ e.unit \in granted]

LEMMA GoneIs ==
  ASSUME Typed
  PROVE  /\ Gone \in 0 .. 1 /\ Gone <= Len(window)
         /\ Gone = 1 => window # <<>> /\ Oldest.finished
         /\ NewAt \in Nat \ {0} /\ NewAt = Len(window) + 1 - Gone
<1>1. Len(window) \in Nat /\ (window # <<>> => Len(window) >= 1)
  BY DEF Typed
<1>. QED  BY <1>1 DEF Gone, Leaves, NewAt

LEMMA WindowMoves ==
  ASSUME Typed, NEW granted, NEW op, op \in OpType,
         window' = NextWindow(granted, op)
  PROVE  /\ Len(window') = NewAt - 1 + (IF op.valid THEN 1 ELSE 0)
         /\ DOMAIN window' = 1 .. Len(window')
         /\ \A k \in DOMAIN window :
              k > Gone => window'[k - Gone] = Finish(window[k], granted)
         /\ op.valid => window'[NewAt] = Remember(op)
         /\ (op.valid => op.idx \in FU_LS) => window' \in Seq(Access)
<1> DEFINE done == [k \in DOMAIN window |-> Finish(window[k], granted)]
           kept == IF Leaves THEN Tail(done) ELSE done
<1>1. /\ Len(window) \in Nat /\ DOMAIN window = 1 .. Len(window)
      /\ \A k \in DOMAIN window : window[k] \in Access
  BY WaitingIs
<1>2. \A k \in DOMAIN window : Finish(window[k], granted) \in Access
  BY <1>1 DEF Finish, Access
<1>3. /\ done \in Seq(Access) /\ Len(done) = Len(window)
      /\ \A k \in 1 .. Len(window) : done[k] = Finish(window[k], granted)
  BY <1>1, <1>2
<1> HIDE DEF done
<1>4. /\ kept \in Seq(Access) /\ Len(kept) = NewAt - 1
      /\ \A k \in 1 .. Len(window) :
           k > Gone => kept[k - Gone] = Finish(window[k], granted)
  <2>1. CASE Leaves
    <3>1. Gone = 1 /\ window # <<>> /\ NewAt = Len(window)
      BY <1>1, <2>1 DEF Gone, NewAt, Leaves
    <3>2. Len(window) >= 1
      BY <1>1, <3>1 DEF Typed
    <3>3. done # <<>>
      BY <1>3, <3>2
    <3>4. /\ Tail(done) \in Seq(Access) /\ Len(Tail(done)) = Len(window) - 1
          /\ \A k \in 1 .. Len(window) - 1 : Tail(done)[k] = done[k + 1]
      BY <1>3, <3>2, <3>3
    <3>5. ASSUME NEW k \in 1 .. Len(window), k > 1
          PROVE  Tail(done)[k - 1] = done[k]
      <4>1. k - 1 \in 1 .. Len(window) - 1 /\ (k - 1) + 1 = k
        BY <1>1, <3>5
      <4>. QED  BY <3>4, <4>1
    <3>. QED  BY <1>1, <1>3, <2>1, <3>1, <3>4, <3>5
  <2>2. CASE ~Leaves
    BY <1>1, <1>3, <2>2 DEF Gone, NewAt
  <2>. QED  BY <2>1, <2>2
<1>5. window' = IF op.valid THEN Append(kept, Remember(op)) ELSE kept
  BY DEF NextWindow, done, Finish
<1> HIDE DEF kept
<1>6. NewAt \in Nat \ {0}
  BY GoneIs
<1>7. CASE op.valid
  <2>1. window' = Append(kept, Remember(op))
    BY <1>5, <1>7
  <2>2. /\ Len(window') = NewAt /\ DOMAIN window' = 1 .. Len(window')
        /\ window'[NewAt] = Remember(op)
        /\ \A k \in 1 .. NewAt - 1 : window'[k] = kept[k]
    BY <1>4, <1>6, <2>1
  <2>3. ASSUME NEW k \in 1 .. Len(window), k > Gone
        PROVE  k - Gone \in 1 .. NewAt - 1
    BY <1>1, <2>3, GoneIs
  <2>4. op.idx \in FU_LS => window' \in Seq(Access)
    <3>1. op.idx \in FU_LS => Remember(op) \in Access
      BY DEF Remember, Access, OpType
    <3>. QED  BY <1>4, <2>1, <3>1
  <2>. QED  BY <1>1, <1>4, <1>6, <1>7, <2>2, <2>3, <2>4
<1>8. CASE ~op.valid
  <2>1. window' = kept /\ DOMAIN kept = 1 .. Len(kept)
    BY <1>4, <1>5, <1>8
  <2>. QED  BY <1>1, <1>4, <1>6, <1>8, <2>1
<1>. QED  BY <1>7, <1>8

\* A position of the next window is that of an instruction that stays, or of
\* the new one.
LEMMA PositionsMove ==
  ASSUME Typed, NEW granted, NEW op, op \in OpType,
         window' = NextWindow(granted, op),
         NEW j \in DOMAIN window'
  PROVE  \/ \E k \in DOMAIN window :
              /\ k > Gone /\ j = k - Gone
              /\ window'[j] = Finish(window[k], granted)
         \/ op.valid /\ j = NewAt /\ window'[j] = Remember(op)
<1>1. /\ Len(window') = NewAt - 1 + (IF op.valid THEN 1 ELSE 0)
      /\ DOMAIN window' = 1 .. Len(window')
      /\ \A k \in DOMAIN window :
           k > Gone => window'[k - Gone] = Finish(window[k], granted)
      /\ op.valid => window'[NewAt] = Remember(op)
  BY WindowMoves
<1>2. /\ Len(window) \in Nat /\ DOMAIN window = 1 .. Len(window)
      /\ Gone \in 0 .. 1 /\ NewAt = Len(window) + 1 - Gone
  BY WaitingIs, GoneIs
<1>3. CASE j <= NewAt - 1
  <2> DEFINE k == j + Gone
  <2>1. k \in DOMAIN window /\ k > Gone /\ j = k - Gone
    BY <1>1, <1>2, <1>3
  <2>. QED  BY <1>1, <2>1
<1>4. CASE ~(j <= NewAt - 1)
  BY <1>1, <1>2, <1>4
<1>. QED  BY <1>3, <1>4

-----------------------------------------------------------------------------
(* Counts and slots after the cycle.                                       *)

Took(ack) == IF ack THEN 1 ELSE 0

\* What the cache takes is the oldest store, and it stays for a cycle.
LEMMA AckIs ==
  ASSUME LsqInd, NEW granted, NEW answers, NEW ack, NEW op,
         Inputs(granted, answers, ack, op), ack
  PROVE  /\ ~sq_rob_valid /\ Gone = 0
         /\ 1 \in Waiting /\ 1 \in DOMAIN window /\ window[1].finished
         /\ Rank(1) = 0 /\ Slot(1) = sq_head /\ sq_counter >= 1
         /\ sq_entries[sq_head].filled
         /\ lsq_store_dc(sq_retire).addr = window[1].addr
         /\ lsq_store_dc(sq_retire).value = window[1].value
<1>1. /\ sq_entries[sq_head].filled /\ sq_retire /\ ~sq_rob_valid
  BY DEF Inputs, lsq_store_dc
<1>2. window # <<>> /\ window[1].store /\ window[1].finished
  BY <1>1 DEF sq_retire, Oldest
<1>3. 1 \in DOMAIN window
  BY <1>2, WaitingIs DEF LsqInd, Typed
<1>4. 1 \in Waiting
  BY <1>1, <1>2, <1>3 DEF Waiting
<1>5. Rank(1) = 0
  <2>1. \A m \in Waiting : m \in Nat \ {0}
    BY WaitingIs DEF LsqInd
  <2>2. {m \in Waiting : m < 1} = {}
    BY <2>1
  <2>. QED  BY <2>2, FS_EmptySet DEF Rank
<1>6. Slot(1) = sq_head
  <2>1. Slot(1) = At(sq_head, 0)
    BY <1>5, SlotIs DEF LsqInd
  <2>2. sq_head \in SqIdx
    BY DEF LsqInd, Typed
  <2>. QED  BY <2>1, <2>2, AtIs
<1>7. sq_counter >= 1
  <2>1. Rank(1) < sq_counter
    BY <1>4, RankIs DEF LsqInd
  <2>2. sq_counter \in Nat
    BY DEF LsqInd, Typed
  <2>. QED  BY <1>5, <2>1, <2>2
<1>8. StoreWaits(1)
  BY <1>4 DEF LsqInd, RingInOrder
<1>9. Gone = 0
  BY <1>1, <1>2 DEF Gone, Leaves, Oldest
<1>. QED
  BY <1>1, <1>2, <1>3, <1>4, <1>5, <1>6, <1>7, <1>8, <1>9
     DEF StoreWaits, lsq_store_dc

LEMMA WaitingMoves ==
  ASSUME LsqInd, NEW granted, NEW answers, NEW ack, NEW op,
         Inputs(granted, answers, ack, op), Cycle(granted, answers, ack, op)
  PROVE  Waiting' = {k - Gone : k \in Waiting \ (IF ack THEN {1} ELSE {})}
                      \cup (IF op.store THEN {NewAt} ELSE {})
<1>1. /\ Typed /\ TakesHead /\ op \in OpType /\ window' = NextWindow(granted, op)
      /\ ack \in BOOLEAN /\ sq_rob_valid' = ack /\ (op.store => op.valid)
  BY DEF LsqInd, Inputs, Cycle, SqUpdate
<1>2. /\ Len(window) \in Nat /\ DOMAIN window = 1 .. Len(window)
      /\ Gone \in 0 .. 1 /\ NewAt = Len(window) + 1 - Gone
      /\ \A k \in DOMAIN window : window[k] \in Access
  BY <1>1, WaitingIs, GoneIs
<1>3. Waiting' = {j \in DOMAIN window' :
                    window'[j].store /\ ~(j = 1 /\ ack)}
  BY <1>1 DEF Waiting
<1>4. ASSUME NEW k \in DOMAIN window, k > Gone
      PROVE  /\ k - Gone \in DOMAIN window'
             /\ window'[k - Gone].store = window[k].store
  <2>1. Finish(window[k], granted).store = window[k].store
    BY <1>2 DEF Finish, Access
  <2>. QED  BY <1>1, <1>2, <1>4, <2>1, WindowMoves
<1>5. ASSUME NEW k \in Waiting, k \notin (IF ack THEN {1} ELSE {})
      PROVE  k - Gone \in Waiting'
  <2>1. k \in DOMAIN window /\ window[k].store /\ ~(k = 1 /\ sq_rob_valid)
    BY DEF Waiting
  <2>2. k > Gone
    BY <1>1, <1>2, <2>1 DEF Gone, Leaves, Oldest
  <2>3. ~(k - Gone = 1 /\ ack)
    <3>1. ack => Gone = 0
      BY AckIs
    <3>. QED  BY <1>5, <3>1, <1>2, <2>1
  <2>. QED  BY <1>3, <1>4, <2>1, <2>2, <2>3
<1>6. ASSUME op.store PROVE NewAt \in Waiting'
  <2>1. /\ NewAt \in DOMAIN window' /\ window'[NewAt] = Remember(op)
    <3>1. op.valid
      BY <1>1, <1>6
    <3>2. /\ Len(window') = NewAt - 1 + 1 /\ DOMAIN window' = 1 .. Len(window')
          /\ window'[NewAt] = Remember(op)
      BY <1>1, <3>1, WindowMoves
    <3>3. NewAt \in Nat \ {0}
      BY <1>1, GoneIs
    <3>. QED  BY <3>2, <3>3
  <2>2. ~(NewAt = 1 /\ ack)
    <3>1. ack => Gone = 0 /\ 1 \in DOMAIN window
      BY AckIs
    <3>. QED  BY <1>2, <3>1
  <2>. QED  BY <1>3, <1>6, <2>1, <2>2 DEF Remember
<1>7. ASSUME NEW j \in Waiting'
      PROVE  \/ op.store /\ j = NewAt
             \/ \E k \in Waiting \ (IF ack THEN {1} ELSE {}) : j = k - Gone
  <2>1. j \in DOMAIN window' /\ window'[j].store /\ ~(j = 1 /\ ack)
    BY <1>3
  <2>2. CASE op.valid /\ j = NewAt /\ window'[j] = Remember(op)
    BY <2>1, <2>2 DEF Remember
  <2>3. CASE \E k \in DOMAIN window :
               /\ k > Gone /\ j = k - Gone
               /\ window'[j] = Finish(window[k], granted)
    <3>1. PICK k \in DOMAIN window : k > Gone /\ j = k - Gone
      BY <2>3
    <3>2. window[k].store
      BY <1>4, <2>1, <3>1
    <3>3. ~(k = 1 /\ sq_rob_valid)
      <4>1. sq_rob_valid => Gone = 1
        BY <1>1 DEF TakesHead, Gone, Leaves
      <4>. QED  BY <3>1, <4>1
    <3>4. k \notin (IF ack THEN {1} ELSE {})
      <4>1. ack => Gone = 0
        BY AckIs
      <4>. QED  BY <2>1, <3>1, <4>1, <1>2
    <3>. QED  BY <3>1, <3>2, <3>3, <3>4 DEF Waiting
  <2>. QED  BY <1>1, <2>1, <2>2, <2>3, PositionsMove
<1>. QED  BY <1>5, <1>6, <1>7

\* The stores in front of position k, which moves to k - Gone: one less when
\* the cache has taken one.
LEMMA RanksMove ==
  ASSUME LsqInd, NEW granted, NEW answers, NEW ack, NEW op,
         Inputs(granted, answers, ack, op), Cycle(granted, answers, ack, op),
         NEW k \in 1 .. Len(window) + 1, k > Gone, k > Took(ack),
         NEW j \in Int, j = k - Gone
  PROVE  /\ Cardinality(Waiting')
              = sq_counter - Took(ack) + (IF op.store THEN 1 ELSE 0)
         /\ Rank(j)' = Rank(k) - Took(ack)
         /\ k = Len(window) + 1 => Rank(k) = sq_counter
<1> DEFINE T == Waiting \ (IF ack THEN {1} ELSE {})
           U == {m - Gone : m \in T}
<1>1. /\ Typed /\ RingInOrder /\ ack \in BOOLEAN /\ op.store \in BOOLEAN
      /\ sq_counter \in Nat /\ sq_counter = Cardinality(Waiting)
  BY DEF LsqInd, Inputs, RingInOrder, Typed, OpType
<1>2. /\ Len(window) \in Nat /\ DOMAIN window = 1 .. Len(window)
      /\ Gone \in 0 .. 1 /\ NewAt = Len(window) + 1 - Gone
      /\ Waiting \in SUBSET Int /\ IsFiniteSet(Waiting)
      /\ \A m \in Waiting : m \in 1 .. Len(window)
  BY <1>1, WaitingIs, GoneIs
<1>a. k \in Int
  BY <1>2
<1>3. /\ T \in SUBSET Int /\ IsFiniteSet(T)
      /\ Cardinality(T) = sq_counter - Took(ack)
      /\ CountBelow(T, k) = CountBelow(Waiting, k) - Took(ack)
  <2>1. CASE ack
    <3>1. 1 \in Waiting /\ T = Waiting \ {1} /\ 1 < k /\ Took(ack) = 1
      BY <2>1, AckIs DEF Took
    <3> HIDE DEF T
    <3>. QED  BY <1>1, <1>2, <1>a, <3>1, CountBelowRemove
  <2>2. CASE ~ack
    <3>1. T = Waiting /\ Took(ack) = 0
      BY <2>2 DEF Took
    <3>2. CountBelow(Waiting, k) \in Nat
      BY <1>2, <1>a, CountBelowType
    <3> HIDE DEF T
    <3>3. sq_counter - 0 = sq_counter
          /\ CountBelow(Waiting, k) - 0 = CountBelow(Waiting, k)
      BY <1>1, <3>2
    <3>4. /\ T \in SUBSET Int /\ IsFiniteSet(T) /\ Cardinality(T) = sq_counter
          /\ CountBelow(T, k) = CountBelow(Waiting, k)
      BY <1>1, <1>2, <3>1
    <3>. QED  BY <3>1, <3>3, <3>4
  <2>. QED  BY <1>1, <2>1, <2>2
<1>4. \A m \in T : m \in 1 .. Len(window)
  BY <1>2
<1> HIDE DEF T
<1>5. /\ U \in SUBSET Int /\ IsFiniteSet(U)
      /\ Cardinality(U) = Cardinality(T)
      /\ CountBelow(U, k - Gone) = CountBelow(T, k)
  <2>1. T \in SUBSET Int /\ IsFiniteSet(T) /\ Gone \in Int
    BY <1>2, <1>3
  <2>. QED  BY <1>a, <2>1, CountBelowShift
<1>6. \A u \in U : u < NewAt
  BY <1>2, <1>4
<1>7. Waiting' = U \cup (IF op.store THEN {NewAt} ELSE {})
  BY WaitingMoves DEF T
<1> HIDE DEF U
<1>8. /\ Cardinality(Waiting') = Cardinality(U) + (IF op.store THEN 1 ELSE 0)
      /\ CountBelow(Waiting', k - Gone) = CountBelow(U, k - Gone)
  <2>1. CASE op.store
    <3>1. k - Gone <= NewAt /\ k - Gone \in Int /\ NewAt \in Int
      BY <1>2
    <3>2. Waiting' = U \cup {NewAt}
      BY <1>7, <2>1
    <3>. QED  BY <1>5, <1>6, <2>1, <3>1, <3>2, CountBelowAdd
  <2>2. CASE ~op.store
    <3>1. Cardinality(U) \in Nat
      BY <1>5, FS_CardinalityType
    <3>. QED  BY <1>7, <2>2, <3>1
  <2>. QED  BY <1>1, <2>1, <2>2
<1>9. Rank(j)' = CountBelow(Waiting', j)
  BY DEF Rank, CountBelow
<1>10. Rank(k) = CountBelow(Waiting, k)
  BY DEF Rank, CountBelow
<1>11. k = Len(window) + 1 => Rank(k) = sq_counter
  <2>1. k = Len(window) + 1 => \A m \in Waiting : m < k
    BY <1>2
  <2>. QED  BY <1>1, <1>2, <1>10, <2>1, CountBelowAll
<1>. QED  BY <1>3, <1>5, <1>8, <1>9, <1>10, <1>11

\* The ring turns with the window: who stays keeps the slot.
LEMMA SlotsMove ==
  ASSUME LsqInd, NEW granted, NEW answers, NEW ack, NEW op,
         Inputs(granted, answers, ack, op), Cycle(granted, answers, ack, op),
         NEW k \in 1 .. Len(window) + 1, k > Gone, k > Took(ack),
         NEW j \in Int, j = k - Gone
  PROVE  /\ Slot(j)' = Slot(k)
         /\ Rank(k) >= Took(ack) /\ Rank(j)' = Rank(k) - Took(ack)
         /\ k = Len(window) + 1 => Slot(k) = sq_tail /\ Rank(k) = sq_counter
<1>1. /\ Typed /\ RingInOrder /\ ack \in BOOLEAN
      /\ sq_head \in SqIdx
      /\ sq_head' = IF ack THEN SqSucc(sq_head) ELSE sq_head
  BY DEF LsqInd, Inputs, Cycle, Typed, SqUpdate
<1>2. Len(window) \in Nat /\ k \in Int
  BY <1>1, WaitingIs
<1>3. /\ Rank(k) \in 0 .. STORE_QUEUE_SIZE - 1
      /\ Slot(k) = At(sq_head, Rank(k))
      /\ sq_tail = At(sq_head, sq_counter)
  BY <1>1, <1>2, SlotIs
<1>4. Rank(j)' = Rank(k) - Took(ack)
      /\ (k = Len(window) + 1 => Rank(k) = sq_counter)
  BY RanksMove
<1>5. Slot(j)' = (sq_head' + Rank(j)') % STORE_QUEUE_SIZE
  BY DEF Slot
<1>6. CASE ack
  <2>1. 1 \in Waiting /\ Rank(1) = 0 /\ Took(ack) = 1 /\ 1 < k
    BY <1>2, <1>6, AckIs DEF Took
  <2>2. Rank(1) < Rank(k)
    <3>1. /\ Waiting \in SUBSET Int /\ IsFiniteSet(Waiting)
          /\ Rank(1) = CountBelow(Waiting, 1)
          /\ Rank(k) = CountBelow(Waiting, k)
      BY <1>1, WaitingIs DEF Rank, CountBelow
    <3>. QED  BY <1>2, <2>1, <3>1, CountBelowGrows
  <2> DEFINE r == Rank(k)
  <2>3. r \in 0 .. STORE_QUEUE_SIZE - 1 /\ r # 0 /\ r >= 1
        /\ r - 1 \in 0 .. STORE_QUEUE_SIZE - 1
    BY <1>3, <2>1, <2>2
  <2> HIDE DEF r
  <2>4. SqSucc(sq_head) \in SqIdx /\ At(SqSucc(sq_head), r - 1) = At(sq_head, r)
    BY <1>1, <2>3, AtIs
  <2>5. (SqSucc(sq_head) + (r - 1)) % STORE_QUEUE_SIZE = At(SqSucc(sq_head), r - 1)
    BY <2>3, <2>4, AtIs
  <2>6. Slot(j)' = (SqSucc(sq_head) + (r - 1)) % STORE_QUEUE_SIZE
    BY <1>1, <1>4, <1>5, <1>6, <2>1 DEF r
  <2>7. Slot(j)' = Slot(k)
    BY <1>3, <2>4, <2>5, <2>6 DEF r
  <2>8. Rank(k) >= Took(ack)
    BY <2>1, <2>3 DEF r
  <2>. QED  BY <1>3, <1>4, <2>7, <2>8
<1>7. CASE ~ack
  <2>1. Took(ack) = 0 /\ Rank(k) \in Int /\ Rank(k) >= 0
    BY <1>3, <1>7 DEF Took
  <2>2. Rank(j)' = Rank(k)
    BY <1>4, <2>1
  <2>3. Slot(j)' = Slot(k)
    BY <1>1, <1>5, <1>7, <2>2 DEF Slot
  <2>. QED  BY <1>3, <1>4, <2>1, <2>3
<1>. QED  BY <1>1, <1>6, <1>7

LEMMA RingMoves ==
  ASSUME LsqInd, NEW granted, NEW answers, NEW ack, NEW op,
         Inputs(granted, answers, ack, op), Cycle(granted, answers, ack, op)
  PROVE  /\ sq_head' \in SqIdx
         /\ sq_counter' \in 0 .. STORE_QUEUE_SIZE - 1
         /\ sq_counter' = Cardinality(Waiting')
         /\ sq_tail' = (sq_head' + sq_counter') % STORE_QUEUE_SIZE
<1> DEFINE c == sq_counter
           h == sq_head
<1>1. /\ Typed /\ RingInOrder /\ ack \in BOOLEAN /\ op.store \in BOOLEAN
      /\ op.store => op.valid /\ c # STORE_QUEUE_SIZE - 1
      /\ h \in SqIdx /\ c \in 0 .. STORE_QUEUE_SIZE - 1
  BY DEF LsqInd, Inputs, OpType, Typed, storeq_full
<1>2. /\ sq_head' = IF ack THEN SqSucc(h) ELSE h
      /\ sq_tail' = IF op.store THEN SqSucc(sq_tail) ELSE sq_tail
      /\ sq_counter' = c + (IF op.store THEN 1 ELSE 0) - (IF ack THEN 1 ELSE 0)
  BY <1>1 DEF Cycle, SqUpdate, StoreDispatched
<1>3. sq_tail = At(h, c)
  BY <1>1, SlotIs
<1>4. /\ SqSucc(h) \in SqIdx
      /\ c # 0 => At(SqSucc(h), c - 1) = At(h, c)
      /\ c + 1 < STORE_QUEUE_SIZE => At(h, c + 1) = SqSucc(At(h, c))
  BY <1>1, AtIs
<1>5. ack => c >= 1
  BY AckIs
<1>6. sq_head' \in SqIdx /\ sq_counter' \in 0 .. STORE_QUEUE_SIZE - 1
  BY <1>1, <1>2, <1>4, <1>5
<1>7. sq_counter' = Cardinality(Waiting')
  <2> DEFINE k == Len(window) + 1
  <2>1. /\ k \in 1 .. Len(window) + 1 /\ k > Gone /\ k > Took(ack)
        /\ k - Gone \in Int
    <3>1. Len(window) \in Nat /\ Gone \in 0 .. 1 /\ Gone <= Len(window)
      BY <1>1, WaitingIs, GoneIs
    <3>2. ack => Len(window) >= 1
      <4>1. ack => 1 \in 1 .. Len(window)
        BY <1>1, AckIs, WaitingIs
      <4>. QED  BY <3>1, <4>1
    <3>. QED  BY <3>1, <3>2 DEF Took
  <2>2. Cardinality(Waiting') = c - Took(ack) + (IF op.store THEN 1 ELSE 0)
    BY <2>1, RanksMove
  <2>. QED  BY <1>1, <1>2, <2>2 DEF Took
<1>8. sq_tail' = At(sq_head', sq_counter')
  <2>1. CASE ack /\ op.store
    <3>1. c - 1 \in 0 .. STORE_QUEUE_SIZE - 1 /\ (c - 1) + 1 = c
          /\ c < STORE_QUEUE_SIZE
      BY <1>1, <1>5, <2>1
    <3>2. At(SqSucc(h), (c - 1) + 1) = SqSucc(At(SqSucc(h), c - 1))
      BY <1>4, <3>1, AtIs
    <3>3. sq_counter' = c
      BY <1>1, <1>2, <2>1
    <3>. QED  BY <1>1, <1>2, <1>3, <1>4, <1>5, <2>1, <3>1, <3>2, <3>3
  <2>2. CASE ack /\ ~op.store
    <3>1. sq_counter' = c - 1 /\ c # 0
      BY <1>1, <1>2, <1>5, <2>2
    <3>. QED  BY <1>2, <1>3, <1>4, <2>2, <3>1
  <2>3. CASE ~ack /\ op.store
    <3>1. sq_counter' = c + 1 /\ c + 1 < STORE_QUEUE_SIZE
      BY <1>1, <1>2, <2>3
    <3>. QED  BY <1>2, <1>3, <1>4, <2>3, <3>1
  <2>4. CASE ~ack /\ ~op.store
    <3>1. sq_counter' = c
      BY <1>1, <1>2, <2>4
    <3>. QED  BY <1>2, <1>3, <2>4, <3>1
  <2>. QED  BY <1>1, <2>1, <2>2, <2>3, <2>4
<1> HIDE DEF c, h
<1>9. (sq_head' + sq_counter') % STORE_QUEUE_SIZE = At(sq_head', sq_counter')
  BY <1>6, AtIs
<1>. QED  BY <1>6, <1>7, <1>8, <1>9

-----------------------------------------------------------------------------
(* The units after the cycle.                                              *)

\* What works after the cycle worked before it and was not granted a bus, or
\* is new.
LEMMA WorksMove ==
  ASSUME LsqInd, NEW granted, NEW answers, NEW ack, NEW op,
         Inputs(granted, answers, ack, op), Cycle(granted, answers, ack, op),
         NEW j, NEW i, Works(j, i)'
  PROVE  /\ j \in Int /\ i \in FU_LS
         /\ \/ \E k \in DOMAIN window :
                 /\ k > Gone /\ j = k - Gone /\ window'[j] = window[k]
                 /\ Works(k, i) /\ i \notin granted
            \/ op.valid /\ j = NewAt /\ i = op.idx /\ window'[j] = Remember(op)
<1>1. /\ Typed /\ op \in OpType /\ window' = NextWindow(granted, op)
      /\ op.valid => op.idx \in FU_LS
  BY DEF LsqInd, Inputs, Cycle
<1>2. j \in DOMAIN window' /\ window'[j].unit = i /\ ~window'[j].finished
  BY DEF Works
<1>3. /\ Len(window) \in Nat /\ DOMAIN window = 1 .. Len(window)
      /\ \A k \in DOMAIN window : window[k] \in Access
      /\ Gone \in 0 .. 1 /\ NewAt = Len(window) + 1 - Gone
  BY <1>1, WaitingIs, GoneIs
<1>4. CASE \E k \in DOMAIN window :
             k > Gone /\ j = k - Gone /\ window'[j] = Finish(window[k], granted)
  <2>1. PICK k \in DOMAIN window :
          k > Gone /\ j = k - Gone /\ window'[j] = Finish(window[k], granted)
    BY <1>4
  <2>2. window[k] \in Access /\ window[k].unit \in FU_LS
    BY <1>3 DEF Access
  <2>3. /\ window'[j].unit = window[k].unit
        /\ window'[j].finished
              = (window[k].finished \/ window[k].unit \in granted)
    BY <2>1, <2>2 DEF Finish, Access
  <2>4. ~window[k].finished /\ i = window[k].unit /\ i \notin granted
    BY <1>2, <2>3
  <2>5. Finish(window[k], granted) = window[k]
    BY <2>2, <2>4 DEF Finish, Access
  <2>. QED  BY <1>3, <2>1, <2>2, <2>4, <2>5 DEF Works
<1>5. CASE op.valid /\ j = NewAt /\ window'[j] = Remember(op)
  <2>1. i = op.idx
    BY <1>2, <1>5 DEF Remember
  <2>. QED  BY <1>1, <1>3, <1>5, <2>1
<1>. QED  BY <1>1, <1>2, <1>4, <1>5, PositionsMove

\* What is not granted a bus keeps its place and its unit; the new one works.
LEMMA WorksOn ==
  ASSUME LsqInd, NEW granted, NEW answers, NEW ack, NEW op,
         Inputs(granted, answers, ack, op), Cycle(granted, answers, ack, op),
         NEW i, NEW j \in Int
  PROVE  /\ \A k \in DOMAIN window :
              j = k - Gone /\ Works(k, i) /\ i \notin granted =>
                /\ k > Gone /\ Works(j, i)' /\ window'[j] = window[k]
                /\ ~(op.valid /\ op.idx = i)
         /\ op.valid /\ op.idx = i /\ j = NewAt =>
              Works(j, i)' /\ window'[j] = Remember(op)
<1>1. /\ Typed /\ op \in OpType /\ window' = NextWindow(granted, op)
      /\ op.valid => (op.idx \in Busy => op.idx \in granted)
  BY DEF LsqInd, Inputs, Cycle
<1>2. /\ Len(window) \in Nat /\ DOMAIN window = 1 .. Len(window)
      /\ \A k \in DOMAIN window : window[k] \in Access
      /\ Gone \in 0 .. 1 /\ NewAt \in Nat \ {0}
      /\ NewAt = Len(window) + 1 - Gone
  BY <1>1, WaitingIs, GoneIs
<1>3. ASSUME NEW k \in DOMAIN window, j = k - Gone, Works(k, i), i \notin granted
      PROVE  /\ k > Gone /\ Works(j, i)' /\ window'[j] = window[k]
             /\ ~(op.valid /\ op.idx = i)
  <2>1. k > Gone
    <3>1. ~(k = 1 /\ Leaves)
      BY <1>3 DEF Works, Leaves, Oldest
    <3>. QED  BY <1>2, <3>1 DEF Gone
  <2>2. /\ j \in DOMAIN window'
        /\ window'[j] = Finish(window[k], granted)
    BY <1>1, <1>2, <1>3, <2>1, WindowMoves
  <2>3. window[k] \in Access /\ window[k].unit = i /\ ~window[k].finished
    BY <1>2, <1>3 DEF Works
  <2>4. Finish(window[k], granted) = window[k]
    BY <1>3, <2>3 DEF Finish, Access
  <2>5. Works(j, i)'
    BY <2>2, <2>3, <2>4 DEF Works
  <2>6. i \in Busy
    BY <1>3, <2>3 DEF Busy, Access
  <2>. QED  BY <1>1, <1>3, <2>1, <2>2, <2>4, <2>5, <2>6
<1>4. ASSUME op.valid, op.idx = i, j = NewAt
      PROVE  Works(j, i)' /\ window'[j] = Remember(op)
  <2>1. /\ Len(window') = NewAt - 1 + 1 /\ DOMAIN window' = 1 .. Len(window')
        /\ window'[j] = Remember(op)
    BY <1>1, <1>4, WindowMoves
  <2>2. j \in DOMAIN window'
    BY <1>2, <1>4, <2>1
  <2>3. window'[j].unit = i /\ ~window'[j].finished
    BY <1>4, <2>1 DEF Remember
  <2>. QED  BY <2>1, <2>2, <2>3 DEF Works
<1>. QED  BY <1>3, <1>4

LEMMA FuMoves ==
  ASSUME LsqInd, NEW granted, NEW answers, NEW ack, NEW op,
         Inputs(granted, answers, ack, op), Cycle(granted, answers, ack, op)
  PROVE  /\ fu_lsq' \in [FU_LS -> FuType]
         /\ \A i \in FU_LS :
              /\ op.valid /\ op.idx = i =>
                   /\ fu_lsq'[i].load = op.load /\ fu_lsq'[i].store = op.store
                   /\ fu_lsq'[i].addr = op.addr /\ fu_lsq'[i].value = op.value
                   /\ op.store => fu_lsq'[i].sq_pos = sq_tail
              /\ ~(op.valid /\ op.idx = i) /\ i \in granted =>
                   ~fu_lsq'[i].valid
              /\ ~(op.valid /\ op.idx = i) /\ i \notin granted =>
                   /\ fu_lsq'[i].load = fu_lsq[i].load
                   /\ fu_lsq'[i].store = fu_lsq[i].store
                   /\ fu_lsq'[i].addr = fu_lsq[i].addr
                   /\ fu_lsq'[i].value = fu_lsq[i].value
                   /\ fu_lsq'[i].sq_pos = fu_lsq[i].sq_pos
                   /\ fu_lsq'[i].valid => fu_lsq[i].valid \/ i \in Busy
<1>1. PICK arrive \in SUBSET (Busy \cup (IF op.valid THEN {op.idx} ELSE {})) :
        fu_lsq' = NextFu(granted, op, arrive)
  BY DEF Cycle
<1>2. /\ Typed /\ RingInOrder /\ op \in OpType
      /\ fu_lsq \in [FU_LS -> FuType]
  BY DEF LsqInd, Inputs, Typed
<1>3. sq_tail \in 0 .. NO_SQ_POS /\ storeq_tail \in 0 .. NO_SQ_POS
  <2>1. sq_tail \in SqIdx
    BY <1>2, SlotIs, 0 \in Int
  <2>. QED  BY <2>1 DEF SqIdx, NO_SQ_POS, storeq_tail
<1>4. ASSUME NEW i \in FU_LS
      PROVE  /\ fu_lsq'[i] \in FuType
             /\ op.valid /\ op.idx = i =>
                  /\ fu_lsq'[i].load = op.load /\ fu_lsq'[i].store = op.store
                  /\ fu_lsq'[i].addr = op.addr /\ fu_lsq'[i].value = op.value
                  /\ op.store => fu_lsq'[i].sq_pos = sq_tail
             /\ ~(op.valid /\ op.idx = i) /\ i \in granted =>
                  ~fu_lsq'[i].valid
             /\ ~(op.valid /\ op.idx = i) /\ i \notin granted =>
                  /\ fu_lsq'[i].load = fu_lsq[i].load
                  /\ fu_lsq'[i].store = fu_lsq[i].store
                  /\ fu_lsq'[i].addr = fu_lsq[i].addr
                  /\ fu_lsq'[i].value = fu_lsq[i].value
                  /\ fu_lsq'[i].sq_pos = fu_lsq[i].sq_pos
                  /\ fu_lsq'[i].valid => fu_lsq[i].valid \/ i \in Busy
  <2>1. fu_lsq[i] \in FuType
    BY <1>2
  <2>2. CASE op.valid /\ op.idx = i
    <3>1. fu_lsq'[i] =
            [valid |-> i \in arrive, load |-> op.load, store |-> op.store,
             addr |-> op.addr, value |-> op.value, mem_size |-> 0,
             sq_pos |-> IF op.store THEN sq_tail ELSE storeq_tail]
      BY <1>1, <2>2 DEF NextFu
    <3>. QED  BY <1>2, <1>3, <2>2, <3>1 DEF OpType, FuType
  <2>3. CASE ~(op.valid /\ op.idx = i) /\ i \in granted
    <3>1. fu_lsq'[i] = Quiet
      BY <1>1, <2>3 DEF NextFu
    <3>2. 0 \in 0 .. NO_SQ_POS
      BY DEF NO_SQ_POS
    <3>3. Quiet \in FuType /\ ~Quiet.valid
      BY <3>2 DEF Quiet, FuType
    <3>. QED  BY <2>3, <3>1, <3>3
  <2>4. CASE ~(op.valid /\ op.idx = i) /\ i \notin granted
    <3>1. fu_lsq'[i] = [fu_lsq[i] EXCEPT !.valid = @ \/ i \in arrive]
      BY <1>1, <2>4 DEF NextFu
    <3>2. i \in arrive => i \in Busy
      BY <1>1, <2>4
    <3>. QED  BY <2>1, <2>4, <3>1, <3>2 DEF FuType
  <2>. QED  BY <2>2, <2>3, <2>4
<1>5. fu_lsq' \in [FU_LS -> FuType]
  <2>1. fu_lsq' = [i \in FU_LS |-> fu_lsq'[i]]
    BY <1>1 DEF NextFu
  <2>. QED  BY <1>4, <2>1
<1>. QED  BY <1>4, <1>5

LEMMA UnitsMove ==
  ASSUME LsqInd, NEW granted, NEW answers, NEW ack, NEW op,
         Inputs(granted, answers, ack, op), Cycle(granted, answers, ack, op)
  PROVE  UnitsWork'
<1>1. /\ Typed /\ UnitsWork /\ RingInOrder /\ op \in OpType
      /\ op.valid => op.idx \in FU_LS
      /\ op.load = (op.valid /\ ~op.store) /\ (op.store => op.valid)
  BY DEF LsqInd, Inputs
<1>2. /\ Len(window) \in Nat /\ DOMAIN window = 1 .. Len(window)
      /\ \A k \in DOMAIN window : window[k] \in Access
      /\ Gone \in 0 .. 1 /\ NewAt \in Nat \ {0}
      /\ NewAt = Len(window) + 1 - Gone
  BY <1>1, WaitingIs, GoneIs
<1>3. ASSUME NEW i \in FU_LS, NEW j \in DOMAIN window', NEW k \in DOMAIN window',
             Works(j, i)', Works(k, i)'
      PROVE  j = k
  <2>1. ASSUME NEW m \in DOMAIN window, Works(m, i), i \notin granted
        PROVE  ~(op.valid /\ op.idx = i)
    <3>1. m - Gone \in Int
      BY <1>2
    <3>. QED  BY <2>1, <3>1, WorksOn
  <2>2. \/ \E m \in DOMAIN window : j = m - Gone /\ Works(m, i) /\ i \notin granted
        \/ op.valid /\ op.idx = i /\ j = NewAt
    BY <1>3, WorksMove
  <2>3. \/ \E m \in DOMAIN window : k = m - Gone /\ Works(m, i) /\ i \notin granted
        \/ op.valid /\ op.idx = i /\ k = NewAt
    BY <1>3, WorksMove
  <2>. QED  BY <1>1, <2>1, <2>2, <2>3 DEF UnitsWork
<1>4. ASSUME NEW i \in FU_LS, NEW j \in DOMAIN window', Works(j, i)'
      PROVE  /\ fu_lsq'[i].load = ~window'[j].store
             /\ fu_lsq'[i].store = window'[j].store
             /\ fu_lsq'[i].addr = window'[j].addr
             /\ fu_lsq'[i].value = window'[j].value
             /\ window'[j].store => fu_lsq'[i].sq_pos = Slot(j)'
  <2>0. j \in Int
    BY <1>4, WorksMove
  <2>1. CASE \E k \in DOMAIN window :
               /\ k > Gone /\ j = k - Gone /\ window'[j] = window[k]
               /\ Works(k, i) /\ i \notin granted
    <3>1. PICK k \in DOMAIN window :
            /\ k > Gone /\ j = k - Gone /\ window'[j] = window[k]
            /\ Works(k, i) /\ i \notin granted
      BY <2>1
    <3>2. ~(op.valid /\ op.idx = i)
      BY <2>0, <3>1, WorksOn
    <3>3. /\ fu_lsq[i].load = ~window[k].store
          /\ fu_lsq[i].store = window[k].store
          /\ fu_lsq[i].addr = window[k].addr
          /\ fu_lsq[i].value = window[k].value
          /\ window[k].store => fu_lsq[i].sq_pos = Slot(k)
      BY <1>1, <3>1 DEF UnitsWork
    <3>4. ASSUME window[k].store PROVE Slot(j)' = Slot(k)
      <4>1. ack => window[1].finished
        BY AckIs
      <4>2. k # 1 \/ ~ack
        BY <3>1, <4>1 DEF Works
      <4>3. k \in 1 .. Len(window) + 1 /\ k > Took(ack)
        BY <1>2, <4>2 DEF Took
      <4>. QED  BY <2>0, <3>1, <4>3, SlotsMove
    <3>. QED  BY <3>1, <3>2, <3>3, <3>4, FuMoves
  <2>2. CASE op.valid /\ j = NewAt /\ i = op.idx /\ window'[j] = Remember(op)
    <3>1. Slot(j)' = sq_tail
      <4> DEFINE k == Len(window) + 1
      <4>1. ack => 1 \in 1 .. Len(window)
        BY <1>2, AckIs
      <4>2. /\ k \in 1 .. Len(window) + 1 /\ k > Gone /\ k > Took(ack)
            /\ j = k - Gone
        BY <1>1, <1>2, <2>2, <4>1, GoneIs DEF Took
      <4>. QED  BY <2>0, <4>2, SlotsMove
    <3>a. op.valid /\ op.idx = i
      BY <2>2
    <3>2. /\ fu_lsq'[i].load = op.load /\ fu_lsq'[i].store = op.store
          /\ fu_lsq'[i].addr = op.addr /\ fu_lsq'[i].value = op.value
          /\ op.store => fu_lsq'[i].sq_pos = sq_tail
      BY <3>a, FuMoves
    <3>3. /\ window'[j].store = op.store /\ window'[j].addr = op.addr
          /\ window'[j].value = op.value
      BY <2>2 DEF Remember
    <3>4. op.load = ~op.store
      BY <1>1, <2>2 DEF OpType
    <3>. QED  BY <3>1, <3>2, <3>3, <3>4
  <2>. QED  BY <1>4, <2>1, <2>2, WorksMove
<1>5. ASSUME NEW i \in FU_LS, fu_lsq'[i].valid
      PROVE  \E j \in DOMAIN window' : Works(j, i)'
  <2>1. CASE op.valid /\ op.idx = i
    <3>1. \E j \in Int : j = NewAt /\ Works(j, i)'
      BY <1>2, <2>1, WorksOn
    <3>. QED  BY <3>1 DEF Works
  <2>2. CASE ~(op.valid /\ op.idx = i)
    <3>1. i \notin granted /\ (fu_lsq[i].valid \/ i \in Busy)
      BY <1>5, <2>2, FuMoves
    <3>2. PICK k \in DOMAIN window : Works(k, i)
      BY <1>1, <3>1 DEF UnitsWork, Busy, Works
    <3>3. \E j \in Int : j = k - Gone
      BY <1>2
    <3>4. \E j \in Int : Works(j, i)'
      BY <3>1, <3>2, <3>3, WorksOn
    <3>. QED  BY <3>4 DEF Works
  <2>. QED  BY <2>1, <2>2
<1>. QED  BY <1>3, <1>4, <1>5 DEF UnitsWork

LEMMA HeadMoves ==
  ASSUME LsqInd, NEW granted, NEW answers, NEW ack, NEW op,
         Inputs(granted, answers, ack, op), Cycle(granted, answers, ack, op)
  PROVE  TakesHead'
<1> SUFFICES ASSUME ack
             PROVE  window' # <<>> /\ window'[1].store /\ window'[1].finished
  BY DEF Cycle, SqUpdate, TakesHead, Oldest
<1>1. /\ Gone = 0 /\ 1 \in Waiting /\ 1 \in DOMAIN window
      /\ window[1].finished /\ window[1].store
  BY AckIs DEF Waiting
<1>2. /\ Typed /\ op \in OpType /\ window' = NextWindow(granted, op)
  BY DEF LsqInd, Inputs, Cycle
<1>3. window'[1 - Gone] = Finish(window[1], granted) /\ window[1] \in Access
  BY <1>1, <1>2, WindowMoves, WaitingIs
<1>4. window'[1].store /\ window'[1].finished
  BY <1>1, <1>3 DEF Finish, Access
<1>5. window' # <<>>
  <2>1. Len(window) \in Nat /\ 1 \in 1 .. Len(window) /\ NewAt = Len(window) + 1
    BY <1>1, <1>2, WaitingIs, GoneIs
  <2>2. Len(window') = NewAt - 1 + (IF op.valid THEN 1 ELSE 0)
    BY <1>2, WindowMoves
  <2>3. Len(window') # 0
    BY <2>1, <2>2
  <2>. QED  BY <2>3
<1>. QED  BY <1>4, <1>5

-----------------------------------------------------------------------------
(* The search of a load: over the stores older than it, the nearest first. *)

LEMMA BeforeIs ==
  ASSUME sq_head \in SqIdx, NEW r \in 1 .. STORE_QUEUE_SIZE - 1
  PROVE  /\ \A j \in Before(At(sq_head, r)) :
              j \in SqIdx /\ \E s \in 0 .. r - 1 : j = At(sq_head, s)
         /\ \A s \in 0 .. r - 1 : At(sq_head, s) \in Before(At(sq_head, r))
<1> DEFINE h == sq_head
           p == At(h, r)
<1>1. /\ h \in Int /\ 0 <= h /\ h < STORE_QUEUE_SIZE
      /\ r \in Int /\ 1 <= r /\ r < STORE_QUEUE_SIZE
  BY DEF SqIdx
<1>2. p = IF h + r < STORE_QUEUE_SIZE THEN h + r ELSE h + r - STORE_QUEUE_SIZE
  BY DEF At
<1>3. ASSUME NEW j \in Before(p)
      PROVE  j \in SqIdx /\ \E s \in 0 .. r - 1 : j = At(h, s)
  <2>1. j \in SqIdx
    BY DEF Before
  <2>2. j \in Int /\ 0 <= j /\ j < STORE_QUEUE_SIZE
    BY <2>1 DEF SqIdx
  <2>3. IF p > h THEN h <= j /\ j < p ELSE j < p \/ h <= j
    BY DEF Before
  <2> HIDE DEF p, h
  <2>4. CASE h <= j
    <3>1. j - h \in 0 .. r - 1
      BY <1>1, <1>2, <2>2, <2>3, <2>4
    <3>2. j = At(h, j - h)
      BY <1>1, <2>2 DEF At
    <3>. QED  BY <2>1, <3>1, <3>2
  <2>5. CASE ~(h <= j)
    <3>1. j - h + STORE_QUEUE_SIZE \in 0 .. r - 1
      BY <1>1, <1>2, <2>2, <2>3, <2>5
    <3>2. j = At(h, j - h + STORE_QUEUE_SIZE)
      BY <1>1, <2>2, <2>5 DEF At
    <3>. QED  BY <2>1, <3>1, <3>2
  <2>. QED  BY <2>4, <2>5
<1>4. ASSUME NEW s \in 0 .. r - 1 PROVE At(h, s) \in Before(p)
  <2> DEFINE j == At(h, s)
  <2>1. j = IF h + s < STORE_QUEUE_SIZE THEN h + s ELSE h + s - STORE_QUEUE_SIZE
    BY DEF At
  <2>2. j \in Int /\ 0 <= j /\ j < STORE_QUEUE_SIZE /\ s \in Int /\ 0 <= s /\ s < r
    BY <1>1, <2>1
  <2> HIDE DEF p, j, h
  <2>3. j \in SqIdx
    BY <2>2 DEF SqIdx
  <2>4. IF p > h THEN h <= j /\ j < p ELSE j < p \/ h <= j
    BY <1>1, <1>2, <2>1, <2>2
  <2>5. j \in Before(p)
    BY <2>3, <2>4 DEF Before, h
  <2>. QED  BY <2>5 DEF j
<1>. QED  BY <1>3, <1>4

LEMMA DistanceIs ==
  ASSUME NEW h \in SqIdx, NEW r \in 1 .. STORE_QUEUE_SIZE - 1,
         NEW s \in 0 .. r - 1
  PROVE  Distance(At(h, r), At(h, s)) = r - s
BY DEF Distance, At, SqIdx

\* The ring and the counts of two stores, or of a store and a load.
LEMMA SearchedAre ==
  ASSUME Typed, RingInOrder, NEW k \in Int, Rank(k) >= 1
  PROVE  /\ \A j \in Before(Slot(k)) :
              \E m \in Waiting : m < k /\ j = Slot(m)
         /\ \A m \in Waiting :
              m < k => /\ Slot(m) \in Before(Slot(k))
                       /\ Distance(Slot(k), Slot(m)) = Rank(k) - Rank(m)
                       /\ Rank(m) \in Nat /\ Rank(m) < Rank(k)
<1> DEFINE r == Rank(k)
<1>1. /\ sq_head \in SqIdx /\ r \in 1 .. STORE_QUEUE_SIZE - 1
      /\ Slot(k) = At(sq_head, r)
  <2>1. r \in 0 .. STORE_QUEUE_SIZE - 1 /\ Slot(k) = At(sq_head, r)
    BY SlotIs
  <2> HIDE DEF r
  <2>2. r >= 1
    BY DEF r
  <2>. QED  BY <2>1, <2>2 DEF Typed
<1>2. /\ Waiting \in SUBSET Int /\ IsFiniteSet(Waiting)
  BY WaitingIs
<1>3. r = CountBelow(Waiting, k)
  BY DEF Rank, CountBelow
<1>4. ASSUME NEW m \in Int
      PROVE  Slot(m) = At(sq_head, Rank(m)) /\ Rank(m) \in Nat
             /\ Rank(m) = CountBelow(Waiting, m)
  <2>1. Slot(m) = At(sq_head, Rank(m)) /\ Rank(m) \in Nat
    BY SlotIs, RankIs
  <2>. QED  BY <2>1 DEF Rank, CountBelow
<1>5. ASSUME NEW j \in Before(Slot(k))
      PROVE  \E m \in Waiting : m < k /\ j = Slot(m)
  <2> HIDE DEF r
  <2>1. PICK s \in 0 .. r - 1 : j = At(sq_head, s)
    BY <1>1, BeforeIs
  <2>2. PICK m \in Waiting : m < k /\ CountBelow(Waiting, m) = s
    BY <1>2, <1>3, CountBelowOnto
  <2>3. m \in Int
    BY <1>2
  <2>. QED  BY <1>4, <2>1, <2>2, <2>3
<1>6. ASSUME NEW m \in Waiting, m < k
      PROVE  /\ Slot(m) \in Before(Slot(k))
             /\ Distance(Slot(k), Slot(m)) = Rank(k) - Rank(m)
             /\ Rank(m) \in Nat /\ Rank(m) < Rank(k)
  <2>1. m \in Int
    BY <1>2
  <2>2. CountBelow(Waiting, m) < CountBelow(Waiting, k)
    BY <1>2, <1>6, CountBelowGrows
  <2>3. Rank(m) < r /\ Rank(m) \in Nat /\ Slot(m) = At(sq_head, Rank(m))
    BY <1>3, <1>4, <2>1, <2>2
  <2> DEFINE s == Rank(m)
  <2>4. s \in 0 .. r - 1
    <3> HIDE DEF r, s
    <3>1. s \in Nat /\ s < r
      BY <2>3 DEF s
    <3>. QED  BY <1>1, <3>1
  <2> HIDE DEF s, r
  <2>5. At(sq_head, s) \in Before(At(sq_head, r))
        /\ Distance(At(sq_head, r), At(sq_head, s)) = r - s
    BY <1>1, <2>4, BeforeIs, DistanceIs
  <2>. QED  BY <1>1, <2>3, <2>5 DEF s, r
<1>. QED  BY <1>5, <1>6

\* What is known of the entry of a load at position k for address a when the
\* retirement of the cycle has reached it.
EntryGood(e, k, a) ==
  /\ e \in LoadType /\ e.valid
  /\ e.filled => e.addr = a
  /\ e.sq_pos = NO_SQ_POS =>
       \A m \in Waiting : m < k => window[m].addr # a
  /\ e.sq_pos # NO_SQ_POS => e.sq_pos = Slot(k) /\ Rank(k) >= 1

\* A filled store ends the search exactly if it has the address; one that has
\* no address yet always does.
LEMMA StopsAre ==
  ASSUME Typed, RingInOrder, NEW k \in Int, NEW a, NEW e, EntryGood(e, k, a),
         e.filled, NEW m \in Waiting
  PROVE  /\ window[m].addr = a => Stops(e, Slot(m))
         /\ Stops(e, Slot(m)) /\ sq_entries[Slot(m)].filled =>
              /\ window[m].addr = a
              /\ sq_entries[Slot(m)].value = window[m].value
<1>1. e.addr = a /\ e.mem_size = 0
  BY DEF EntryGood, LoadType
<1>2. m \in Int
  BY WaitingIs
<1>3. sq_entries[Slot(m)] \in StoreType
  BY <1>2, SlotIs DEF Typed
<1>4. sq_entries[Slot(m)].mem_size = 0
  BY <1>3 DEF StoreType
<1>5. StoreWaits(m)
  BY DEF RingInOrder
<1>. QED  BY <1>1, <1>4, <1>5 DEF StoreWaits, Stops, SameWord

\* The search ends at the nearest older store that can be the load's.
LEMMA StopIs ==
  ASSUME Typed, RingInOrder, NEW k \in Int, NEW a, NEW e, EntryGood(e, k, a),
         e.filled, e.sq_pos # NO_SQ_POS, NEW j \in Stop(e)
  PROVE  \E m \in Waiting :
           /\ m < k /\ j = Slot(m) /\ Stops(e, j)
           /\ \A n \in Waiting : m < n /\ n < k => window[n].addr # a
<1>1. /\ e.sq_pos = Slot(k) /\ Rank(k) >= 1 /\ Rank(k) \in Nat
  BY RankIs DEF EntryGood
<1>2. /\ j \in Before(Slot(k)) /\ Stops(e, j)
      /\ \A i \in Before(Slot(k)) :
           Stops(e, i) => Distance(Slot(k), j) <= Distance(Slot(k), i)
  BY <1>1 DEF Stop
<1>3. PICK m \in Waiting : m < k /\ j = Slot(m)
  BY <1>1, <1>2, SearchedAre
<1>4. /\ Waiting \in SUBSET Int /\ IsFiniteSet(Waiting)
  BY WaitingIs
<1>5. ASSUME NEW n \in Waiting, m < n, n < k, window[n].addr = a PROVE FALSE
  <2>1. Stops(e, Slot(n))
    BY <1>5, StopsAre
  <2>2. /\ Slot(n) \in Before(Slot(k)) /\ Rank(n) \in Nat /\ Rank(m) \in Nat
        /\ Distance(Slot(k), Slot(n)) = Rank(k) - Rank(n)
        /\ Distance(Slot(k), Slot(m)) = Rank(k) - Rank(m)
    BY <1>1, <1>3, <1>5, SearchedAre
  <2>3. Rank(n) <= Rank(m)
    BY <1>1, <1>2, <1>3, <2>1, <2>2
  <2>4. Rank(m) < Rank(n)
    <3>1. CountBelow(Waiting, m) < CountBelow(Waiting, n)
      <4>1. n \in Int
        BY <1>4
      <4>. QED  BY <1>4, <1>5, <4>1, CountBelowGrows
    <3>. QED  BY <3>1 DEF Rank, CountBelow
  <2>. QED  BY <2>2, <2>3, <2>4
<1>. QED  BY <1>2, <1>3, <1>5

\* A search that ends nowhere has found that no older store has the address.
LEMMA NoStopIs ==
  ASSUME Typed, RingInOrder, NEW k \in Int, NEW a, NEW e, EntryGood(e, k, a),
         e.filled, e.sq_pos # NO_SQ_POS, Stop(e) = {},
         NEW m \in Waiting, m < k
  PROVE  window[m].addr # a
<1> SUFFICES ASSUME window[m].addr = a PROVE FALSE
  OBVIOUS
<1>1. /\ e.sq_pos = Slot(k) /\ Rank(k) >= 1 /\ Rank(k) \in Nat
  BY RankIs DEF EntryGood
<1> DEFINE B == {j \in Before(Slot(k)) : Stops(e, j)}
           D == {Distance(Slot(k), j) : j \in B}
<1>2. Slot(m) \in B
  BY <1>1, StopsAre, SearchedAre
<1>3. D \in SUBSET Nat /\ D # {}
  <2>1. ASSUME NEW j \in B PROVE Distance(Slot(k), j) \in Nat
    <3>1. PICK n \in Waiting : n < k /\ j = Slot(n)
      BY <1>1, SearchedAre
    <3>2. Distance(Slot(k), j) = Rank(k) - Rank(n) /\ Rank(n) \in Nat
          /\ Rank(n) < Rank(k)
      BY <1>1, <3>1, SearchedAre
    <3>. QED  BY <1>1, <3>2
  <2> HIDE DEF B
  <2>. QED  BY <1>2, <2>1
<1>4. PICK d \in D : \A x \in D : d =< x
  <2> HIDE DEF D
  <2>. QED  BY <1>3, LeastNat
<1>5. PICK j \in B : d = Distance(Slot(k), j)
  OBVIOUS
<1>6. j \in Stop(e)
  BY <1>1, <1>4, <1>5 DEF Stop
<1>. QED  BY <1>6

\* It ends in one place.
LEMMA StopOnce ==
  ASSUME Typed, RingInOrder, NEW k \in Int, NEW a, NEW e, EntryGood(e, k, a),
         e.filled, e.sq_pos # NO_SQ_POS, NEW i \in Stop(e), NEW j \in Stop(e)
  PROVE  i = j
<1>1. /\ e.sq_pos = Slot(k) /\ Rank(k) >= 1 /\ Rank(k) \in Nat
  BY RankIs DEF EntryGood
<1>2. /\ i \in Before(Slot(k)) /\ j \in Before(Slot(k))
      /\ Distance(Slot(k), i) <= Distance(Slot(k), j)
      /\ Distance(Slot(k), j) <= Distance(Slot(k), i)
  BY <1>1 DEF Stop
<1>3. PICK m \in Waiting : m < k /\ i = Slot(m)
  BY <1>1, <1>2, SearchedAre
<1>4. PICK n \in Waiting : n < k /\ j = Slot(n)
  BY <1>1, <1>2, SearchedAre
<1>5. /\ Distance(Slot(k), i) = Rank(k) - Rank(m) /\ Rank(m) \in Nat
      /\ Distance(Slot(k), j) = Rank(k) - Rank(n) /\ Rank(n) \in Nat
  BY <1>1, <1>3, <1>4, SearchedAre
<1>6. Rank(m) = Rank(n)
  BY <1>1, <1>2, <1>5
<1>. QED  BY <1>3, <1>4, <1>6 DEF Slot

-----------------------------------------------------------------------------
(* The load queue after the cycle.                                         *)

EntryOf(op, i) == LoadEntry(op, fu_lsq, sq_retire, i)
KeepsValue(op, i) == StillDone(op, fu_lsq, i)
StopOf(op, i) ==
  IF Searches(EntryOf(op, i), KeepsValue(op, i)) THEN Stop(EntryOf(op, i))
  ELSE {}
Forwards(op, i) == \E j \in StopOf(op, i) : sq_entries[j].filled
Clears(op, i) ==
  Searches(EntryOf(op, i), KeepsValue(op, i)) /\ StopOf(op, i) = {}
Answered(answers, i) == answers /\ i = lq_selection

LEMMA LoadsMove ==
  ASSUME NEW granted, NEW answers, NEW ack, NEW op,
         Inputs(granted, answers, ack, op), Cycle(granted, answers, ack, op)
  PROVE  /\ lq_entries' =
              [i \in FU_LS |->
                 IF Clears(op, i) THEN [EntryOf(op, i) EXCEPT !.sq_pos = NO_SQ_POS]
                 ELSE EntryOf(op, i)]
         /\ lq_retire_valid' =
              [i \in FU_LS |-> KeepsValue(op, i) \/ Forwards(op, i)
                                 \/ Answered(answers, i)]
         /\ lq_value' =
              [i \in FU_LS |->
                 IF Answered(answers, i) THEN mem[lsq_load_dc.addr]
                 ELSE IF Forwards(op, i)
                 THEN sq_entries[CHOOSE j \in StopOf(op, i) : TRUE].value
                 ELSE lq_value[i]]
         /\ \E asking \in SUBSET FU_LS :
              lq_selection' =
                IF lq_selection \in asking \/ asking = {} THEN lq_selection
                ELSE CHOOSE i \in asking : \A j \in asking : j <= i
<1> DEFINE e == [i \in FU_LS |-> LoadEntry(op, fu_lsq, sq_retire, i)]
           d == [i \in FU_LS |-> StillDone(op, fu_lsq, i)]
           st == [i \in FU_LS |-> IF Searches(e[i], d[i]) THEN Stop(e[i]) ELSE {}]
           f(i) == \E j \in st[i] : sq_entries[j].filled
           c(i) == Searches(e[i], d[i]) /\ st[i] = {}
           entry == [i \in FU_LS |->
                       IF c(i) THEN [e[i] EXCEPT !.sq_pos = NO_SQ_POS] ELSE e[i]]
           done == [i \in FU_LS |->
                      d[i] \/ f(i) \/ (Reply(answers).valid /\ i = lq_selection)]
           asking == {i \in FU_LS : Asks(entry[i], done[i])}
<1>1. /\ lq_entries' = entry /\ lq_retire_valid' = done
      /\ lq_value' =
           [i \in FU_LS |->
              IF Reply(answers).valid /\ i = lq_selection THEN Reply(answers).value
              ELSE IF f(i) THEN sq_entries[CHOOSE j \in st[i] : TRUE].value
              ELSE lq_value[i]]
      /\ lq_selection' =
           IF lq_selection \in asking \/ asking = {} THEN lq_selection
           ELSE CHOOSE i \in asking : \A j \in asking : j <= i
  BY DEF Cycle, LqUpdate
<1>2. asking \in SUBSET FU_LS
  OBVIOUS
<1> HIDE DEF asking
<1>3. ASSUME NEW i \in FU_LS
      PROVE  /\ e[i] = EntryOf(op, i) /\ d[i] = KeepsValue(op, i)
             /\ st[i] = StopOf(op, i)
  <2>1. e[i] = EntryOf(op, i) /\ d[i] = KeepsValue(op, i)
    BY DEF EntryOf, KeepsValue
  <2> HIDE DEF e, d
  <2>. QED  BY <2>1 DEF StopOf
<1> HIDE DEF e, d, st
<1>4. Reply(answers).valid = answers
      /\ Reply(answers).value = mem[lsq_load_dc.addr]
  BY DEF Reply
<1>5. lq_entries' = [i \in FU_LS |->
                       IF Clears(op, i)
                       THEN [EntryOf(op, i) EXCEPT !.sq_pos = NO_SQ_POS]
                       ELSE EntryOf(op, i)]
  <2>1. lq_entries' = entry
    BY <1>1
  <2>. QED  BY <2>1, <1>3 DEF Clears
<1>6. lq_retire_valid' = [i \in FU_LS |-> KeepsValue(op, i) \/ Forwards(op, i)
                                             \/ Answered(answers, i)]
  <2>1. lq_retire_valid' = done
    BY <1>1
  <2>. QED  BY <2>1, <1>3, <1>4 DEF Forwards, Answered
<1>7. lq_value' =
         [i \in FU_LS |->
            IF Answered(answers, i) THEN mem[lsq_load_dc.addr]
            ELSE IF Forwards(op, i)
            THEN sq_entries[CHOOSE j \in StopOf(op, i) : TRUE].value
            ELSE lq_value[i]]
  <2>1. lq_value' =
          [i \in FU_LS |->
             IF answers /\ i = lq_selection THEN mem[lsq_load_dc.addr]
             ELSE IF f(i) THEN sq_entries[CHOOSE j \in st[i] : TRUE].value
             ELSE lq_value[i]]
    BY <1>1, <1>4
  <2>2. ASSUME NEW i \in FU_LS
        PROVE  (CHOOSE j \in st[i] : TRUE) = (CHOOSE j \in StopOf(op, i) : TRUE)
    BY <1>3
  <2>. QED  BY <2>1, <2>2, <1>3 DEF Forwards, Answered
<1>. QED  BY <1>1, <1>2, <1>5, <1>6, <1>7

LEMMA EntryTyped ==
  ASSUME LsqInd, NEW op, NEW i \in FU_LS
  PROVE  EntryOf(op, i) \in LoadType
<1>1. /\ Typed /\ RingInOrder
      /\ lq_entries[i] \in LoadType /\ fu_lsq[i] \in FuType
  BY DEF LsqInd, Typed
<1>2. storeq_tail \in 0 .. NO_SQ_POS /\ NO_SQ_POS \in 0 .. NO_SQ_POS
  <2>1. sq_tail \in SqIdx
    BY <1>1, SlotIs, 0 \in Int
  <2>. QED  BY <2>1 DEF SqIdx, NO_SQ_POS, storeq_tail
<1> DEFINE e == IF LoadDispatched(op, i)
                THEN [addr |-> 0, mem_size |-> 0, valid |-> TRUE,
                      filled |-> FALSE, sq_pos |-> storeq_tail]
                ELSE IF LoadComputed(fu_lsq, i)
                THEN [addr |-> fu_lsq[i].addr, mem_size |-> fu_lsq[i].mem_size,
                      valid |-> TRUE, filled |-> TRUE,
                      sq_pos |-> lq_entries[i].sq_pos]
                ELSE lq_entries[i]
<1>3. e \in LoadType
  BY <1>1, <1>2 DEF LoadType, FuType
<1>4. EntryOf(op, i) = IF sq_retire /\ e.sq_pos = sq_head
                       THEN [e EXCEPT !.sq_pos = NO_SQ_POS] ELSE e
  BY DEF EntryOf, LoadEntry
<1> HIDE DEF e
<1>. QED  BY <1>2, <1>3, <1>4 DEF LoadType

\* With no store counted in front of it a position has no waiting store in
\* front of it.
LEMMA NoneBefore ==
  ASSUME Typed, RingInOrder, NEW k \in Int, Rank(k) = 0, NEW m \in Waiting
  PROVE  ~(m < k)
<1>1. /\ Waiting \in SUBSET Int /\ IsFiniteSet(Waiting)
  BY WaitingIs
<1> SUFFICES ASSUME m < k PROVE FALSE
  OBVIOUS
<1>2. CountBelow(Waiting, m) < CountBelow(Waiting, k)
  BY <1>1, CountBelowGrows
<1>3. m \in Int /\ CountBelow(Waiting, k) = 0
  BY <1>1 DEF Rank, CountBelow
<1>4. CountBelow(Waiting, m) \in Nat
  BY <1>1, <1>3, CountBelowType
<1>. QED  BY <1>2, <1>3, <1>4

\* A limit in the ring is a count of one or more, or it is the head.
LEMMA LimitIs ==
  ASSUME Typed, RingInOrder, NEW k \in Int
  PROVE  Slot(k) = sq_head <=> Rank(k) = 0
<1>1. /\ sq_head \in SqIdx /\ Rank(k) \in 0 .. STORE_QUEUE_SIZE - 1
      /\ Slot(k) = At(sq_head, Rank(k))
  BY SlotIs DEF Typed
<1>. QED  BY <1>1, AtIs

\* The entry of a load that works, as the cycle finds it.
LEMMA OldEntryIs ==
  ASSUME LsqInd, NEW op, NEW i \in FU_LS, NEW k \in DOMAIN window,
         Works(k, i), ~window[k].store, ~LoadDispatched(op, i)
  PROVE  /\ EntryGood(EntryOf(op, i), k, window[k].addr)
         /\ lq_retire_valid[i] =>
              EntryOf(op, i).filled /\ KeepsValue(op, i)
         /\ lq_entries[i].filled => EntryOf(op, i).filled
         /\ lq_entries[i].sq_pos = NO_SQ_POS => EntryOf(op, i).sq_pos = NO_SQ_POS
<1>1. /\ Typed /\ RingInOrder /\ TakesHead /\ UnitsWork /\ LoadsWait
      /\ k \in Int /\ lq_entries[i] \in LoadType
      /\ sq_head \in SqIdx
  BY WaitingIs DEF LsqInd, Typed
<1>2. LoadWaits(k, i)
  BY <1>1 DEF LoadsWait
<1>3. fu_lsq[i].addr = window[k].addr
  BY <1>1 DEF UnitsWork
<1> DEFINE e == IF LoadComputed(fu_lsq, i)
                THEN [addr |-> fu_lsq[i].addr, mem_size |-> fu_lsq[i].mem_size,
                      valid |-> TRUE, filled |-> TRUE,
                      sq_pos |-> lq_entries[i].sq_pos]
                ELSE lq_entries[i]
<1>4. EntryOf(op, i) = IF sq_retire /\ e.sq_pos = sq_head
                       THEN [e EXCEPT !.sq_pos = NO_SQ_POS] ELSE e
  BY DEF EntryOf, LoadEntry
<1>5. /\ e.valid /\ e.sq_pos = lq_entries[i].sq_pos
      /\ e.filled => e.addr = window[k].addr
      /\ lq_entries[i].filled => e.filled
  BY <1>2, <1>3 DEF LoadWaits
<1>6. /\ DOMAIN e = {"addr", "mem_size", "valid", "filled", "sq_pos"}
  BY <1>1 DEF LoadType
<1> HIDE DEF e
<1>7. /\ EntryOf(op, i).valid = e.valid /\ EntryOf(op, i).filled = e.filled
      /\ EntryOf(op, i).addr = e.addr
      /\ EntryOf(op, i).sq_pos = IF sq_retire /\ e.sq_pos = sq_head
                                 THEN NO_SQ_POS ELSE e.sq_pos
  BY <1>4, <1>6
<1>8. sq_head # NO_SQ_POS
  BY <1>1 DEF SqIdx, NO_SQ_POS
<1>9. ASSUME EntryOf(op, i).sq_pos = NO_SQ_POS, NEW m \in Waiting, m < k
      PROVE  window[m].addr # window[k].addr
  <2>1. CASE lq_entries[i].sq_pos = NO_SQ_POS
    BY <1>2, <1>9, <2>1 DEF LoadWaits
  <2>2. CASE lq_entries[i].sq_pos # NO_SQ_POS
    <3>1. lq_entries[i].sq_pos = sq_head /\ lq_entries[i].sq_pos = Slot(k)
      BY <1>2, <1>5, <1>7, <1>9, <2>2 DEF LoadWaits
    <3>2. Rank(k) = 0
      BY <1>1, <3>1, LimitIs
    <3>. QED  BY <1>1, <1>9, <3>2, NoneBefore
  <2>. QED  BY <2>1, <2>2
<1>10. ASSUME EntryOf(op, i).sq_pos # NO_SQ_POS
       PROVE  EntryOf(op, i).sq_pos = Slot(k) /\ Rank(k) >= 1
  <2>1. /\ EntryOf(op, i).sq_pos = lq_entries[i].sq_pos
        /\ lq_entries[i].sq_pos = Slot(k) /\ (Rank(k) = 0 => sq_rob_valid)
        /\ ~(sq_retire /\ lq_entries[i].sq_pos = sq_head)
    BY <1>2, <1>5, <1>7, <1>10 DEF LoadWaits
  <2>2. Rank(k) # 0
    <3>1. sq_rob_valid => sq_retire
      BY <1>1 DEF TakesHead, sq_retire
    <3>. QED  BY <1>1, <2>1, <3>1, LimitIs
  <2>3. Rank(k) \in Nat
    BY <1>1, RankIs
  <2>. QED  BY <2>1, <2>2, <2>3
<1>11. EntryGood(EntryOf(op, i), k, window[k].addr)
  BY <1>5, <1>7, <1>9, <1>10, EntryTyped DEF EntryGood
<1>12. lq_retire_valid[i] => EntryOf(op, i).filled /\ KeepsValue(op, i)
  BY <1>2, <1>5, <1>7 DEF LoadWaits, KeepsValue, StillDone, LoadComputed
<1>13. lq_entries[i].sq_pos = NO_SQ_POS => EntryOf(op, i).sq_pos = NO_SQ_POS
  BY <1>5, <1>7
<1>. QED  BY <1>5, <1>7, <1>11, <1>12, <1>13

\* The entry of a load that is dispatched.
LEMMA NewEntryIs ==
  ASSUME LsqInd, NEW op, NEW i \in FU_LS, LoadDispatched(op, i), NEW a
  PROVE  /\ EntryGood(EntryOf(op, i), Len(window) + 1, a)
         /\ ~EntryOf(op, i).filled
<1> DEFINE k == Len(window) + 1
           e == [addr |-> 0, mem_size |-> 0, valid |-> TRUE, filled |-> FALSE,
                 sq_pos |-> storeq_tail]
<1>1. /\ Typed /\ RingInOrder /\ k \in Int /\ sq_head \in SqIdx
      /\ sq_counter \in 0 .. STORE_QUEUE_SIZE - 1
  BY WaitingIs DEF LsqInd, Typed
<1>2. Rank(k) = sq_counter
  <2>1. /\ Waiting \in SUBSET Int /\ IsFiniteSet(Waiting)
        /\ \A m \in Waiting : m \in 1 .. Len(window)
    BY <1>1, WaitingIs
  <2>2. \A m \in Waiting : m < k
    BY <1>1, <2>1
  <2>3. CountBelow(Waiting, k) = Cardinality(Waiting)
    BY <1>1, <2>1, <2>2, CountBelowAll
  <2>. QED  BY <1>1, <2>3 DEF Rank, CountBelow, RingInOrder
<1>3. Slot(k) = sq_tail /\ (Slot(k) = sq_head <=> Rank(k) = 0)
      /\ Slot(k) \in SqIdx
  BY <1>1, <1>2, LimitIs, SlotIs
<1>4. EntryOf(op, i) = IF sq_retire /\ e.sq_pos = sq_head
                       THEN [e EXCEPT !.sq_pos = NO_SQ_POS] ELSE e
  BY DEF EntryOf, LoadEntry
<1>5. sq_head # NO_SQ_POS /\ Slot(k) # NO_SQ_POS
  BY <1>1, <1>3 DEF SqIdx, NO_SQ_POS
<1> HIDE DEF k
<1>6. e.sq_pos = IF Rank(k) = 0 THEN NO_SQ_POS ELSE Slot(k)
  BY <1>2, <1>3 DEF storeq_tail
<1>7. EntryOf(op, i) = e
  BY <1>3, <1>4, <1>5, <1>6
<1>8. /\ e.valid /\ ~e.filled
  OBVIOUS
<1> HIDE DEF e
<1>9. ASSUME e.sq_pos = NO_SQ_POS, NEW m \in Waiting PROVE ~(m < k)
  <2>1. Rank(k) = 0
    BY <1>5, <1>6, <1>9
  <2>. QED  BY <1>1, <2>1, NoneBefore
<1>10. e.sq_pos # NO_SQ_POS => e.sq_pos = Slot(k) /\ Rank(k) >= 1
  <2>1. Rank(k) \in Nat
    BY <1>1, RankIs
  <2>. QED  BY <1>6, <2>1
<1>11. e \in LoadType
  BY <1>7, EntryTyped
<1>12. EntryGood(e, k, a)
  BY <1>8, <1>9, <1>10, <1>11 DEF EntryGood
<1>. QED  BY <1>7, <1>8, <1>12 DEF k

-----------------------------------------------------------------------------
(* What a load finds after the cycle.                                      *)

\* The stores in front of an instruction stay in front of it, but for the one
\* the cache takes.
LEMMA BelowMoves ==
  ASSUME LsqInd, NEW granted, NEW answers, NEW ack, NEW op,
         Inputs(granted, answers, ack, op), Cycle(granted, answers, ack, op),
         NEW k \in 1 .. Len(window) + 1, NEW j \in Int, j = k - Gone
  PROVE  /\ \A n \in Waiting' :
              n < j => \E m \in Waiting :
                         /\ m < k /\ n = m - Gone /\ ~(ack /\ m = 1)
                         /\ window'[n].addr = window[m].addr
                         /\ window'[n].value = window[m].value
         /\ \A m \in Waiting :
              m < k /\ ~(ack /\ m = 1) =>
                \E n \in Waiting' :
                  /\ n < j /\ n = m - Gone
                  /\ window'[n].addr = window[m].addr
                  /\ window'[n].value = window[m].value
<1>1. /\ Typed /\ op \in OpType /\ window' = NextWindow(granted, op)
  BY DEF LsqInd, Inputs, Cycle
<1>2. /\ Len(window) \in Nat /\ DOMAIN window = 1 .. Len(window)
      /\ \A m \in DOMAIN window : window[m] \in Access
      /\ Gone \in 0 .. 1 /\ NewAt = Len(window) + 1 - Gone
      /\ k \in Int
  BY <1>1, WaitingIs, GoneIs
<1>3. ASSUME NEW m \in Waiting
      PROVE  /\ m \in Int /\ m - Gone \in Int
             /\ window'[m - Gone].addr = window[m].addr
             /\ window'[m - Gone].value = window[m].value
  <2>1. m \in DOMAIN window /\ window[m].store /\ ~(m = 1 /\ sq_rob_valid)
    BY DEF Waiting
  <2>2. m > Gone
    BY <1>2, <2>1 DEF Gone, Leaves, Oldest
  <2>3. window'[m - Gone] = Finish(window[m], granted)
    BY <1>1, <2>1, <2>2, WindowMoves
  <2>4. window[m] \in Access
    BY <1>2, <2>1
  <2>5. /\ Finish(window[m], granted).addr = window[m].addr
        /\ Finish(window[m], granted).value = window[m].value
    BY <2>4 DEF Finish, Access
  <2>. QED  BY <1>2, <2>1, <2>3, <2>5
<1>4. Waiting' = {m - Gone : m \in Waiting \ (IF ack THEN {1} ELSE {})}
                    \cup (IF op.store THEN {NewAt} ELSE {})
  BY WaitingMoves
<1>5. ASSUME NEW n \in Waiting', n < j
      PROVE  \E m \in Waiting :
               /\ m < k /\ n = m - Gone /\ ~(ack /\ m = 1)
               /\ window'[n].addr = window[m].addr
               /\ window'[n].value = window[m].value
  <2>1. n # NewAt
    BY <1>2, <1>5
  <2>2. PICK m \in Waiting \ (IF ack THEN {1} ELSE {}) : n = m - Gone
    BY <1>4, <2>1
  <2>3. m \in Waiting /\ m \in Int /\ m < k /\ ~(ack /\ m = 1)
    BY <1>2, <1>3, <1>5, <2>2
  <2>. QED  BY <1>3, <2>2, <2>3
<1>6. ASSUME NEW m \in Waiting, m < k, ~(ack /\ m = 1)
      PROVE  \E n \in Waiting' :
               /\ n < j /\ n = m - Gone
               /\ window'[n].addr = window[m].addr
               /\ window'[n].value = window[m].value
  <2>1. m - Gone \in Waiting'
    BY <1>4, <1>6
  <2>2. m - Gone < j
    BY <1>2, <1>3, <1>6
  <2>. QED  BY <1>3, <2>1, <2>2
<1>. QED  BY <1>5, <1>6

\* What program order finds at an address survives the cycle.
LEMMA FindsMove ==
  ASSUME LsqInd, NEW granted, NEW answers, NEW ack, NEW op,
         Inputs(granted, answers, ack, op), Cycle(granted, answers, ack, op),
         NEW k \in 1 .. Len(window) + 1, k > Took(ack),
         NEW j \in Int, j = k - Gone,
         NEW a \in Addr, NEW v, Finds(k, a, v)
  PROVE  Finds(j, a, v)'
<1>1. /\ mem \in [Addr -> Word] /\ ack \in BOOLEAN
      /\ mem' = IF ack THEN [mem EXCEPT ![lsq_store_dc(sq_retire).addr] =
                               lsq_store_dc(sq_retire).value]
                ELSE mem
      /\ Len(window) \in Nat /\ k \in Int /\ Gone \in 0 .. 1
      /\ Waiting \in SUBSET Int
  BY WaitingIs, GoneIs DEF Inputs, Cycle, LsqInd, Typed
<1>2. ack => /\ 1 \in Waiting /\ 1 < k
             /\ mem' = [mem EXCEPT ![window[1].addr] = window[1].value]
  BY <1>1, AckIs DEF Took
<1>3. CASE /\ \A m \in Waiting : m < k => window[m].addr # a
           /\ v = mem[a]
  <2>1. \A n \in Waiting' : n < j => window'[n].addr # a
    BY <1>3, BelowMoves
  <2>2. mem'[a] = mem[a]
    BY <1>1, <1>2, <1>3
  <2>. QED  BY <1>3, <2>1, <2>2 DEF Finds
<1>4. CASE \E m \in Waiting :
             /\ m < k /\ window[m].addr = a /\ v = window[m].value
             /\ \A n \in Waiting : m < n /\ n < k => window[n].addr # a
  <2>1. PICK m \in Waiting :
          /\ m < k /\ window[m].addr = a /\ v = window[m].value
          /\ \A n \in Waiting : m < n /\ n < k => window[n].addr # a
    BY <1>4
  <2>2. m \in Int
    BY <1>1
  <2>3. CASE ack /\ m = 1
    <3>1. mem'[a] = v
      BY <1>1, <1>2, <2>1, <2>3
    <3>2. ASSUME NEW n \in Waiting', n < j PROVE window'[n].addr # a
      <4>1. PICK x \in Waiting :
              x < k /\ ~(ack /\ x = 1) /\ window'[n].addr = window[x].addr
        BY <3>2, BelowMoves
      <4>2. x \in DOMAIN window /\ x \in Int
        BY <1>1 DEF Waiting
      <4>3. x > 1
        <5>1. DOMAIN window = 1 .. Len(window)
          BY WaitingIs DEF LsqInd
        <5>. QED  BY <1>1, <2>3, <4>1, <4>2, <5>1
      <4>. QED  BY <2>1, <2>3, <4>1, <4>3
    <3>. QED  BY <3>1, <3>2 DEF Finds
  <2>4. CASE ~(ack /\ m = 1)
    <3>1. PICK n \in Waiting' :
            /\ n < j /\ n = m - Gone /\ window'[n].addr = window[m].addr
            /\ window'[n].value = window[m].value
      BY <2>1, <2>4, BelowMoves
    <3>2. ASSUME NEW y \in Waiting', n < y, y < j PROVE window'[y].addr # a
      <4>1. PICK x \in Waiting :
              /\ x < k /\ y = x - Gone /\ window'[y].addr = window[x].addr
        BY <3>2, BelowMoves
      <4>2. x \in Int /\ m < x
        BY <1>1, <2>2, <3>1, <3>2, <4>1
      <4>. QED  BY <2>1, <4>1, <4>2
    <3>. QED  BY <2>1, <3>1, <3>2 DEF Finds
  <2>. QED  BY <2>3, <2>4
<1>. QED  BY <1>3, <1>4 DEF Finds

LEMMA ValuesMove ==
  ASSUME LsqInd, NEW granted, NEW answers, NEW ack, NEW op,
         Inputs(granted, answers, ack, op), Cycle(granted, answers, ack, op)
  PROVE  ValuesInOrder'
<1>1. /\ Typed /\ ValuesInOrder /\ op \in OpType /\ (op.store => op.valid)
      /\ op.valid => (~op.store => op.value = program_mem[op.addr])
      /\ window' = NextWindow(granted, op)
      /\ program_mem' = IF op.valid /\ op.store
                        THEN [program_mem EXCEPT ![op.addr] = op.value]
                        ELSE program_mem
      /\ program_mem \in [Addr -> Word]
  BY DEF LsqInd, Inputs, Cycle, Typed
<1>2. /\ Len(window) \in Nat /\ DOMAIN window = 1 .. Len(window)
      /\ \A k \in DOMAIN window : window[k] \in Access
      /\ Gone \in 0 .. 1 /\ NewAt \in Nat \ {0} /\ Gone <= Len(window)
      /\ NewAt = Len(window) + 1 - Gone
      /\ Len(window') = NewAt - 1 + (IF op.valid THEN 1 ELSE 0)
      /\ DOMAIN window' = 1 .. Len(window')
      /\ op.valid => window'[NewAt] = Remember(op)
  BY <1>1, WaitingIs, GoneIs, WindowMoves
<1>4. ASSUME NEW a \in Addr, NEW j \in Int, j = NewAt, NEW w, w = program_mem[a]
      PROVE  Finds(j, a, w)'
  <2> DEFINE k == Len(window) + 1
  <2>1. Finds(k, a, w)
    BY <1>1, <1>4 DEF ValuesInOrder
  <2>2. ack => 1 \in 1 .. Len(window)
    BY <1>2, AckIs
  <2>3. k \in 1 .. Len(window) + 1 /\ k > Took(ack) /\ j = k - Gone
    BY <1>2, <1>4, <2>2 DEF Took
  <2> HIDE DEF k
  <2>. QED  BY <1>4, <2>1, <2>3, FindsMove
<1>5. ASSUME NEW a \in Addr, NEW w, w = program_mem'[a],
             NEW n \in Int, n = Len(window') + 1
      PROVE  Finds(n, a, w)'
  <2>1. NewAt \in Int
    BY <1>2
  <2>2. CASE ~op.valid
    <3>1. n = NewAt /\ w = program_mem[a]
      BY <1>1, <1>2, <1>5, <2>2
    <3>. QED  BY <1>4, <3>1
  <2>3. CASE op.valid /\ ~op.store
    <3>1. n = NewAt + 1 /\ w = program_mem[a]
      BY <1>1, <1>2, <1>5, <2>3
    <3>2. \A j \in Int : j = NewAt => Finds(j, a, w)'
      BY <1>4, <3>1
    <3>3. ASSUME NEW x \in Waiting', x < n PROVE x < NewAt
      <4>1. x \in DOMAIN window' /\ window'[x].store
        BY DEF Waiting
      <4>2. ~window'[NewAt].store
        BY <1>2, <2>3 DEF Remember
      <4>. QED  BY <1>2, <3>1, <3>3, <4>1, <4>2
    <3>4. \A x \in Waiting' : x \in Int /\ (x < NewAt => x < n)
      <4>1. \A x \in Waiting' : x \in DOMAIN window'
        BY DEF Waiting
      <4>. QED  BY <1>2, <3>1, <4>1
    <3>5. PICK j \in Int : j = NewAt
      BY <2>1
    <3>6. Finds(j, a, w)'
      BY <3>2, <3>5
    <3>. QED  BY <3>3, <3>4, <3>5, <3>6 DEF Finds
  <2>4. CASE op.valid /\ op.store
    <3>1. /\ n = NewAt + 1
          /\ w = IF a = op.addr THEN op.value ELSE program_mem[a]
          /\ window'[NewAt].addr = op.addr /\ window'[NewAt].value = op.value
      BY <1>1, <1>2, <1>5, <2>4 DEF Remember
    <3>2. NewAt \in Waiting'
      BY <2>4, WaitingMoves
    <3>3. \A x \in Waiting' : x \in Int
      <4>1. \A x \in Waiting' : x \in DOMAIN window'
        BY DEF Waiting
      <4>. QED  BY <1>2, <4>1
    <3>4. CASE a = op.addr
      <4>1. NewAt < n /\ \A x \in Waiting' : ~(NewAt < x /\ x < n)
        BY <1>2, <3>1, <3>3
      <4>. QED  BY <3>1, <3>2, <3>4, <4>1 DEF Finds
    <3>5. CASE a # op.addr
      <4>1. PICK j \in Int : j = NewAt
        BY <2>1
      <4>2. Finds(j, a, w)'
        BY <1>4, <3>1, <3>5, <4>1
      <4>3. \A x \in Waiting' :
              (x < n => x < j \/ x = j) /\ (x < j => x < n)
        BY <3>1, <3>3, <4>1
      <4>. QED  BY <3>1, <3>5, <4>1, <4>2, <4>3 DEF Finds
    <3>. QED  BY <3>4, <3>5
  <2>. QED  BY <1>1, <2>2, <2>3, <2>4
<1>6. ASSUME NEW j \in DOMAIN window', ~window'[j].store,
             NEW a, a = window'[j].addr, NEW v, v = window'[j].value
      PROVE  Finds(j, a, v)'
  <2>1. j \in Int
    BY <1>2
  <2>2. CASE \E k \in DOMAIN window :
               k > Gone /\ j = k - Gone /\ window'[j] = Finish(window[k], granted)
    <3>1. PICK k \in DOMAIN window :
            k > Gone /\ j = k - Gone /\ window'[j] = Finish(window[k], granted)
      BY <2>2
    <3>2. window[k] \in Access
      BY <1>2
    <3>3. ~window[k].store /\ a = window[k].addr /\ v = window[k].value
          /\ a \in Addr
      BY <1>6, <3>1, <3>2 DEF Finish, Access
    <3>4. Finds(k, a, v)
      BY <1>1, <3>3 DEF ValuesInOrder
    <3>5. k > Took(ack) /\ k \in 1 .. Len(window) + 1
      <4>1. ack => window[1].store
        BY AckIs DEF Waiting
      <4>2. k # 1 \/ ~ack
        BY <3>3, <4>1
      <4>. QED  BY <1>2, <4>2 DEF Took
    <3>. QED  BY <2>1, <3>1, <3>3, <3>4, <3>5, FindsMove
  <2>3. CASE op.valid /\ j = NewAt /\ window'[j] = Remember(op)
    <3>1. ~op.store /\ a = op.addr /\ v = op.value /\ a \in Addr
      BY <1>1, <1>6, <2>3 DEF Remember, OpType
    <3>2. v = program_mem[a]
      BY <1>1, <2>3, <3>1
    <3>. QED  BY <1>4, <2>1, <2>3, <3>1, <3>2
  <2>. QED  BY <1>1, <2>2, <2>3, PositionsMove
<1>7. Len(window') + 1 \in Int
  BY <1>2
<1>8. \A a \in Addr : Finds(Len(window) + 1, a, program_mem[a])'
  <2>1. \A a \in Addr : \A w : \A n \in Int :
          w = program_mem'[a] /\ n = Len(window') + 1 => Finds(n, a, w)'
    BY <1>5
  <2>. QED  BY <1>7, <2>1 DEF Finds
<1>9. \A j \in DOMAIN window' :
        ~window'[j].store => Finds(j, window[j].addr, window[j].value)'
  <2>1. \A j \in DOMAIN window' : \A a, v :
          ~window'[j].store /\ a = window'[j].addr /\ v = window'[j].value
            => Finds(j, a, v)'
    BY <1>6
  <2>. QED  BY <2>1 DEF Finds
<1>. QED  BY <1>8, <1>9 DEF ValuesInOrder

-----------------------------------------------------------------------------
(* A load takes the value that program order gives it.                     *)

\* The nearest older store to an address settles what is found there.
LEMMA FindsOne ==
  ASSUME Typed, NEW k \in Int, NEW a, NEW v, Finds(k, a, v)
  PROVE  /\ (\A m \in Waiting : m < k => window[m].addr # a) => v = mem[a]
         /\ \A m \in Waiting :
              /\ m < k /\ window[m].addr = a
              /\ \A n \in Waiting : m < n /\ n < k => window[n].addr # a
              => v = window[m].value
<1>1. \A m \in Waiting : m \in Int
  BY WaitingIs
<1>2. ASSUME NEW m \in Waiting, m < k, window[m].addr = a,
             \A n \in Waiting : m < n /\ n < k => window[n].addr # a
      PROVE  v = window[m].value
  <2>1. PICK x \in Waiting :
          /\ x < k /\ window[x].addr = a /\ v = window[x].value
          /\ \A n \in Waiting : x < n /\ n < k => window[n].addr # a
    BY <1>2 DEF Finds
  <2>2. ~(x < m) /\ ~(m < x)
    BY <1>2, <2>1
  <2>3. x = m
    BY <1>1, <2>2
  <2>. QED  BY <2>1, <2>3
<1>. QED  BY <1>2 DEF Finds

\* A load that works and does not leave its unit.
LEMMA OldLoadMoves ==
  ASSUME LsqInd, NEW granted, NEW answers, NEW ack, NEW op,
         Inputs(granted, answers, ack, op), Cycle(granted, answers, ack, op),
         NEW i \in FU_LS, NEW k \in DOMAIN window, Works(k, i),
         ~window[k].store, i \notin granted
  PROVE  /\ lq_entries'[i].valid
         /\ lq_entries'[i].filled => lq_entries'[i].addr = window[k].addr
         /\ lq_entries'[i].sq_pos = NO_SQ_POS =>
              \A m \in Waiting : m < k => window[m].addr # window[k].addr
         /\ lq_entries'[i].sq_pos # NO_SQ_POS =>
              lq_entries'[i].sq_pos = Slot(k) /\ Rank(k) >= 1
         /\ lq_retire_valid'[i] =>
              lq_entries'[i].filled /\ lq_value'[i] = window[k].value
<1> DEFINE e == EntryOf(op, i)
           a == window[k].addr
<1>1. /\ Typed /\ RingInOrder /\ LoadsWait /\ ValuesInOrder /\ k \in Int
  BY WaitingIs DEF LsqInd
<1>2. ~LoadDispatched(op, i)
  <2>1. Gone \in Int
    BY <1>1, GoneIs
  <2>2. \E j \in Int : j = k - Gone
    BY <1>1, <2>1
  <2>. QED  BY <2>2, WorksOn DEF LoadDispatched
<1>3. /\ EntryGood(e, k, a)
      /\ lq_retire_valid[i] => e.filled /\ KeepsValue(op, i)
      /\ lq_entries[i].filled => e.filled
      /\ lq_entries[i].sq_pos = NO_SQ_POS => e.sq_pos = NO_SQ_POS
  BY <1>2, OldEntryIs
<1>4. /\ lq_entries'[i] = IF Clears(op, i)
                          THEN [e EXCEPT !.sq_pos = NO_SQ_POS] ELSE e
      /\ lq_retire_valid'[i] = (KeepsValue(op, i) \/ Forwards(op, i)
                                  \/ Answered(answers, i))
      /\ lq_value'[i] =
           IF Answered(answers, i) THEN mem[lsq_load_dc.addr]
           ELSE IF Forwards(op, i)
           THEN sq_entries[CHOOSE j \in StopOf(op, i) : TRUE].value
           ELSE lq_value[i]
  BY LoadsMove
<1>5. LoadWaits(k, i) /\ Finds(k, a, window[k].value)
  BY <1>1 DEF LoadsWait, ValuesInOrder
<1>6. /\ e \in LoadType /\ e.valid /\ (e.filled => e.addr = a)
      /\ e.sq_pos = NO_SQ_POS =>
           \A m \in Waiting : m < k => window[m].addr # a
      /\ e.sq_pos # NO_SQ_POS => e.sq_pos = Slot(k) /\ Rank(k) >= 1
  BY <1>3 DEF EntryGood
<1> HIDE DEF e
<1>7. /\ lq_entries'[i].valid /\ lq_entries'[i].filled = e.filled
      /\ lq_entries'[i].addr = e.addr
      /\ lq_entries'[i].sq_pos = IF Clears(op, i) THEN NO_SQ_POS ELSE e.sq_pos
  BY <1>4, <1>6 DEF LoadType
<1>8. ASSUME Clears(op, i), NEW m \in Waiting, m < k PROVE window[m].addr # a
  <2>1. e.filled /\ e.sq_pos # NO_SQ_POS /\ Stop(e) = {}
    BY <1>8 DEF Clears, StopOf, Searches, e
  <2> HIDE DEF a
  <2>. QED  BY <1>1, <1>3, <1>8, <2>1, NoStopIs
<1>9. ASSUME Forwards(op, i)
      PROVE  /\ e.filled /\ ~Answered(answers, i)
             /\ sq_entries[CHOOSE j \in StopOf(op, i) : TRUE].value
                  = window[k].value
  <2>1. e.filled /\ e.sq_pos # NO_SQ_POS /\ StopOf(op, i) = Stop(e)
    BY <1>9 DEF Forwards, StopOf, Searches, e
  <2>2. ~Answered(answers, i)
    <3>1. Answered(answers, i) => lq_entries[i].sq_pos = NO_SQ_POS
      BY DEF Answered, Inputs, lsq_load_dc, Asks
    <3>. QED  BY <1>3, <2>1, <3>1
  <2>3. PICK j \in Stop(e) : sq_entries[j].filled
    BY <1>9, <2>1 DEF Forwards
  <2> HIDE DEF a
  <2>4. (CHOOSE x \in Stop(e) : TRUE) = j
    <3>1. \A x \in Stop(e) : x = j
      BY <1>1, <1>3, <2>1, StopOnce
    <3>. QED  BY <3>1
  <2>5. PICK m \in Waiting :
          /\ m < k /\ j = Slot(m) /\ Stops(e, j)
          /\ \A n \in Waiting : m < n /\ n < k => window[n].addr # a
    BY <1>1, <1>3, <2>1, StopIs
  <2>6. window[m].addr = a /\ sq_entries[j].value = window[m].value
    BY <1>1, <1>3, <2>1, <2>3, <2>5, StopsAre
  <2>7. window[k].value = window[m].value
    BY <1>1, <1>5, <2>5, <2>6, FindsOne
  <2>. QED  BY <2>1, <2>2, <2>4, <2>6, <2>7
<1>10. ASSUME Answered(answers, i)
       PROVE  e.filled /\ mem[lsq_load_dc.addr] = window[k].value
  <2>1. /\ i = lq_selection
        /\ lq_entries[i].sq_pos = NO_SQ_POS /\ lq_entries[i].filled
    BY <1>10 DEF Answered, Inputs, lsq_load_dc, Asks
  <2>2. lsq_load_dc.addr = a
    BY <1>5, <2>1 DEF lsq_load_dc, LoadWaits
  <2>3. \A m \in Waiting : m < k => window[m].addr # a
    BY <1>5, <2>1 DEF LoadWaits
  <2> HIDE DEF a
  <2>4. window[k].value = mem[a]
    BY <1>1, <1>5, <2>3, FindsOne
  <2>. QED  BY <1>3, <2>1, <2>2, <2>4
<1>11. ASSUME KeepsValue(op, i), ~Forwards(op, i), ~Answered(answers, i)
       PROVE  e.filled /\ lq_value[i] = window[k].value
  BY <1>3, <1>5, <1>11 DEF KeepsValue, StillDone, LoadWaits
<1>12. lq_retire_valid'[i] =>
         lq_entries'[i].filled /\ lq_value'[i] = window[k].value
  BY <1>4, <1>7, <1>9, <1>10, <1>11
<1>. QED  BY <1>6, <1>7, <1>8, <1>12

\* A load that is dispatched.
LEMMA NewLoadMoves ==
  ASSUME LsqInd, NEW granted, NEW answers, NEW ack, NEW op,
         Inputs(granted, answers, ack, op), Cycle(granted, answers, ack, op),
         NEW i \in FU_LS, LoadDispatched(op, i), NEW a
  PROVE  /\ EntryGood(lq_entries'[i], Len(window) + 1, a)
         /\ ~lq_entries'[i].filled /\ ~lq_retire_valid'[i]
<1> DEFINE e == EntryOf(op, i)
<1>1. /\ EntryGood(e, Len(window) + 1, a) /\ ~e.filled
  BY NewEntryIs
<1>2. /\ lq_entries'[i] = IF Clears(op, i)
                          THEN [e EXCEPT !.sq_pos = NO_SQ_POS] ELSE e
      /\ lq_retire_valid'[i] = (KeepsValue(op, i) \/ Forwards(op, i)
                                  \/ Answered(answers, i))
  BY LoadsMove
<1>3. ~Clears(op, i) /\ ~Forwards(op, i)
  BY <1>1 DEF Clears, Forwards, StopOf, Searches
<1>4. ~KeepsValue(op, i)
  BY DEF KeepsValue, StillDone
<1>5. ~Answered(answers, i)
  <2> SUFFICES ASSUME Answered(answers, i) PROVE FALSE
    OBVIOUS
  <2>1. lq_entries[i].valid /\ ~lq_retire_valid[i]
    BY DEF Answered, Inputs, lsq_load_dc, Asks
  <2>2. PICK k \in DOMAIN window : Works(k, i) /\ ~window[k].store
    BY <2>1 DEF LsqInd, LoadsWait
  <2>3. i \in Busy /\ op.valid /\ op.idx = i
    BY <2>2 DEF Busy, Works, LoadDispatched
  <2>4. i \in granted
    BY <2>3 DEF Inputs
  <2>5. fu_lsq[i].store
    BY <2>1, <2>4 DEF Inputs, Offers
  <2>. QED  BY <2>2, <2>5 DEF LsqInd, UnitsWork
<1> HIDE DEF e
<1>. QED  BY <1>1, <1>2, <1>3, <1>4, <1>5

\* The limit p of a search for address a that is good for position k in this
\* cycle stands in the next one, where k has moved to.
LimitGood(p, k, a) ==
  /\ p = NO_SQ_POS => \A m \in Waiting : m < k => window[m].addr # a
  /\ p # NO_SQ_POS => p = Slot(k) /\ Rank(k) >= 1

LimitStands(p, k, a) ==
  /\ p = NO_SQ_POS => \A m \in Waiting : m < k => window[m].addr # a
  /\ p # NO_SQ_POS => p = Slot(k) /\ (Rank(k) = 0 => sq_rob_valid)

LEMMA LimitMoves ==
  ASSUME LsqInd, NEW granted, NEW answers, NEW ack, NEW op,
         Inputs(granted, answers, ack, op), Cycle(granted, answers, ack, op),
         NEW k \in 1 .. Len(window) + 1, k > Gone, k > Took(ack),
         NEW j \in Int, j = k - Gone,
         NEW p, NEW a, LimitGood(p, k, a)
  PROVE  LimitStands(p, j, a)'
<1>1. ASSUME p = NO_SQ_POS, NEW n \in Waiting', n < j
      PROVE  window'[n].addr # a
  BY <1>1, BelowMoves DEF LimitGood
<1>2. ASSUME p # NO_SQ_POS
      PROVE  p = Slot(j)' /\ (Rank(j)' = 0 => sq_rob_valid')
  <2>1. /\ Slot(j)' = Slot(k) /\ Rank(j)' = Rank(k) - Took(ack)
    BY SlotsMove
  <2>2. Rank(k) \in Nat
    <3>1. Typed /\ RingInOrder
      BY DEF LsqInd
    <3>2. k \in Int
      BY <3>1, WaitingIs
    <3>. QED  BY <3>1, <3>2, RankIs
  <2>3. sq_rob_valid' = ack
    BY DEF Cycle, SqUpdate
  <2>. QED  BY <1>2, <2>1, <2>2, <2>3 DEF LimitGood, Took
<1>. QED  BY <1>1, <1>2 DEF LimitStands

LEMMA LoadsWaitMoves ==
  ASSUME LsqInd, NEW granted, NEW answers, NEW ack, NEW op,
         Inputs(granted, answers, ack, op), Cycle(granted, answers, ack, op)
  PROVE  LoadsWait'
<1>1. /\ Typed /\ RingInOrder /\ LoadsWait /\ UnitsWork /\ op \in OpType
      /\ op.load = (op.valid /\ ~op.store) /\ (op.store => op.valid)
      /\ sq_rob_valid' = ack /\ ack \in BOOLEAN
  BY DEF LsqInd, Inputs, Cycle, SqUpdate
<1>2. /\ Len(window) \in Nat /\ DOMAIN window = 1 .. Len(window)
      /\ Gone \in 0 .. 1 /\ Gone <= Len(window)
      /\ NewAt = Len(window) + 1 - Gone
  BY <1>1, WaitingIs, GoneIs
<1>4. ASSUME NEW i \in FU_LS, NEW j \in DOMAIN window', Works(j, i)',
             ~window'[j].store
      PROVE  LoadWaits(j, i)'
  <2>0. j \in Int
    BY <1>4, WorksMove
  <2>1. PICK p, a : p = lq_entries'[i].sq_pos /\ a = window'[j].addr
    OBVIOUS
  <2>2. CASE \E k \in DOMAIN window :
               /\ k > Gone /\ j = k - Gone /\ window'[j] = window[k]
               /\ Works(k, i) /\ i \notin granted
    <3>1. PICK k \in DOMAIN window :
            /\ k > Gone /\ j = k - Gone /\ window'[j] = window[k]
            /\ Works(k, i) /\ i \notin granted
      BY <2>2
    <3>2. ~window[k].store
      BY <1>4, <3>1
    <3>3. k > Took(ack) /\ k \in 1 .. Len(window) + 1
      <4>1. ack => window[1].store
        BY AckIs DEF Waiting
      <4>2. k # 1 \/ ~ack
        BY <3>2, <4>1
      <4>. QED  BY <1>1, <1>2, <4>2 DEF Took
    <3>4. /\ lq_entries'[i].valid
          /\ lq_entries'[i].filled => lq_entries'[i].addr = a
          /\ p = NO_SQ_POS => \A m \in Waiting : m < k => window[m].addr # a
          /\ p # NO_SQ_POS => p = Slot(k) /\ Rank(k) >= 1
          /\ lq_retire_valid'[i] =>
               lq_entries'[i].filled /\ lq_value'[i] = window'[j].value
      BY <2>1, <3>1, <3>2, OldLoadMoves
    <3>5. LimitGood(p, k, a)
      BY <3>4 DEF LimitGood
    <3>6. LimitStands(p, j, a)'
      BY <2>0, <3>1, <3>3, <3>5, LimitMoves
    <3>. QED  BY <2>1, <3>4, <3>6 DEF LoadWaits, LimitStands
  <2>3. CASE op.valid /\ j = NewAt /\ i = op.idx /\ window'[j] = Remember(op)
    <3>1. LoadDispatched(op, i)
      <4>1. ~op.store
        BY <1>4, <2>3 DEF Remember
      <4>. QED  BY <1>1, <2>3, <4>1 DEF LoadDispatched
    <3> DEFINE k == Len(window) + 1
    <3>2. /\ EntryGood(lq_entries'[i], k, a) /\ ~lq_entries'[i].filled
          /\ ~lq_retire_valid'[i]
      BY <3>1, NewLoadMoves
    <3>3. k > Took(ack) /\ k \in 1 .. Len(window) + 1 /\ k > Gone /\ j = k - Gone
      <4>1. ack => 1 \in 1 .. Len(window)
        BY <1>2, AckIs
      <4>. QED  BY <1>1, <1>2, <2>3, <4>1 DEF Took
    <3> HIDE DEF k
    <3>4. lq_entries'[i].valid /\ LimitGood(p, k, a)
      BY <2>1, <3>2 DEF EntryGood, LimitGood
    <3>5. LimitStands(p, j, a)'
      BY <2>0, <3>3, <3>4, LimitMoves
    <3>. QED  BY <2>1, <3>2, <3>4, <3>5 DEF LoadWaits, LimitStands
  <2>. QED  BY <1>4, <2>2, <2>3, WorksMove
<1>5. ASSUME NEW i \in FU_LS, lq_entries'[i].valid, ~lq_retire_valid'[i]
      PROVE  \E j \in DOMAIN window' : Works(j, i)' /\ ~window'[j].store
  <2>1. CASE LoadDispatched(op, i)
    <3>1. op.valid /\ op.idx = i /\ ~op.store
      BY <1>1, <2>1 DEF LoadDispatched
    <3>2. \E j \in Int : j = NewAt
      BY <1>2
    <3>3. PICK j \in Int : Works(j, i)' /\ window'[j] = Remember(op)
      BY <3>1, <3>2, WorksOn
    <3>. QED  BY <3>1, <3>3 DEF Works, Remember
  <2>2. CASE ~LoadDispatched(op, i)
    <3>1. /\ lq_entries'[i] = IF Clears(op, i)
                              THEN [EntryOf(op, i) EXCEPT !.sq_pos = NO_SQ_POS]
                              ELSE EntryOf(op, i)
          /\ ~KeepsValue(op, i)
      <4>1. lq_retire_valid'[i] = (KeepsValue(op, i) \/ Forwards(op, i)
                                     \/ Answered(answers, i))
        BY LoadsMove
      <4>2. lq_entries'[i] = IF Clears(op, i)
                             THEN [EntryOf(op, i) EXCEPT !.sq_pos = NO_SQ_POS]
                             ELSE EntryOf(op, i)
        BY LoadsMove
      <4>. QED  BY <1>5, <4>1, <4>2
    <3>2. EntryOf(op, i) \in LoadType
      BY EntryTyped
    <3>3. EntryOf(op, i).valid
      BY <1>5, <3>1, <3>2 DEF LoadType
    <3>4. lq_entries[i].valid
      <4>1. lq_entries[i] \in LoadType
        BY <1>1 DEF Typed
      <4>. QED  BY <2>2, <3>3, <4>1 DEF EntryOf, LoadEntry, LoadComputed, LoadType
    <3>5. ~lq_retire_valid[i]
      <4> SUFFICES ASSUME lq_retire_valid[i] PROVE FALSE
        OBVIOUS
      <4>1. LoadComputed(fu_lsq, i)
        BY <2>2, <3>1 DEF KeepsValue, StillDone
      <4>2. fu_lsq[i].valid /\ fu_lsq[i].load /\ ~lq_entries[i].filled
        BY <4>1 DEF LoadComputed
      <4>3. PICK k \in DOMAIN window : Works(k, i) /\ ~window[k].store
        BY <1>1, <4>2 DEF UnitsWork
      <4>4. LoadWaits(k, i)
        BY <1>1, <4>3 DEF LoadsWait
      <4>. QED  BY <4>2, <4>4 DEF LoadWaits
    <3>6. PICK k \in DOMAIN window : Works(k, i) /\ ~window[k].store
      BY <1>1, <3>4, <3>5 DEF LoadsWait
    <3>7. i \notin granted
      <4>1. ~fu_lsq[i].store
        BY <1>1, <3>6 DEF UnitsWork
      <4>. QED  BY <3>5, <4>1 DEF Inputs, Offers
    <3>8. \E j \in Int : j = k - Gone
      BY <1>2
    <3>9. PICK j \in Int : Works(j, i)' /\ window'[j] = window[k]
      BY <3>6, <3>7, <3>8, WorksOn
    <3>. QED  BY <3>6, <3>9 DEF Works
  <2>. QED  BY <2>1, <2>2
<1>. QED  BY <1>4, <1>5 DEF LoadsWait

-----------------------------------------------------------------------------
(* The store queue after the cycle.                                        *)

\* Who fills in a slot works for the store that has it.
LEMMA StoreFills ==
  ASSUME LsqInd, NEW s, NEW i \in StoreComputed(fu_lsq, s)
  PROVE  \E k \in Waiting :
           /\ Works(k, i) /\ Slot(k) = s
           /\ fu_lsq[i].addr = window[k].addr
           /\ fu_lsq[i].value = window[k].value
<1>1. /\ i \in FU_LS /\ fu_lsq[i].valid /\ fu_lsq[i].store
      /\ fu_lsq[i].sq_pos = s
  BY DEF StoreComputed
<1>2. PICK k \in DOMAIN window : Works(k, i)
  BY <1>1 DEF LsqInd, UnitsWork
<1>3. /\ window[k].store /\ Slot(k) = s
      /\ fu_lsq[i].addr = window[k].addr
      /\ fu_lsq[i].value = window[k].value
  BY <1>1, <1>2 DEF LsqInd, UnitsWork
<1>4. k \in Waiting
  BY <1>2, <1>3 DEF Waiting, Works, LsqInd, TakesHead, Oldest
<1>. QED  BY <1>2, <1>3, <1>4

\* The slot of a store whose address and value have come.
Filled(e) == [addr |-> e.addr, mem_size |-> 0, filled |-> TRUE, value |-> e.value]

LEMMA SlotsFill ==
  ASSUME LsqInd, NEW granted, NEW answers, NEW ack, NEW op,
         Inputs(granted, answers, ack, op), Cycle(granted, answers, ack, op),
         NEW s \in SqIdx
  PROVE  \/ \E k \in Waiting :
              /\ Slot(k) = s /\ ~window[k].finished
              /\ sq_entries'[s] = Filled(window[k])
         \/ /\ StoreComputed(fu_lsq, s) = {}
            /\ sq_entries'[s] = IF ack /\ s = sq_head THEN EmptyStore
                                ELSE sq_entries[s]
<1> DEFINE by == StoreComputed(fu_lsq, s)
           i == CHOOSE x \in by : \A y \in by : y <= x
<1>1. sq_entries'[s] = IF by # {}
                       THEN [addr |-> fu_lsq[i].addr,
                             mem_size |-> fu_lsq[i].mem_size,
                             filled |-> TRUE, value |-> fu_lsq[i].value]
                       ELSE IF ack /\ s = sq_head THEN EmptyStore
                       ELSE sq_entries[s]
  BY DEF Cycle, SqUpdate
<1>2. CASE by # {}
  <2>1. ASSUME NEW x \in by, NEW y \in by PROVE x = y
    <3>1. PICK k \in Waiting : Works(k, x) /\ Slot(k) = s
      BY StoreFills
    <3>2. PICK m \in Waiting : Works(m, y) /\ Slot(m) = s
      BY StoreFills
    <3>3. k = m
      BY <3>1, <3>2, SlotsDiffer DEF LsqInd
    <3>. QED  BY <3>1, <3>2, <3>3 DEF Works
  <2>2. \A x \in by : x \in Int
    BY DEF StoreComputed
  <2>3. i \in by
    <3>1. \E x \in by : \A y \in by : y <= x
      <4> HIDE DEF by
      <4>. QED  BY <1>2, <2>1, <2>2
    <3>. QED  BY <3>1
  <2> HIDE DEF i
  <2>4. PICK k \in Waiting :
          /\ Works(k, i) /\ Slot(k) = s
          /\ fu_lsq[i].addr = window[k].addr
          /\ fu_lsq[i].value = window[k].value
    BY <2>3, StoreFills
  <2>5. fu_lsq[i].mem_size = 0
    <3>1. fu_lsq[i] \in FuType
      BY <2>3 DEF StoreComputed, LsqInd, Typed
    <3>. QED  BY <3>1 DEF FuType
  <2>. QED  BY <1>1, <1>2, <2>4, <2>5 DEF Works, Filled
<1>3. CASE by = {}
  BY <1>1, <1>3
<1>. QED  BY <1>2, <1>3

LEMMA StoresMove ==
  ASSUME LsqInd, NEW granted, NEW answers, NEW ack, NEW op,
         Inputs(granted, answers, ack, op), Cycle(granted, answers, ack, op)
  PROVE  /\ \A s \in SqIdx : sq_entries'[s].filled =>
                               \E j \in Waiting' : Slot(j)' = s
         /\ \A j \in Waiting' : StoreWaits(j)'
<1>1. /\ Typed /\ RingInOrder /\ UnitsWork /\ op \in OpType
      /\ window' = NextWindow(granted, op)
      /\ (op.store => op.valid) /\ ack \in BOOLEAN
  BY DEF LsqInd, Inputs, Cycle
<1>2. /\ Len(window) \in Nat /\ DOMAIN window = 1 .. Len(window)
      /\ \A k \in DOMAIN window : window[k] \in Access
      /\ Gone \in 0 .. 1 /\ Gone <= Len(window)
      /\ NewAt = Len(window) + 1 - Gone
      /\ Waiting \in SUBSET Int
  BY <1>1, WaitingIs, GoneIs
<1>3. Waiting' = {k - Gone : k \in Waiting \ (IF ack THEN {1} ELSE {})}
                    \cup (IF op.store THEN {NewAt} ELSE {})
  BY WaitingMoves
<1>4. ack => window[1].finished /\ Slot(1) = sq_head /\ 1 \in Waiting
  BY AckIs
<1>5. ASSUME NEW k \in Waiting, ~(ack /\ k = 1)
      PROVE  /\ k \in DOMAIN window /\ k > Gone /\ k > Took(ack)
             /\ k \in 1 .. Len(window) + 1 /\ k - Gone \in Int
             /\ k - Gone \in Waiting'
  <2>1. k \in DOMAIN window /\ window[k].store /\ ~(k = 1 /\ sq_rob_valid)
    BY DEF Waiting
  <2>2. k > Gone
    BY <1>2, <2>1 DEF Gone, Leaves, Oldest
  <2>. QED  BY <1>1, <1>2, <1>3, <1>5, <2>1, <2>2 DEF Took
<1>6. ASSUME NEW s \in SqIdx, sq_entries'[s].filled
      PROVE  \E j \in Waiting' : Slot(j)' = s
  <2>1. \E k \in Waiting : Slot(k) = s /\ ~(ack /\ k = 1)
    <3>1. CASE \E k \in Waiting : Slot(k) = s /\ ~window[k].finished
      BY <1>4, <3>1
    <3>2. CASE sq_entries'[s] = IF ack /\ s = sq_head THEN EmptyStore
                                ELSE sq_entries[s]
      <4>1. sq_entries[s].filled /\ ~(ack /\ s = sq_head)
        BY <1>6, <3>2 DEF EmptyStore
      <4>2. PICK k \in Waiting : Slot(k) = s
        BY <1>1, <4>1 DEF RingInOrder
      <4>. QED  BY <1>4, <4>1, <4>2
    <3>. QED  BY <3>1, <3>2, SlotsFill
  <2>2. PICK k \in Waiting : Slot(k) = s /\ ~(ack /\ k = 1)
    BY <2>1
  <2>3. PICK j \in Int : j = k - Gone /\ j \in Waiting'
    BY <1>5, <2>2
  <2>4. Slot(j)' = Slot(k)
    BY <1>5, <2>2, <2>3, SlotsMove
  <2>. QED  BY <2>2, <2>3, <2>4
<1>7. ASSUME NEW j \in Waiting' PROVE StoreWaits(j)'
  <2>1. CASE \E k \in Waiting : j = k - Gone /\ ~(ack /\ k = 1)
    <3>1. PICK k \in Waiting : j = k - Gone /\ ~(ack /\ k = 1)
      BY <2>1
    <3>2. Slot(j)' = Slot(k)
      BY <1>5, <3>1, SlotsMove
    <3>3. k \in Int /\ Slot(k) \in SqIdx /\ StoreWaits(k)
      BY <1>1, <1>2, SlotIs DEF RingInOrder
    <3>4. /\ window[k] \in Access
          /\ window'[j] = Finish(window[k], granted)
      BY <1>1, <1>2, <1>5, <3>1, WindowMoves
    <3>5. /\ window'[j].addr = window[k].addr /\ window'[j].value = window[k].value
          /\ window'[j].finished
                = (window[k].finished \/ window[k].unit \in granted)
      BY <3>4 DEF Finish, Access
    <3> DEFINE s == Slot(k)
    <3>6. CASE \E m \in Waiting :
                 Slot(m) = s /\ sq_entries'[s] = Filled(window[m])
      <4>1. PICK m \in Waiting :
              Slot(m) = s /\ sq_entries'[s] = Filled(window[m])
        BY <3>6
      <4>2. m = k
        BY <1>1, <4>1, SlotsDiffer
      <4>3. /\ sq_entries'[s].addr = window[k].addr /\ sq_entries'[s].filled
            /\ sq_entries'[s].value = window[k].value
        BY <4>1, <4>2 DEF Filled
      <4>. QED  BY <3>2, <3>5, <4>3 DEF StoreWaits
    <3>7. CASE /\ StoreComputed(fu_lsq, s) = {}
               /\ sq_entries'[s] = IF ack /\ s = sq_head THEN EmptyStore
                                   ELSE sq_entries[s]
      <4>1. ~(ack /\ s = sq_head)
        <5> SUFFICES ASSUME ack, s = sq_head PROVE FALSE
          OBVIOUS
        <5>1. 1 \in Waiting /\ Slot(1) = Slot(k)
          BY <1>4
        <5>2. 1 = k
          BY <1>1, <5>1, SlotsDiffer
        <5>. QED  BY <3>1, <5>2
      <4>2. sq_entries'[s] = sq_entries[s]
        BY <3>7, <4>1
      <4>3. ASSUME window'[j].finished PROVE sq_entries[s].filled
        <5>1. CASE window[k].finished
          BY <3>3, <5>1 DEF StoreWaits
        <5>2. CASE ~window[k].finished /\ window[k].unit \in granted
          <6> DEFINE i == window[k].unit
          <6>1. i \in FU_LS /\ Works(k, i) /\ fu_lsq[i].valid /\ window[k].store
            BY <1>5, <3>1, <3>4, <5>2
               DEF Works, Access, Inputs, Offers, Waiting
          <6>2. fu_lsq[i].store /\ fu_lsq[i].sq_pos = s
            BY <1>1, <1>5, <3>1, <6>1 DEF UnitsWork
          <6> HIDE DEF i, s
          <6>3. ~sq_entries[s].filled => i \in StoreComputed(fu_lsq, s)
            BY <6>1, <6>2 DEF StoreComputed
          <6>. QED  BY <3>7, <6>3
        <5>. QED  BY <3>5, <4>3, <5>1, <5>2
      <4>. QED  BY <3>2, <3>3, <3>5, <4>2, <4>3 DEF StoreWaits
    <3>8. s \in SqIdx
      BY <3>3
    <3> HIDE DEF s
    <3>9. \/ \E m \in Waiting : Slot(m) = s /\ sq_entries'[s] = Filled(window[m])
          \/ /\ StoreComputed(fu_lsq, s) = {}
             /\ sq_entries'[s] = IF ack /\ s = sq_head THEN EmptyStore
                                 ELSE sq_entries[s]
      BY <3>8, SlotsFill
    <3>. QED  BY <3>6, <3>7, <3>9
  <2>2. CASE op.store /\ j = NewAt
    <3> DEFINE k == Len(window) + 1
    <3>1. k > Took(ack) /\ k \in 1 .. Len(window) + 1 /\ k > Gone
          /\ j = k - Gone /\ j \in Int /\ k \in Int
      <4>1. ack => 1 \in 1 .. Len(window)
        BY <1>2, AckIs
      <4>. QED  BY <1>1, <1>2, <2>2, <4>1 DEF Took
    <3>2. Slot(j)' = Slot(k) /\ Rank(k) = sq_counter
      BY <3>1, SlotsMove
    <3> DEFINE s == Slot(k)
    <3>3. s \in SqIdx
      BY <1>1, <3>1, SlotIs
    <3>4. ASSUME NEW m \in Waiting PROVE Slot(m) # s
      <4>1. /\ m \in Int /\ sq_head \in SqIdx
            /\ Rank(m) \in 0 .. STORE_QUEUE_SIZE - 1
            /\ Slot(m) = At(sq_head, Rank(m))
            /\ Rank(k) \in 0 .. STORE_QUEUE_SIZE - 1
            /\ Slot(k) = At(sq_head, Rank(k))
        BY <1>1, <1>2, <3>1, SlotIs DEF Typed
      <4>2. Rank(m) < sq_counter
        BY <1>1, <4>1, RankIs
      <4>3. Rank(m) # Rank(k)
        BY <3>2, <4>1, <4>2
      <4>. QED  BY <4>1, <4>3, AtInjective
    <3>5. ~sq_entries[s].filled
      BY <1>1, <3>3, <3>4 DEF RingInOrder
    <3>6. ~sq_entries'[s].filled
      <4>1. sq_entries'[s] = IF ack /\ s = sq_head THEN EmptyStore
                             ELSE sq_entries[s]
        BY <3>3, <3>4, SlotsFill
      <4>. QED  BY <3>5, <4>1 DEF EmptyStore
    <3>7. ~window'[j].finished
      <4>1. window'[NewAt] = Remember(op)
        BY <1>1, <2>2, WindowMoves
      <4>. QED  BY <2>2, <4>1 DEF Remember
    <3>. QED  BY <3>2, <3>6, <3>7 DEF StoreWaits
  <2>. QED  BY <1>3, <2>1, <2>2
<1>. QED  BY <1>6, <1>7

-----------------------------------------------------------------------------
(* The invariant is inductive.                                             *)

LEMMA TypesMove ==
  ASSUME LsqInd, NEW granted, NEW answers, NEW ack, NEW op,
         Inputs(granted, answers, ack, op), Cycle(granted, answers, ack, op)
  PROVE  Typed'
<1>1. /\ Typed /\ RingInOrder /\ op \in OpType /\ ack \in BOOLEAN
      /\ window' = NextWindow(granted, op)
      /\ op.valid => op.idx \in FU_LS
      /\ sq_rob_valid' = ack
  BY DEF LsqInd, Inputs, Cycle, SqUpdate
<1>2. NO_SQ_POS \in 0 .. NO_SQ_POS
  BY DEF NO_SQ_POS
<1>3. lq_entries' \in [FU_LS -> LoadType]
  <2>1. ASSUME NEW i \in FU_LS
        PROVE  (IF Clears(op, i) THEN [EntryOf(op, i) EXCEPT !.sq_pos = NO_SQ_POS]
                ELSE EntryOf(op, i)) \in LoadType
    <3>1. EntryOf(op, i) \in LoadType
      BY EntryTyped
    <3>. QED  BY <1>2, <3>1 DEF LoadType
  <2>2. lq_entries' =
          [i \in FU_LS |->
             IF Clears(op, i) THEN [EntryOf(op, i) EXCEPT !.sq_pos = NO_SQ_POS]
             ELSE EntryOf(op, i)]
    BY LoadsMove
  <2>. QED  BY <2>1, <2>2
<1>4. lq_retire_valid' \in [FU_LS -> BOOLEAN]
  <2>1. lq_retire_valid' = [i \in FU_LS |-> KeepsValue(op, i) \/ Forwards(op, i)
                                              \/ Answered(answers, i)]
    BY LoadsMove
  <2>. QED  BY <2>1
<1>5. lq_value' \in [FU_LS -> Word]
  <2>1. mem[lsq_load_dc.addr] \in Word
    <3>1. lq_entries[lq_selection] \in LoadType /\ mem \in [Addr -> Word]
      BY <1>1 DEF Typed
    <3>. QED  BY <3>1 DEF lsq_load_dc, LoadType
  <2>2. ASSUME NEW i \in FU_LS, Forwards(op, i)
        PROVE  sq_entries[CHOOSE j \in StopOf(op, i) : TRUE].value \in Word
    <3> DEFINE j == CHOOSE x \in StopOf(op, i) : TRUE
    <3>1. j \in StopOf(op, i)
      BY <2>2 DEF Forwards
    <3>2. j \in SqIdx
      <4> HIDE DEF j
      <4>. QED  BY <3>1 DEF StopOf, Stop, Before
    <3> HIDE DEF j
    <3>3. sq_entries[j] \in StoreType
      BY <1>1, <3>2 DEF Typed
    <3>4. sq_entries[j].value \in Word
      BY <3>3 DEF StoreType
    <3>. QED  BY <3>4 DEF j
  <2>3. lq_value' =
          [i \in FU_LS |->
             IF Answered(answers, i) THEN mem[lsq_load_dc.addr]
             ELSE IF Forwards(op, i)
             THEN sq_entries[CHOOSE j \in StopOf(op, i) : TRUE].value
             ELSE lq_value[i]]
    BY LoadsMove
  <2>4. \A i \in FU_LS : lq_value[i] \in Word
    BY <1>1 DEF Typed
  <2>. QED  BY <2>1, <2>2, <2>3, <2>4
<1>6. lq_selection' \in FU_LS
  <2>1. PICK asking \in SUBSET FU_LS :
          lq_selection' =
            IF lq_selection \in asking \/ asking = {} THEN lq_selection
            ELSE CHOOSE i \in asking : \A j \in asking : j <= i
    BY LoadsMove
  <2>2. IsFiniteSet(asking)
    BY LsqSystemAssumption, FS_Subset
  <2>a. asking \in SUBSET Int
    <3>1. \A i \in asking : i \in Nat
      OBVIOUS
    <3>. QED  BY <3>1
  <2>3. asking # {} => \E i \in asking : \A j \in asking : j <= i
    BY <2>2, <2>a, GreatestOf
  <2>. QED  BY <1>1, <2>1, <2>3 DEF Typed
<1>7. sq_entries' \in [SqIdx -> StoreType]
  <2>1. ASSUME NEW s \in SqIdx PROVE sq_entries'[s] \in StoreType
    <3>1. EmptyStore \in StoreType /\ sq_entries[s] \in StoreType
      BY <1>1 DEF EmptyStore, StoreType, Typed
    <3>2. \A k \in Waiting : Filled(window[k]) \in StoreType
      <4>1. \A k \in Waiting : window[k] \in Access
        BY <1>1, WaitingIs
      <4>. QED  BY <4>1 DEF Filled, Access, StoreType
    <3>. QED  BY <3>1, <3>2, SlotsFill
  <2>2. sq_entries' = [s \in SqIdx |-> sq_entries'[s]]
    BY DEF Cycle, SqUpdate
  <2>. QED  BY <2>1, <2>2
<1>8. mem' \in [Addr -> Word]
  <2>1. mem' = IF ack THEN [mem EXCEPT ![lsq_store_dc(sq_retire).addr] =
                              lsq_store_dc(sq_retire).value]
               ELSE mem
    BY DEF Cycle
  <2>2. ack => /\ lsq_store_dc(sq_retire).addr \in Addr
               /\ lsq_store_dc(sq_retire).value \in Word
    <3>1. ack => window[1] \in Access
      BY <1>1, AckIs, WaitingIs
    <3>. QED  BY <3>1, AckIs DEF Access
  <2>. QED  BY <1>1, <2>1, <2>2 DEF Typed
<1>9. program_mem' \in [Addr -> Word]
  BY <1>1 DEF Cycle, Typed, OpType
<1>10. window' \in Seq(Access)
  BY <1>1, WindowMoves
<1>11. fu_lsq' \in [FU_LS -> FuType]
  BY FuMoves
<1>12. sq_head' \in SqIdx /\ sq_counter' \in 0 .. STORE_QUEUE_SIZE - 1
  BY RingMoves
<1>. QED
  BY <1>1, <1>3, <1>4, <1>5, <1>6, <1>7, <1>8, <1>9, <1>10, <1>11, <1>12
     DEF Typed

LEMMA CycleGood ==
  ASSUME LsqInd, NEW granted, NEW answers, NEW ack, NEW op,
         Inputs(granted, answers, ack, op), Cycle(granted, answers, ack, op)
  PROVE  LsqInd'
<1>1. RingInOrder'
  BY RingMoves, StoresMove DEF RingInOrder
<1>. QED
  BY <1>1, TypesMove, UnitsMove, HeadMoves, LoadsWaitMoves, ValuesMove DEF LsqInd

LEMMA SquashGood ==
  ASSUME LsqInd, Squash PROVE LsqInd'
<1>1. AllEmpty'
  BY DEF Squash, LsqStep, LqStep, SqStep, AllEmpty, LqReset, LsqInd, Typed
<1>2. AllEmpty' => LsqInd'
  BY EmptyGood, PTL
<1>. QED  BY <1>1, <1>2

LEMMA StutterGood ==
  ASSUME LsqInd, UNCHANGED systemVars PROVE LsqInd'
<1>. USE DEF systemVars, LsqInd
<1>1. Typed'
  BY DEF Typed
<1>2. Waiting' = Waiting
  BY DEF Waiting
<1>3. \A k : Rank(k)' = Rank(k) /\ Slot(k)' = Slot(k)
  BY <1>2 DEF Rank, Slot
<1>4. UnitsWork'
  BY <1>3 DEF UnitsWork, Works
<1>5. TakesHead'
  BY DEF TakesHead, Oldest
<1>6. RingInOrder'
  BY <1>2, <1>3 DEF RingInOrder, StoreWaits
<1>7. LoadsWait'
  BY <1>2, <1>3 DEF LoadsWait, LoadWaits, Works
<1>8. ValuesInOrder'
  BY <1>2 DEF ValuesInOrder, Finds
<1>. QED  BY <1>1, <1>4, <1>5, <1>6, <1>7, <1>8

\* A load knows which stores are in front of it, a store its slot, and the
\* stores that wait what the program has written: this holds in every state.
THEOREM LsqInductive == SystemSpec => []LsqInd
<1>1. LsqInd /\ [SystemCycle]_systemVars => LsqInd'
  <2> SUFFICES ASSUME LsqInd, [SystemCycle]_systemVars PROVE LsqInd'
    OBVIOUS
  <2>1. CASE Advance
    BY <2>1, AdvanceIs, CycleGood
  <2>2. CASE Squash
    BY <2>2, SquashGood
  <2>3. CASE UNCHANGED systemVars
    BY <2>3, StutterGood
  <2>. QED  BY <2>1, <2>2, <2>3 DEF SystemCycle
<1>. QED  BY <1>1, InitGood, PTL DEF SystemSpec

-----------------------------------------------------------------------------
(* What the invariant says about the properties of LsqSystem.              *)

LEMMA RingIs == LsqInd => RingIsStoresInOrder
BY DEF LsqInd, RingInOrder, StoreWaits, RingIsStoresInOrder

LEMMA TypeIs == LsqInd => LsqTypeOK
<1> SUFFICES ASSUME LsqInd PROVE LsqTypeOK
  OBVIOUS
<1>1. Typed /\ RingInOrder
  BY DEF LsqInd
<1>2. sq_tail \in SqIdx
  BY <1>1, SlotIs, 0 \in Int
<1>3. \A i \in FU_LS : lq_entries[i] \in LoadType
  BY <1>1 DEF Typed
<1>4. \A j \in SqIdx : sq_entries[j] \in StoreType
  BY <1>1 DEF Typed
<1>. QED  BY <1>1, <1>2, <1>3, <1>4 DEF LsqTypeOK, Typed, LoadType, StoreType

LEMMA SearchIs == LsqInd => SearchIsOlderStores
<1> SUFFICES ASSUME LsqInd, NEW k \in DOMAIN window, ~window[k].store,
                    ~window[k].finished,
                    lq_entries[window[k].unit].sq_pos # NO_SQ_POS
             PROVE  LET pos == lq_entries[window[k].unit].sq_pos
                    IN  \/ pos = sq_head /\ sq_rob_valid /\ sq_retire /\ Rank(k) = 0
                        \/ Before(pos) = {Slot(m) : m \in {n \in Waiting : n < k}}
  BY DEF SearchIsOlderStores
<1> DEFINE i == window[k].unit
           pos == lq_entries[i].sq_pos
<1>1. /\ Typed /\ RingInOrder /\ k \in Int /\ window[k] \in Access /\ i \in FU_LS
  BY WaitingIs DEF LsqInd, Access
<1>2. pos = Slot(k) /\ (Rank(k) = 0 => sq_rob_valid) /\ Rank(k) \in Nat
  <2>1. LoadWaits(k, i)
    BY <1>1 DEF LsqInd, LoadsWait, Works
  <2>. QED  BY <1>1, <2>1, RankIs DEF LoadWaits
<1> HIDE DEF i, pos
<1>3. CASE Rank(k) = 0
  <2>1. pos = sq_head /\ sq_rob_valid
    BY <1>1, <1>2, <1>3, LimitIs
  <2>2. sq_retire
    BY <2>1 DEF LsqInd, TakesHead, sq_retire
  <2>. QED  BY <1>3, <2>1, <2>2 DEF i, pos
<1>4. CASE Rank(k) # 0
  <2>1. Rank(k) >= 1
    BY <1>2, <1>4
  <2>2. Before(Slot(k)) = {Slot(m) : m \in {n \in Waiting : n < k}}
    BY <1>1, <2>1, SearchedAre
  <2>. QED  BY <1>2, <2>2 DEF i, pos
<1>. QED  BY <1>3, <1>4

LEMMA LoadsSee == LsqInd => LoadsSeeProgramOrder
<1> SUFFICES ASSUME LsqInd, NEW k \in DOMAIN window, ~window[k].store,
                    ~window[k].finished, lq_retire_valid[window[k].unit]
             PROVE  lq_value[window[k].unit] = window[k].value
  BY DEF LoadsSeeProgramOrder
<1>1. window[k].unit \in FU_LS
  BY WaitingIs DEF LsqInd, Access
<1>. QED  BY <1>1 DEF LsqInd, LoadsWait, LoadWaits, Works

\* The latest of the waiting stores to an address is the one that is found
\* behind the last of the window.
LEMMA StoresReach == LsqInd => EveryStoreReachesMemoryOnce
<1> SUFFICES ASSUME LsqInd, NEW a \in Addr
             PROVE  program_mem[a] = IF Pending(a) = {} THEN mem[a]
                                     ELSE window[Latest(Pending(a))].value
  BY DEF EveryStoreReachesMemoryOnce
<1> DEFINE k == Len(window) + 1
<1>1. /\ Typed /\ Finds(k, a, program_mem[a])
      /\ \A m \in Waiting : m \in Int /\ m < k
  <2>1. Typed /\ Finds(k, a, program_mem[a])
    BY DEF LsqInd, ValuesInOrder
  <2>2. /\ Len(window) \in Nat /\ \A m \in Waiting : m \in 1 .. Len(window)
    BY <2>1, WaitingIs
  <2>. QED  BY <2>1, <2>2
<1> HIDE DEF k
<1>2. CASE \A m \in Waiting : window[m].addr # a
  <2>1. Pending(a) = {}
    BY <1>2 DEF Pending
  <2>. QED  BY <1>1, <1>2, <2>1 DEF Finds
<1>3. CASE ~\A m \in Waiting : window[m].addr # a
  <2>1. PICK m \in Waiting :
          /\ window[m].addr = a /\ program_mem[a] = window[m].value
          /\ \A n \in Waiting : m < n => window[n].addr # a
    BY <1>1, <1>3 DEF Finds
  <2>2. /\ m \in Pending(a)
        /\ \A n \in Pending(a) : n \in Int /\ m \in Int /\ n <= m
    BY <1>1, <2>1 DEF Pending
  <2>3. Latest(Pending(a)) = m
    <3>1. \A x \in Pending(a) :
            (\A n \in Pending(a) : n <= x) => x = m
      BY <2>2
    <3>2. \E x \in Pending(a) : \A n \in Pending(a) : n <= x
      BY <2>2
    <3>. QED  BY <3>1, <3>2 DEF Latest
  <2>. QED  BY <2>1, <2>2, <2>3
<1>. QED  BY <1>2, <1>3

LEMMA LoadsStayBehind == LsqInd => LoadsDoNotOvertakeStores
<1> SUFFICES ASSUME LsqInd, lsq_load_dc.valid
             PROVE  \E k \in DOMAIN window :
                      /\ window[k].unit = lq_selection /\ ~window[k].finished
                      /\ ~\E m \in Waiting :
                            m < k /\ window[m].addr = window[k].addr
  BY DEF LoadsDoNotOvertakeStores
<1>1. /\ lq_selection \in FU_LS
      /\ lq_entries[lq_selection].valid /\ ~lq_retire_valid[lq_selection]
      /\ lq_entries[lq_selection].sq_pos = NO_SQ_POS
  BY DEF LsqInd, Typed, lsq_load_dc, Asks
<1>2. PICK k \in DOMAIN window : Works(k, lq_selection) /\ ~window[k].store
  BY <1>1 DEF LsqInd, LoadsWait
<1>3. LoadWaits(k, lq_selection)
  BY <1>1, <1>2 DEF LsqInd, LoadsWait
<1>. QED  BY <1>1, <1>2, <1>3 DEF LoadWaits, Works

\* The ring of stores is typed, and the waiting stores lie in it in program
\* order, from the head on: the pointers and the counter of lsq.sv wrap, are
\* used full and empty, and move by a store dispatched and one taken at once.
THEOREM RingCorrect == SystemSpec => []LsqInv
<1>1. LsqInd => LsqInv
  BY TypeIs, RingIs DEF LsqInv
<1>. QED  BY <1>1, LsqInductive, PTL

\* A load that searches the store queue looks at exactly the slots of the
\* stores older than it, wherever the ring has wrapped since.
THEOREM SearchCorrect == SystemSpec => []SearchIsOlderStores
BY SearchIs, LsqInductive, PTL

\* Every load returns what program order says, whether the store it depends on
\* has no address yet, waits in the queue, is being taken, or is in memory.
THEOREM LoadsCorrect == SystemSpec => []LoadsSeeProgramOrder
BY LoadsSee, LsqInductive, PTL

\* Memory and the waiting stores together are what the program has written:
\* no store is lost, taken twice, or taken out of order.
THEOREM StoresCorrect == SystemSpec => []EveryStoreReachesMemoryOnce
BY StoresReach, LsqInductive, PTL

\* No load is sent to the data cache past an older store to its word.
THEOREM RequestsCorrect == SystemSpec => []LoadsDoNotOvertakeStores
BY LoadsStayBehind, LsqInductive, PTL
=============================================================================
