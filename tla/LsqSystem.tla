------------------------------ MODULE LsqSystem ------------------------------
(***************************************************************************)
(* The load/store queue between the components that drive it: the          *)
(* reservation stations dispatch at most one memory instruction per cycle  *)
(* (rs_2.sv), the load/store units announce addresses as operands arrive   *)
(* and give their stations back when a bus is granted (fu_ls.sv), the      *)
(* reorder buffer retires in order and squashes (rob_2.sv), and the data   *)
(* cache answers when it can.  The memory instructions in flight are kept  *)
(* in program order in `window'; each knows from the start the address     *)
(* that its unit will compute, and a load the value it has to return.      *)
(***************************************************************************)
EXTENDS Lsq, Sequences, FiniteSets

CONSTANTS
  WINDOW,       \* most memory instructions in flight (ROB_SIZE bounds it)
  BUSES,        \* results per cycle
  Holds         \* for every address the values its word takes

ASSUME LsqSystemAssumption ==
  /\ IsFiniteSet(FU_LS)
  /\ WINDOW \in Nat \ {0} /\ BUSES \in Nat \ {0}
  /\ Holds \in [Addr -> (SUBSET Word) \ {{}}]

VARIABLES
  mem,          \* what the data cache holds
  program_mem,  \* the memory after every store in flight
  window,       \* [store, unit, addr, value, finished], oldest first
  fu_lsq        \* what the units tell the queue

systemVars ==
  <<lq_entries, lq_retire_valid, lq_value, lq_selection, sq_entries, sq_head,
    sq_tail, sq_counter, sq_rob_valid, mem, program_mem, window, fu_lsq>>

Quiet == [valid |-> FALSE, load |-> FALSE, store |-> FALSE, addr |-> 0,
          value |-> 0, mem_size |-> 0, sq_pos |-> 0]

SystemInit ==
  /\ LsqInit
  /\ mem = [a \in Addr |-> CHOOSE v \in Holds[a] : TRUE]
  /\ program_mem = mem
  /\ window = <<>>
  /\ fu_lsq = [i \in FU_LS |-> Quiet]

Oldest == window[1]
Busy == {i \in FU_LS : \E k \in DOMAIN window :
                         window[k].unit = i /\ ~window[k].finished}

\* The reorder buffer shows a store that has executed at its head.  (Other
\* instructions in front of it only delay its result.)
sq_retire == window # <<>> /\ Oldest.store /\ Oldest.finished

\* The oldest leaves: a load when it has its result, a store when the cache
\* has taken it.
Leaves == window # <<>> /\ Oldest.finished /\ (Oldest.store => sq_rob_valid)

\* A result on offer (fu_result_valid of fu_ls.sv).
Offers(i) == fu_lsq[i].valid /\ (fu_lsq[i].store \/ lq_retire_valid[i])

\* The queue never looks at a value: a store writes one that differs from
\* the last one in program order, if its word takes another.
Fresh(a) ==
  IF Holds[a] = {program_mem[a]} THEN program_mem[a]
  ELSE CHOOSE v \in Holds[a] : v # program_mem[a]

\* A memory instruction that can be dispatched, and none.
NoOp == [valid |-> FALSE, load |-> FALSE, store |-> FALSE, idx |-> 0,
         addr |-> 0, value |-> 0]

Dispatchable(free) ==
  {NoOp} \cup
  (IF free = {} \/ Len(window) = WINDOW THEN {}
   ELSE LET i == CHOOSE x \in free : \A y \in free : x <= y
        IN  {[valid |-> TRUE, load |-> TRUE, store |-> FALSE, idx |-> i,
              addr |-> a, value |-> program_mem[a]] : a \in Addr}
            \cup
            {[valid |-> TRUE, load |-> FALSE, store |-> TRUE, idx |-> i,
              addr |-> a, value |-> Fresh(a)] :
               a \in IF storeq_full THEN {} ELSE Addr})

\* The data cache: the value of the load of the cycle, if it answers.
Reply(answers) ==
  [valid |-> answers, value |-> mem[lsq_load_dc.addr]]

Remember(op) ==
  [store |-> op.store, unit |-> op.idx, addr |-> op.addr,
   value |-> op.value, finished |-> FALSE]

NextWindow(granted, op) ==
  LET done == [k \in DOMAIN window |->
                 [window[k] EXCEPT !.finished = @ \/ window[k].unit \in granted]]
      kept == IF Leaves THEN Tail(done) ELSE done
  IN  IF op.valid THEN Append(kept, Remember(op)) ELSE kept

\* The unit that is dispatched to, the units whose operands arrive, and the
\* units that are done.
NextFu(granted, op, arrive) ==
  [i \in FU_LS |->
     IF op.valid /\ op.idx = i
     THEN [valid |-> i \in arrive, load |-> op.load, store |-> op.store,
           addr |-> op.addr, value |-> op.value, mem_size |-> 0,
           sq_pos |-> IF op.store THEN sq_tail ELSE storeq_tail]
     ELSE IF i \in granted THEN Quiet
     ELSE [fu_lsq[i] EXCEPT !.valid = @ \/ i \in arrive]]

\* A cycle in which nothing is squashed.
Advance ==
  \E granted \in {S \in SUBSET {i \in FU_LS : Offers(i)} :
                    Cardinality(S) <= BUSES},
     answers \in {FALSE, lsq_load_dc.valid},
     ack \in {FALSE, lsq_store_dc(sq_retire).valid} :
  \E op \in Dispatchable((FU_LS \ Busy) \cup granted) :
    /\ LsqStep(FALSE, op, fu_lsq, sq_retire, Reply(answers), ack)
    /\ mem' = IF ack THEN [mem EXCEPT ![lsq_store_dc(sq_retire).addr] =
                             lsq_store_dc(sq_retire).value]
              ELSE mem
    /\ program_mem' = IF op.valid /\ op.store
                      THEN [program_mem EXCEPT ![op.addr] = op.value]
                      ELSE program_mem
    /\ window' = NextWindow(granted, op)
    /\ \E arrive \in SUBSET (Busy \cup (IF op.valid THEN {op.idx} ELSE {})) :
         fu_lsq' = NextFu(granted, op, arrive)

\* A mispredicted branch retires: alone, or right behind the oldest memory
\* instruction.  A store that waits at the head waits for the cache, and
\* nothing retires behind it.
Squash ==
  /\ sq_retire => Leaves
  /\ LsqStep(TRUE, NoOp, fu_lsq, sq_retire, Reply(FALSE), FALSE)
  /\ mem' = mem
  /\ program_mem' = mem
  /\ window' = <<>>
  /\ fu_lsq' = [i \in FU_LS |-> Quiet]

SystemCycle == Advance \/ Squash

SystemSpec == SystemInit /\ [][SystemCycle]_systemVars

-----------------------------------------------------------------------------
(* Properties.                                                             *)

LsqTypeOK ==
  /\ \A i \in FU_LS : /\ lq_entries[i].addr \in Addr
                      /\ lq_entries[i].sq_pos \in 0 .. NO_SQ_POS
  /\ lq_retire_valid \in [FU_LS -> BOOLEAN]
  /\ lq_value \in [FU_LS -> Word]
  /\ lq_selection \in FU_LS
  /\ \A j \in SqIdx : /\ sq_entries[j].addr \in Addr
                      /\ sq_entries[j].value \in Word
  /\ sq_head \in SqIdx /\ sq_tail \in SqIdx
  /\ sq_counter \in 0 .. STORE_QUEUE_SIZE - 1
  /\ sq_rob_valid \in BOOLEAN

\* A load returns what the program order of the memory instructions says:
\* the youngest older store to its word, whether that store has no address
\* yet, waits in the queue, is on its way to the cache, or has left; and no
\* younger one, wherever the ring wraps.
LoadsSeeProgramOrder ==
  \A k \in DOMAIN window :
    LET e == window[k]
    IN  ~e.store /\ ~e.finished /\ fu_lsq[e.unit].valid
          /\ lq_retire_valid[e.unit] => lq_value[e.unit] = e.value

\* The stores in flight that the cache has not taken, oldest first.
Waiting == {k \in DOMAIN window : window[k].store /\ ~(k = 1 /\ sq_rob_valid)}
Rank(k) == Cardinality({m \in Waiting : m < k})
Slot(k) == (sq_head + Rank(k)) % STORE_QUEUE_SIZE

\* A load that still searches the store queue searches the slots of exactly
\* the stores older than it.  (In the cycle after the last of them has left,
\* its limit equals the head, which the source reads as the whole ring: the
\* retirement signal of that very cycle moves the limit first.)
SearchIsOlderStores ==
  \A k \in DOMAIN window :
    LET e == window[k]
        pos == lq_entries[e.unit].sq_pos
    IN  ~e.store /\ ~e.finished /\ pos # NO_SQ_POS =>
          \/ pos = sq_head /\ sq_rob_valid /\ sq_retire /\ Rank(k) = 0
          \/ Before(pos) = {Slot(m) : m \in {n \in Waiting : n < k}}

\* The queue holds the waiting stores in program order, the rest of the ring
\* is empty, and a store that reports to the bus has been filled in: the
\* retirement that follows finds its address.
RingIsStoresInOrder ==
  /\ sq_counter = Cardinality(Waiting)
  /\ sq_tail = (sq_head + sq_counter) % STORE_QUEUE_SIZE
  /\ \A j \in SqIdx : sq_entries[j].filled => \E k \in Waiting : Slot(k) = j
  /\ \A k \in Waiting :
       /\ sq_entries[Slot(k)].filled =>
            /\ sq_entries[Slot(k)].addr = window[k].addr
            /\ sq_entries[Slot(k)].value = window[k].value
       /\ window[k].finished => sq_entries[Slot(k)].filled

\* The ring is typed and in program order.
LsqInv == LsqTypeOK /\ RingIsStoresInOrder

\* The cache takes a store once, and in program order: memory and the stores
\* that still wait make up the memory the program has written.
Pending(a) == {k \in Waiting : window[k].addr = a}
Latest(S) == CHOOSE k \in S : \A m \in S : m <= k

EveryStoreReachesMemoryOnce ==
  \A a \in Addr :
    program_mem[a] = IF Pending(a) = {} THEN mem[a]
                     ELSE window[Latest(Pending(a))].value

\* What the cache is asked to load is not on its way to it: no older store
\* to the same word is still in the queue.
LoadsDoNotOvertakeStores ==
  lsq_load_dc.valid =>
    \E k \in DOMAIN window :
      /\ window[k].unit = lq_selection /\ ~window[k].finished
      /\ ~\E m \in Waiting : m < k /\ window[m].addr = window[k].addr
=============================================================================
