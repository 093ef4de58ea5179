--------------------------------- MODULE Lsq ---------------------------------
(***************************************************************************)
(* The load and store queues of verilog/lsq.sv.  The load queue has one    *)
(* entry per load/store unit; the store queue is a ring in program order.  *)
(* A load remembers in sq_pos where the stores older than it end; it waits *)
(* until it has either taken the value of one of them or established that  *)
(* none holds its address, and only then asks the data cache.  A store     *)
(* goes to the data cache when it is at the head of the reorder buffer.    *)
(***************************************************************************)
EXTENDS Integers

CONSTANTS
  FU_LS,        \* the load/store units, which name the load queue entries
  STORE_QUEUE_SIZE,
  Addr, Word, Size  \* addresses, data, access sizes

ASSUME LsqAssumption ==
  /\ FU_LS \subseteq Nat /\ FU_LS # {}
  /\ STORE_QUEUE_SIZE \in Nat /\ STORE_QUEUE_SIZE >= 2
  /\ 0 \in Addr /\ 0 \in Word /\ 0 \in Size

VARIABLES
  lq_entries,       \* per unit: [addr, mem_size, valid, filled, sq_pos]
  lq_retire_valid,  \* per unit: the load has its value (lsq_fu[i].valid)
  lq_value,
  lq_selection,     \* the load that talks to the data cache
  sq_entries,       \* per slot: [addr, mem_size, filled, value]
  sq_head,
  sq_tail,
  sq_counter,
  sq_rob_valid      \* the cache took the store at the head last cycle

lqVars == <<lq_entries, lq_retire_valid, lq_value, lq_selection>>
sqVars == <<sq_entries, sq_head, sq_tail, sq_counter, sq_rob_valid>>
lsqVars == <<lqVars, sqVars>>

SqIdx == 0 .. STORE_QUEUE_SIZE - 1

\* No store that could matter is older.
NO_SQ_POS == STORE_QUEUE_SIZE

EmptyLoad == [addr |-> 0, mem_size |-> 0, valid |-> FALSE, filled |-> FALSE,
              sq_pos |-> 0]
EmptyStore == [addr |-> 0, mem_size |-> 0, filled |-> FALSE, value |-> 0]

LqReset ==
  [entries |-> [i \in FU_LS |-> EmptyLoad],
   retire_valid |-> [i \in FU_LS |-> FALSE],
   value |-> [i \in FU_LS |-> 0],
   selection |-> CHOOSE i \in FU_LS : \A j \in FU_LS : i <= j]

LsqInit ==
  /\ lq_entries = LqReset.entries
  /\ lq_retire_valid = LqReset.retire_valid
  /\ lq_value = LqReset.value
  /\ lq_selection = LqReset.selection
  /\ sq_entries = [j \in SqIdx |-> EmptyStore]
  /\ sq_head = 0
  /\ sq_tail = 0
  /\ sq_counter = 0
  /\ sq_rob_valid = FALSE

SqSucc(j) == IF j = STORE_QUEUE_SIZE - 1 THEN 0 ELSE j + 1

storeq_tail == IF sq_counter = 0 THEN NO_SQ_POS ELSE sq_tail
\* Mutation: the last slot is used too, so that a full ring looks empty.
storeq_all_full == sq_counter = STORE_QUEUE_SIZE

storeq_full == sq_counter = STORE_QUEUE_SIZE - 1

-----------------------------------------------------------------------------
(* The load queue.  disp is what rs_2 dispatches, [valid, load, store,     *)
(* idx]; fu[i] is what unit i computed, [valid, load, store, addr, value,  *)
(* mem_size, sq_pos].                                                      *)

LoadDispatched(disp, i) == disp.valid /\ disp.load /\ disp.idx = i

LoadComputed(fu, i) ==
  fu[i].valid /\ fu[i].load /\ lq_entries[i].valid /\ ~lq_entries[i].filled

\* Mutation: the retirement of a store is not told to the loads.
LoadEntryUntold(disp, fu, sq_retire, i) ==
  IF LoadDispatched(disp, i)
  THEN [addr |-> 0, mem_size |-> 0, valid |-> TRUE, filled |-> FALSE,
        sq_pos |-> storeq_tail]
  ELSE IF LoadComputed(fu, i)
  THEN [addr |-> fu[i].addr, mem_size |-> fu[i].mem_size, valid |-> TRUE,
        filled |-> TRUE, sq_pos |-> lq_entries[i].sq_pos]
  ELSE lq_entries[i]

\* The entry with its dispatch, its address, and what the retirement of a
\* store tells it.
LoadEntry(disp, fu, sq_retire, i) ==
  LET e == IF LoadDispatched(disp, i)
           THEN [addr |-> 0, mem_size |-> 0, valid |-> TRUE,
                 filled |-> FALSE, sq_pos |-> storeq_tail]
           ELSE IF LoadComputed(fu, i)
           THEN [addr |-> fu[i].addr, mem_size |-> fu[i].mem_size,
                 valid |-> TRUE, filled |-> TRUE,
                 sq_pos |-> lq_entries[i].sq_pos]
           ELSE lq_entries[i]
  IN  IF sq_retire /\ e.sq_pos = sq_head THEN [e EXCEPT !.sq_pos = NO_SQ_POS]
      ELSE e

StillDone(disp, fu, i) ==
  lq_retire_valid[i] /\ ~LoadDispatched(disp, i) /\ ~LoadComputed(fu, i)

\* The stores older than position p, in the order of the two loops of the
\* source: one span when p is behind the head in the array, two when the
\* ring has wrapped (or p is the head itself).
Before(p) ==
  IF p > sq_head THEN {j \in SqIdx : sq_head <= j /\ j < p}
  ELSE {j \in SqIdx : j < p \/ sq_head <= j}

\* Mutation: the search starts at the head of the ring.
DistanceFromHead(p, j) ==
  IF j >= sq_head THEN j - sq_head ELSE j - sq_head + STORE_QUEUE_SIZE

\* How far j is behind p in that order.
Distance(p, j) == IF j < p THEN p - j ELSE p - j + STORE_QUEUE_SIZE

SameWord(e, j) ==
  sq_entries[j].addr = e.addr /\ sq_entries[j].mem_size = e.mem_size

\* Mutation: a store without an address is passed by.
StopsAtMatch(e, j) == SameWord(e, j)

\* A store at which the search for load e ends: its address is not known
\* yet, or it is the load's.
Stops(e, j) == ~sq_entries[j].filled \/ SameWord(e, j)

Stop(e) ==
  {j \in Before(e.sq_pos) : /\ Stops(e, j)
                            /\ \A k \in Before(e.sq_pos) :
                                 Stops(e, k) => Distance(e.sq_pos, j)
                                                <= Distance(e.sq_pos, k)}

Searches(e, done) ==
  e.filled /\ ~done /\ e.valid /\ e.sq_pos # NO_SQ_POS

\* Ready to ask the data cache.
Asks(e, done) == e.sq_pos = NO_SQ_POS /\ e.valid /\ e.filled /\ ~done

\* The load request of the cycle.
lsq_load_dc ==
  [valid |-> Asks(lq_entries[lq_selection], lq_retire_valid[lq_selection]),
   addr |-> lq_entries[lq_selection].addr,
   mem_size |-> lq_entries[lq_selection].mem_size]

LqUpdate(disp, fu, sq_retire, reply) ==
  LET e == [i \in FU_LS |-> LoadEntry(disp, fu, sq_retire, i)]
      done0 == [i \in FU_LS |-> StillDone(disp, fu, i)]
      stop == [i \in FU_LS |-> IF Searches(e[i], done0[i])
                               THEN Stop(e[i]) ELSE {}]
      forwards(i) == \E j \in stop[i] : sq_entries[j].filled
      clear(i) == Searches(e[i], done0[i]) /\ stop[i] = {}
      answered(i) == reply.valid /\ i = lq_selection
      entry == [i \in FU_LS |->
                  IF clear(i) THEN [e[i] EXCEPT !.sq_pos = NO_SQ_POS]
                  ELSE e[i]]
      done == [i \in FU_LS |-> done0[i] \/ forwards(i) \/ answered(i)]
      asking == {i \in FU_LS : Asks(entry[i], done[i])}
  IN  /\ lq_entries' = entry
      /\ lq_retire_valid' = done
      /\ lq_value' = [i \in FU_LS |->
           IF answered(i) THEN reply.value
           ELSE IF forwards(i)
           THEN sq_entries[CHOOSE j \in stop[i] : TRUE].value
           ELSE lq_value[i]]
      /\ lq_selection' =
           IF lq_selection \in asking \/ asking = {} THEN lq_selection
           ELSE CHOOSE i \in asking : \A j \in asking : j <= i

LqStep(squash, disp, fu, sq_retire, reply) ==
  IF squash
  THEN /\ lq_entries' = LqReset.entries
       /\ lq_retire_valid' = LqReset.retire_valid
       /\ lq_value' = LqReset.value
       /\ lq_selection' = LqReset.selection
  ELSE LqUpdate(disp, fu, sq_retire, reply)

-----------------------------------------------------------------------------
(* The store queue.                                                        *)

\* Mutation: a refused store takes a slot.
StoreOffered(disp) == disp.store

StoreDispatched(disp) == disp.valid /\ disp.store

\* Mutation: the position of a load is taken for that of a store.
AnyComputed(fu, j) ==
  {i \in FU_LS : fu[i].valid /\ fu[i].sq_pos = j /\ ~sq_entries[j].filled}

\* The units that computed the store of slot j.
StoreComputed(fu, j) ==
  {i \in FU_LS : fu[i].valid /\ fu[i].store /\ fu[i].sq_pos = j
                 /\ ~sq_entries[j].filled}

\* The store request of the cycle: not again in the cycle in which the
\* answer to the last one reaches the reorder buffer.
lsq_store_dc(sq_retire) ==
  [valid |-> sq_entries[sq_head].filled /\ sq_retire /\ ~sq_rob_valid,
   addr |-> sq_entries[sq_head].addr,
   mem_size |-> sq_entries[sq_head].mem_size,
   value |-> sq_entries[sq_head].value]

SqUpdate(disp, fu, ack) ==
  /\ sq_tail' = IF StoreDispatched(disp) THEN SqSucc(sq_tail) ELSE sq_tail
  /\ sq_head' = IF ack THEN SqSucc(sq_head) ELSE sq_head
  /\ sq_counter' = sq_counter + (IF StoreDispatched(disp) THEN 1 ELSE 0)
                              - (IF ack THEN 1 ELSE 0)
  /\ sq_rob_valid' = ack
  /\ sq_entries' = [j \in SqIdx |->
       LET by == StoreComputed(fu, j)
           i == CHOOSE x \in by : \A y \in by : y <= x
       IN  IF by # {}
           THEN [addr |-> fu[i].addr, mem_size |-> fu[i].mem_size,
                 filled |-> TRUE, value |-> fu[i].value]
           ELSE IF ack /\ j = sq_head THEN EmptyStore
           ELSE sq_entries[j]]

\* Mutation: a squash resets the pointers and leaves the stores.
SquashKeepsStores(squash, disp, fu, ack) ==
  IF squash
  THEN /\ UNCHANGED sq_entries
       /\ sq_head' = 0
       /\ sq_tail' = 0
       /\ sq_counter' = 0
       /\ sq_rob_valid' = FALSE
  ELSE SqUpdate(disp, fu, ack)

SqStep(squash, disp, fu, ack) ==
  IF squash
  THEN /\ sq_entries' = [j \in SqIdx |-> EmptyStore]
       /\ sq_head' = 0
       /\ sq_tail' = 0
       /\ sq_counter' = 0
       /\ sq_rob_valid' = FALSE
  ELSE SqUpdate(disp, fu, ack)

LsqStep(squash, disp, fu, sq_retire, reply, ack) ==
  /\ LqStep(squash, disp, fu, sq_retire, reply)
  /\ SqStep(squash, disp, fu, ack)
=============================================================================
