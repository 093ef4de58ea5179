------------------------------ MODULE DCacheMem ------------------------------
(***************************************************************************)
(* The data cache (verilog/dcache_l2.sv) with the arbiter of pipeline.sv   *)
(* and the memory behind it (testbench/mem.sv).                            *)
(*                                                                         *)
(* The cache is write-through and two-way set associative, with a small    *)
(* victim cache and a table of misses.  One block of combinational logic   *)
(* does, in this order: fill the line that memory returns, look up the     *)
(* load of the cycle, look up the store of the cycle, offer one request.   *)
(*                                                                         *)
(* The memory works on the falling edge.  So the logic settles twice in a  *)
(* clock cycle: before the falling edge, on what memory returned in the    *)
(* last cycle, and after it, on what it returns in this one.  The memory   *)
(* accepts the request of the first half; the registers take the state of  *)
(* the second.                                                             *)
(*                                                                         *)
(* A line holds one value: the bytes, halves and words of a line play no   *)
(* part in the control.                                                    *)
(***************************************************************************)
EXTENDS Integers, Sequences

CONSTANTS
  Line,         \* line addresses
  Stored,       \* the lines the stores of the run go to
  NoLine,       \* what an invalid entry holds, not in Line
  Set, SetOf,   \* the sets of two ways, and the set of every line
  VICTIMS,      \* entries of the victim cache
  MISS_LINES,   \* entries of the miss table
  NUM_MEM_TAGS, \* transactions of the memory
  Data,         \* contents of a line of data
  Instr,        \* the content of a line of text, not in Data
  Steady        \* TRUE: leave out the cycles in which the request of the
                \* second half is not the one the memory has accepted

ASSUME DCacheAssumption ==
  /\ NoLine \notin Line /\ Line # {} /\ Stored \subseteq Line
  /\ SetOf \in [Line -> Set] /\ VICTIMS \in Nat \ {0}
  /\ MISS_LINES \in Nat \ {0} /\ NUM_MEM_TAGS \in Nat \ {0}
  /\ 0 \in Data /\ Instr \notin Data /\ Steady \in BOOLEAN

VARIABLES
  ways,         \* per set the two ways, most recently filled or used last
  victim,       \* the victim cache
  victim_head,  \* the next victim to replace
  miss_entries, \* the miss table
  memory,       \* unified_memory of mem.sv
  in_flight,    \* accepted transactions, oldest first
  bus,          \* mem2proc_tag and mem2proc_data
  lsq_load_dc,  \* the load of the cycle: [valid, line]
  lsq_store_dc, \* the store of the cycle: [valid, line, value]
  coherent      \* history: every line after the stores the cache has taken

cacheVars == <<ways, victim, victim_head, miss_entries>>
dcacheVars ==
  <<ways, victim, victim_head, miss_entries, memory, in_flight, bus,
    lsq_load_dc, lsq_store_dc, coherent>>

VictimIdx == 0 .. VICTIMS - 1
MissIdx == 0 .. MISS_LINES - 1
MemTag == 1 .. NUM_MEM_TAGS     \* 0: no transaction

NoBlock == [valid |-> FALSE, line |-> NoLine, data |-> 0]
Block(l, d) == [valid |-> TRUE, line |-> l, data |-> d]
NoMiss == [valid |-> FALSE, sent |-> FALSE, tag |-> 0, line |-> NoLine,
           value |-> 0, op |-> "load"]
Miss(l, v, op) == [valid |-> TRUE, sent |-> FALSE, tag |-> 0, line |-> l,
                   value |-> v, op |-> op]

NoLoad == [valid |-> FALSE, line |-> NoLine]
NoStore == [valid |-> FALSE, line |-> NoLine, value |-> 0]
NoBus == [tag |-> 0, data |-> 0]

DCacheInit ==
  /\ ways = [s \in Set |-> <<NoBlock, NoBlock>>]
  /\ victim = [i \in VictimIdx |-> NoBlock]
  /\ victim_head = 0
  /\ miss_entries = [i \in MissIdx |-> NoMiss]
  /\ memory = [l \in Line |-> 0]
  /\ in_flight = <<>>
  /\ bus = NoBus
  /\ lsq_load_dc = NoLoad
  /\ lsq_store_dc = NoStore
  /\ coherent = memory

-----------------------------------------------------------------------------
(* The combinational logic, as a series of functions of a record c of the  *)
(* next_ values: [ways, victim, head, miss].                               *)

Lowest(S) == CHOOSE i \in S : \A j \in S : i <= j

\* Where line l is.
Way(c, l, k) == c.ways[SetOf[l]][k].valid /\ c.ways[SetOf[l]][k].line = l
VictimsOf(c, l) == {i \in VictimIdx : c.victim[i].valid /\ c.victim[i].line = l}

Hit(c, l) == Way(c, l, 1) \/ Way(c, l, 2) \/ VictimsOf(c, l) # {}

DataOf(c, l) ==
  IF Way(c, l, 1) THEN c.ways[SetOf[l]][1].data
  ELSE IF Way(c, l, 2) THEN c.ways[SetOf[l]][2].data
  ELSE c.victim[Lowest(VictimsOf(c, l))].data

\* Mutation: a store that hits the second way does not write it.
TouchUnwritten(c, l, d) ==
  LET s == SetOf[l]
      i == Lowest(VictimsOf(c, l))
  IN  IF Way(c, l, 1) THEN [c EXCEPT !.ways[s][1] = Block(l, d)]
      ELSE IF Way(c, l, 2)
      THEN [c EXCEPT !.ways[s] = <<@[2], @[1]>>]
      ELSE [c EXCEPT !.ways[s] = <<Block(l, d), @[1]>>,
                     !.victim[i] = c.ways[s][2],
                     !.head = IF c.ways[s][2].valid THEN (i + 1) % VICTIMS
                              ELSE i]

\* A hit leaves the line, with content d, in the first way; what was in the
\* second one takes the place of a hit in the victim cache.
Touch(c, l, d) ==
  LET s == SetOf[l]
      i == Lowest(VictimsOf(c, l))
  IN  IF Way(c, l, 1) THEN [c EXCEPT !.ways[s][1] = Block(l, d)]
      ELSE IF Way(c, l, 2)
      THEN [c EXCEPT !.ways[s] = <<Block(l, d), @[1]>>]
      ELSE [c EXCEPT !.ways[s] = <<Block(l, d), @[1]>>,
                     !.victim[i] = c.ways[s][2],
                     !.head = IF c.ways[s][2].valid THEN (i + 1) % VICTIMS
                              ELSE i]

\* Mutation: stores stay in the table when they have been sent.
NoneDropped == miss_entries

\* A store that has been sent leaves the table.
Dropped ==
  [i \in MissIdx |->
     IF /\ miss_entries[i].valid /\ miss_entries[i].sent
        /\ miss_entries[i].op = "store"
     THEN NoMiss ELSE miss_entries[i]]

\* The entries the returned tag belongs to.
Returned(b) ==
  {i \in MissIdx : /\ b.tag # 0
                   /\ Dropped[i].valid /\ Dropped[i].sent
                   /\ Dropped[i].tag = b.tag}

\* The line that memory returns goes into the first way; the second way
\* goes to the victim cache, over the victim at its head.
Insert(c, l, d) ==
  LET s == SetOf[l]
      old == c.ways[s]
  IN  IF ~old[1].valid THEN [c EXCEPT !.ways[s][1] = Block(l, d)]
      ELSE IF ~old[2].valid
      THEN [c EXCEPT !.ways[s] = <<Block(l, d), old[1]>>]
      ELSE [c EXCEPT !.ways[s] = <<Block(l, d), old[1]>>,
                     !.victim[c.head] = old[2],
                     !.head = (@ + 1) % VICTIMS]

Fill(b) ==
  LET c == [ways |-> ways, victim |-> victim, head |-> victim_head,
            miss |-> Dropped]
      i == Lowest(Returned(b))
  IN  IF Returned(b) = {} THEN c
      ELSE Insert([c EXCEPT !.miss[i].valid = FALSE],
                  Dropped[i].line, b.data)

FilledLine(b) ==
  IF Returned(b) = {} THEN {} ELSE {Dropped[Lowest(Returned(b))].line}

Free(c) == {i \in MissIdx : ~c.miss[i].valid}

Fetching(c, l) ==
  \E i \in MissIdx : /\ c.miss[i].valid /\ c.miss[i].line = l
                     /\ c.miss[i].op = "load"

\* Mutation: a line is asked for as long as it is missed.
AskAgain(c, l) ==
  IF Free(c) = {} THEN c
  ELSE [c EXCEPT !.miss[Lowest(Free(c))] = Miss(l, 0, "load")]

\* A line that is missed is asked for once, if the table has room.
Ask(c, l) ==
  IF Fetching(c, l) \/ Free(c) = {} THEN c
  ELSE [c EXCEPT !.miss[Lowest(Free(c))] = Miss(l, 0, "load")]

AfterLoad(c) ==
  IF ~lsq_load_dc.valid THEN c
  ELSE IF Hit(c, lsq_load_dc.line)
  THEN Touch(c, lsq_load_dc.line, DataOf(c, lsq_load_dc.line))
  ELSE Ask(c, lsq_load_dc.line)

\* A store that hits is written to the cache and goes to the table: over a
\* store to the same line that has not been sent, or into a free entry.
Merges(c) ==
  {i \in MissIdx : /\ c.miss[i].valid /\ ~c.miss[i].sent
                   /\ c.miss[i].line = lsq_store_dc.line
                   /\ c.miss[i].op = "store"}

Tabled(c) ==
  IF Merges(c) # {}
  THEN [c EXCEPT !.miss[Lowest(Merges(c))].value = lsq_store_dc.value]
  ELSE IF Free(c) # {}
  THEN [c EXCEPT !.miss[Lowest(Free(c))] =
          Miss(lsq_store_dc.line, lsq_store_dc.value, "store")]
  ELSE c

\* The store waits while its line is being filled.
StoreLooksUp(b) ==
  lsq_store_dc.valid /\ lsq_store_dc.line \notin FilledLine(b)

AfterStore(c, b) ==
  IF ~StoreLooksUp(b) THEN c
  ELSE IF Hit(c, lsq_store_dc.line)
  THEN Tabled(Touch(c, lsq_store_dc.line, lsq_store_dc.value))
  ELSE Ask(c, lsq_store_dc.line)

\* The state in which the logic settles when the memory shows b.
Settled(b) == AfterStore(AfterLoad(Fill(b)), b)

StoreTabled(b) ==
  LET c == AfterLoad(Fill(b))
  IN  /\ StoreLooksUp(b) /\ Hit(c, lsq_store_dc.line)
      /\ Merges(c) \cup Free(c) # {}

\* The entry that is offered to memory: stores before loads.
Unsent(c, op) ==
  {i \in MissIdx : c.miss[i].valid /\ ~c.miss[i].sent /\ c.miss[i].op = op}

Offered(c) ==
  IF Unsent(c, "store") # {} THEN {Lowest(Unsent(c, "store"))}
  ELSE IF Unsent(c, "load") # {} THEN {Lowest(Unsent(c, "load"))}
  ELSE {}

\* The request on the bus: of the data cache, else of the instruction cache
\* if it has one (ifetch), else none.
Nothing == [op |-> "none", line |-> NoLine, value |-> 0]

ToMem(c, ifetch) ==
  IF Offered(c) # {}
  THEN LET e == c.miss[Lowest(Offered(c))]
       IN  [op |-> e.op, line |-> e.line, value |-> e.value]
  ELSE IF ifetch THEN [Nothing EXCEPT !.op = "ifetch"]
  ELSE Nothing

-----------------------------------------------------------------------------
(* The memory, on the falling edge.  A transaction takes a number of       *)
(* cycles; the bus returns one line per cycle, in the order of acceptance. *)

FreeTags == MemTag \ {in_flight[k].tag : k \in DOMAIN in_flight}

\* mem2proc_response: the tag of the request, 0 when there is none free.
Response(req) ==
  IF req.op = "none" \/ FreeTags = {} THEN 0 ELSE Lowest(FreeTags)

Transaction(req) ==
  [tag |-> Response(req), op |-> req.op, line |-> req.line,
   data |-> IF req.op = "load" THEN memory[req.line] ELSE Instr]

\* The oldest transaction ends: a load puts its line on the bus.
NextBus(ends) ==
  IF ends /\ Head(in_flight).op # "store"
  THEN [tag |-> Head(in_flight).tag, data |-> Head(in_flight).data]
  ELSE NoBus

MemoryStep(req, ends) ==
  LET left == IF ends THEN Tail(in_flight) ELSE in_flight
  IN  /\ in_flight' = IF Response(req) = 0 THEN left
                      ELSE Append(left, Transaction(req))
      /\ memory' = IF Response(req) # 0 /\ req.op = "store"
                   THEN [memory EXCEPT ![req.line] = req.value] ELSE memory
      /\ bus' = NextBus(ends)

-----------------------------------------------------------------------------
(* The clock cycle.                                                        *)

\* Mutation: an entry counts as sent when it has been offered.
SentWhenOffered(c, resp) ==
  [i \in MissIdx |->
     IF i \in Offered(c) THEN [c.miss[i] EXCEPT !.sent = TRUE, !.tag = resp]
     ELSE c.miss[i]]

\* The entry on offer in the second half takes the response for its own.
Sent(c, resp) ==
  [i \in MissIdx |->
     IF i \in Offered(c) THEN [c.miss[i] EXCEPT !.sent = resp # 0, !.tag = resp]
     ELSE c.miss[i]]

\* Mutation: a store is acknowledged while it waits to be sent.
AcknowledgedEarly(b, miss) == StoreTabled(b)

\* The store is acknowledged when no store is left to send.
Acknowledged(b, miss) ==
  /\ StoreTabled(b)
  /\ \A i \in MissIdx : miss[i].valid /\ miss[i].op = "store" => miss[i].sent

\* The load of the cycle is answered, and with what.
Answered(b) == lsq_load_dc.valid /\ Hit(Fill(b), lsq_load_dc.line)

Answer(b) == DataOf(Fill(b), lsq_load_dc.line)

\* The load/store queue keeps a request until it is answered; a load may go
\* away in a squash.  A store of what the line holds anyway would show
\* nothing.
NextLoad(answered) ==
  lsq_load_dc' \in {NoLoad} \cup
    (IF lsq_load_dc.valid /\ ~answered THEN {lsq_load_dc}
     ELSE {[valid |-> TRUE, line |-> l] : l \in Line})

NextStore(acked) ==
  lsq_store_dc' \in
    IF lsq_store_dc.valid
    THEN IF acked THEN {NoStore} ELSE {lsq_store_dc}
    ELSE {NoStore} \cup UNION {{[valid |-> TRUE, line |-> l, value |-> v] :
                                  v \in Data \ {coherent[l]}} : l \in Stored}

DCacheCycle ==
  \E ifetch \in BOOLEAN, ends \in {FALSE, in_flight # <<>>} :
    LET req == ToMem(Settled(bus), ifetch)
        after == NextBus(ends)
        c == Settled(after)
        miss == Sent(c, Response(req))
        acked == Acknowledged(after, miss)
    IN  /\ Steady => ToMem(c, ifetch) = req
        /\ MemoryStep(req, ends)
        /\ ways' = c.ways
        /\ victim' = c.victim
        /\ victim_head' = c.head
        /\ miss_entries' = miss
        /\ coherent' = IF acked
                       THEN [coherent EXCEPT ![lsq_store_dc.line] =
                               lsq_store_dc.value]
                       ELSE coherent
        /\ NextLoad(Answered(after))
        /\ NextStore(acked)

DCacheSpec == DCacheInit /\ [][DCacheCycle]_dcacheVars

-----------------------------------------------------------------------------
(* Properties.                                                             *)

DCacheTypeOK ==
  /\ \A s \in Set, k \in 1 .. 2 : ways[s][k].data \in Data
  /\ \A i \in VictimIdx : victim[i].data \in Data
  /\ victim_head \in VictimIdx
  /\ \A i \in MissIdx : miss_entries[i].tag \in 0 .. NUM_MEM_TAGS
  /\ memory \in [Line -> Data]
  /\ Len(in_flight) <= NUM_MEM_TAGS

\* A line has one copy: in a way of its set or in the victim cache, or on its
\* way from memory, never two of these.
Copies(l) ==
  {<<"way", k>> : k \in {x \in 1 .. 2 : /\ ways[SetOf[l]][x].valid
                                        /\ ways[SetOf[l]][x].line = l}}
  \cup {<<"victim", i>> : i \in {x \in VictimIdx : victim[x].valid
                                                    /\ victim[x].line = l}}
  \cup {<<"miss", i>> : i \in {x \in MissIdx : /\ miss_entries[x].valid
                                                /\ miss_entries[x].op = "load"
                                                /\ miss_entries[x].line = l}}

OneCopy == \A l \in Line : \A x, y \in Copies(l) : x = y

\* The cache and its table are typed, and a line has one copy in them.
DCacheInv == DCacheTypeOK /\ OneCopy

\* An entry marked as sent (sys_defs.svh: "whether the message has been sent
\* to memory") has a transaction of its own under its tag.
SentMeansInFlight ==
  \A i \in MissIdx :
    LET e == miss_entries[i]
    IN  e.valid /\ e.sent /\ e.op = "load" =>
          \E k \in DOMAIN in_flight :
            /\ in_flight[k].tag = e.tag /\ in_flight[k].op = "load"
            /\ in_flight[k].line = e.line

\* A store that the load/store queue has been told is done is in memory, and
\* no copy of its line is older: not the cached one, not one that a fetch
\* under way will bring.
PendingValue(l) ==
  IF lsq_store_dc.valid /\ lsq_store_dc.line = l THEN {lsq_store_dc.value}
  ELSE {}

May(l) == {coherent[l]} \cup PendingValue(l)

AckedStoresAreEverywhere ==
  /\ \A l \in Line : memory[l] \in May(l)
  /\ \A s \in Set, k \in 1 .. 2 :
       ways[s][k].valid => ways[s][k].data \in May(ways[s][k].line)
  /\ \A i \in VictimIdx :
       victim[i].valid => victim[i].data \in May(victim[i].line)
  /\ \A k \in DOMAIN in_flight :
       /\ in_flight[k].op = "load"
       /\ \E i \in MissIdx : miss_entries[i].valid /\ miss_entries[i].sent
                             /\ miss_entries[i].tag = in_flight[k].tag
       => in_flight[k].data \in May(in_flight[k].line)

\* Whether or not a line arrives in this cycle, the load is answered with what
\* the stores that are done have left in its line, or with the store that is
\* being done.
LoadsAreCoherent ==
  \A ends \in {FALSE, in_flight # <<>>} :
    Answered(NextBus(ends)) => Answer(NextBus(ends)) \in May(lsq_load_dc.line)

\* Having offered a request in the first half of a cycle, the cache offers one
\* in the second half: do_Ifetch of pipeline.sv does not rise, so that the
\* instruction cache never takes the response to a request of this cache for
\* its own (ICache assumes this).
RequestStands ==
  Offered(Settled(bus)) # {} =>
    \A ends \in {FALSE, in_flight # <<>>} : Offered(Settled(NextBus(ends))) # {}
=============================================================================
