# A TLA+ development of the 2-way superscalar P6 processor

The repository is the SystemVerilog of an out-of-order RV32IM core in the style
of the P6: instructions are renamed to entries of a reorder buffer, wait in
reservation stations, send results over two common data buses, and retire in
order, two per cycle. `src/sys_defs.svh` selects the two-way configuration
(`SS_2`, `BRANCH_MODE`, `CACHE_MODE`); the files this development is about are
those of that configuration, and lines 1061 to 1646 of `pipeline.sv`.

Beside the hardware the repository has C: the programs the processor is run
with (`src/test_progs/*.c`, with an allocator of their own, `tj_malloc.h`) and
the test bench's C and C++ (`src/testbench`: a visual debugger, the instruction
tables it and the pipeline printer use). They are modelled too: the programs
because they are what must run, and end, on the processor; the debugger because
it is a second process that talks to the simulation.

In the hardware all state changes on one clock edge, so the unit of atomicity
is the cycle: an action is what one `always_ff` block commits, with the
combinational logic in front of it as operators. What interleaves is inside the
cycle: two instructions are dispatched, two complete, two retire, a store
commits and a squash strikes on the same edge, each on values read before any
of the others. In the debugger an action is what a process does between two
operations on a pipe or two keys; in a program it is a step of a loop or a call.

## 1. Inventory

| Part (source) | State | Operations of a cycle | What must hold |
|---|---|---|---|
| Reorder buffer (`rob_2.sv`) | ring of entries, head, tail, count | dispatch 0-2, complete 0-2, retire 0-2, squash, name the early branch | occupancy kept three ways agrees; in-order retirement; a slot outside the window is clear; the early branch is the oldest one |
| Map table (`map_table_2.sv`) | per register a tag and a ready bit | look up 4 sources, rename 0-2, clear at retirement 0-2, mark ready 0-2, squash | names the youngest writer in flight |
| Register file (`regfile_2.sv`) | registers | write 0-2, read with the writes of the cycle | the registers of the sequential machine |
| Reservation stations (`rs_2.sv`) | stations, free bits | release, dispatch 0-2, capture from the buses, issue, squash | no result is missed; one station per entry that waits |
| Functional units (`fu_*.sv`, `fu_base_block.sv`) | working register, result register, step | load, wait for operands, compute, offer, free | the result of the instruction in the station |
| Selection (`fu_selector_2.sv`, `selector.sv`), buses (`cdb_2.sv`) | round-robin counters | two grants | every unit gets its turn |
| Load/store queue (`lsq.sv`) | load entries, ring of stores | dispatch, fill, search, ask the cache, commit, squash | loads see the older stores and no younger ones; stores commit once, in order |
| Front end (`dispatch_stage_2.sv`, `decoder.sv`) | PC, squash flag; packet registers in `pipeline.sv` | fetch a pair, refetch what was refused, redirect | each instruction of the path is dispatched once |
| Predictors (`npc_control_2.sv`, `dirp_local_2.sv`, `btb_2.sv`, `ras.sv`) | pattern table, targets, return stack | predict 2, train 2 | only speed depends on them |
| Instruction cache (`icache_l2.sv`) | lines, the window of requests | hit, prefetch, fill | gives the text; keeps a line that is refetched |
| Data cache (`dcache_l2.sv`) | ways, victims, table of misses | fill, load, store, offer a request | one copy of a line; coherent; an acknowledged store is in memory |
| Memory (`testbench/mem.sv`) | contents, transactions | accept one, return one, on the falling edge | (external to the core) |
| Visual debugger (`visual_c_hooks.cpp`, `visual_testbench.v`) | two pipes; a ring of the last edges; the place shown, the run under way | bench: dump an edge, wait for an answer; debugger: read a line, show a block, obey a key, run to a time, quit | the ring holds the last edges, each whole; both processes end |
| Instruction tables (`riscv_inst.h`, `pipe_print.c`) | one instruction taken apart | decode, assign, encode, name | the copies of the table agree; encoding undoes decoding, with three exceptions |
| Allocator (`tj_malloc.h`) | ring of free blocks, what of the heap was never given out | take, return | blocks are apart and tile the heap |
| Programs (`test_progs/*.c`) | arrays, queues, stacks, recursions | one step of a loop or one call | what each is there to compute, and that it ends |

Interactions: the front end writes the packet registers; the packets go to
stations, map table and reorder buffer in the next cycle if neither refuses.
The load/store units talk to the queue, the queue to the data cache, the head
of the reorder buffer (`sq_retire`) lets the store at the head of the queue go
out, and the cache's acknowledgement (`retire_valid`) lets the reorder buffer
retire it a cycle later. A squash at retirement clears everything but the
registers, the caches and the predictors.

The debugger is the child of a fork. The simulation prints a block of lines at
every edge into one pipe and blocks until a byte comes back through the other;
the child reads the block, releases the simulation, and only then looks at the
keys. The programs use the allocator by calls; nothing else is shared.

What is hard here, with the lines, is the list `hazards` of `PROJECT.json`.

## 2. Modules

| Module | Models | State | Actions |
|---|---|---|---|
| `Rob` | `rob_2.sv` | `rob_head`, `rob_tail`, `rob_counter`, `rob_entries` | `RobCycle`: a cycle with any two packets, any two results and any acknowledgement; `RobStep` is what other modules compose |
| `InOrderCommit` | what a reorder buffer promises | `queue` | `Move`, `Flush` |
| `Isa`, `IsaMachine` | the instructions, one of each class; the sequential machine | `arch` | one instruction or two |
| `MapTable`, `RegFile`, `Rs`, `Front` | their sources; `Rs` with the units and the buses | as in the source | `MtStep`, `RegStep`, `RsStep`, `FrontStep` |
| `Selection`, `FuSelector` | what the selection of results promises; `fu_selector_2.sv` and `selector.sv`, which keep it | the counter, the units that ask | `SelectorCycle` |
| `Multiplier` | `fu_mult.sv`, `mlu` and `mult_stage` | the working register, the registers of `mlu` | `Dispatched`, `OperandsCome`, `Ticks`, `Granted`, `Squash` |
| `Lsq` | `lsq.sv` | load and store entries | `LsqStep` |
| `LsqSystem` | `Lsq` between the components that drive it | the memory instructions in flight, in program order | `Advance`, `Squash` |
| `P6Core` | `pipeline.sv`: all of the above in one cycle | the union, and `commit_PC` (history) | `Cycle` |
| `DCacheMem` | `dcache_l2.sv`, the arbiter, `mem.sv` | caches, table, transactions, the requests of the queue | `DCacheCycle` |
| `NpcControl`, with `Ras`, `Btb`, `Dirp` | `npc_control_2.sv` and the three tables | the tables; the text and the last query (history) | `UnitsReport`, `BranchesRetire`: a cycle with a query and reports of the units or of the reorder buffer |
| `ICache` | `icache_l2.sv`, its share of the bus and of `mem.sv` | lines, the window of requests, transactions | `ICacheCycle` |
| `VisualDebugger` | `visual_c_hooks.cpp` with the two blocks of `visual_testbench.v` that print and wait | `bench`, `lines`, `answers`, `hist`, `ui`, `shown` | `Dump`, `Halt`, `waitforresponse`; `ReadLine`, `Present`, one action per key, `Check`, `Quit` |
| `RiscvInst` | `inst_t` of `riscv_inst.h`, `get_opcode_str`, `print_stage` | the word and what became of it | `Decode`, `Assign`, `Encode` |
| `Program` | what the models of the programs have in common | `st`, a record of the variables of the program that runs | |
| `TjMalloc` | `tj_malloc.h` | `heap`, `live` (history) | `Malloc`, `Free` |
| `GraphSearch`, `Sorting`, `Backtrack`, `Numeric`, `Alexnet`, `PriorityQueue` | the programs, by what they do; the last with `basic_malloc.c`, over `TjMalloc` | `st` | a step of a loop, or a call and its return |
| `MCRob`, `MCLsq`, `MCP6Core`, `MCDCacheMem` | instances for TLC | | |
| `MCUnits` | the units that work by themselves (`Multiplier`, `FuSelector`, `NpcControl`, `ICache`), one of them per behaviour | their states, and which one | theirs |
| `MCPrograms` | all programs, and any client of the allocator, one per behaviour | `st`, `heap`, `live` | theirs |
| `MCTestBench` | debugger or instruction tables | theirs | theirs |
| `Rob_proofs` | theorems about `Rob`, among them that it implements `InOrderCommit` | | |
| `DCache_proofs` | theorems about `DCacheMem`: one copy of a line, what is sent is under way, a request stands, stores and loads are coherent | | |
| `Lsq_proofs` | theorems about `LsqSystem`: the ring of stores, the search, loads in program order | | |
| `Order_proofs` | lemmas the proofs share: a set of numbers has a least element, a bounded one a greatest; counting the elements below a number; powers of two; remainders | | |
| `P6Core_proofs` | theorems about `P6Core`: stations and entries, the map table, operands, retirement in program order | | |
| `P6Isa_proofs` | that `P6Core` implements `IsaMachine` | | |
| `Units_proofs` | theorems about the units of `MCUnits`: the instruction cache, the predictors, the selection, the multiplier | | |
| `TestBench_proofs` | theorems about `VisualDebugger`, the protocol of the two processes and the ring of history, and about `RiscvInst`, the tables of the instructions | | |

Names follow the source. A packed struct is a record without the fields no
property can tell apart (debug values, `OLD_PC_p_4`, the tags of the
predictors). A combinational output is an operator of that name. `squash`,
`retire_valid_0` and their kin take the acknowledgement of the store as an
argument because in the source it is an input port.

Definitions marked `Mutation:` are what plausible mistakes would turn the
definition after them into; no specification uses them.

### Abstractions

* Words have `WORD` values and two bytes; a line of the data cache has one
  value; an instruction address counts instructions, so `PC[2]` is `pc % 2`.
* The arithmetic is one representative per class: `li`, `add`, `mul`, `beq`,
  `jal`, `jalr`, `load` and `store` of a byte or a word, `wfi`, and the word
  that does not decode.
* In `P6Core` the predictors answer anything they could answer (`Guesses`): a
  target out of `Targets` or the next instruction, never "taken" for a jump.
  Which they answer, and from which tables, is `NpcControl`, checked alone:
  only speed depends on it. There the pairs that are fetched follow each other
  in any order, and a cycle has reports of the units or of the reorder buffer,
  not both (they go to different tables). Counters are trained only in texts
  with a conditional branch.
* The grants of one category are a free choice; between categories and between
  the halves the priority is the source's. `ChoosesAsPromised` shows that the
  circuit is one such choice.
* In `P6Core` the caches hit or wait freely. The one thing assumed is that a
  line that hit in the last cycle hits again when a refused slot is fetched
  again (`MayMiss`), because `dispatch_stage_2.sv:54` relies on it. That is
  `DeliveredLineStays` of `ICache`: prefetches go to the lines behind the
  fetched one, which lie in other sets. Prefetches for the target of an early
  misprediction go anywhere; then the property says nothing, the core allows
  the miss, and the refused instruction lies on the wrong path.
* A product is a product in `P6Core`; that the unit arrives at it in steps, and
  offers no other, is `Multiplier`.
* `ICache` and `DCacheMem` see of each other only the bus. The data cache's
  turns on it are any (`free`, `heard` of `ICacheCycle`), except that,
  having taken it in the first half of a cycle, it takes it in the second:
  that is `RequestStands` of `DCacheMem`. `OTHERS` bounds the data cache's
  transactions and `Targets` the lines that early branches lead to; instruction
  text is never written, so a line of text is its address.
* `DCacheMem` models both halves of the clock cycle: the memory works on the
  falling edge, so the logic of the cache settles once before and once after
  it, and the registers take the second result.
* **Programs.** A list that nothing is taken out of is a sequence (what its
  pointers need, that blocks which are held are apart, is `HeapIsWhole`); the
  priority queue, which returns its nodes, lives in the heap of `TjMalloc`.
  Recursions keep their activations in a stack in the state. `ghost` is
  history: the input, or the order in which vertices were reached. Sums and
  products of `outer_product.c` and `fc_forward.c` wrap around at `INT`. Of
  `alexnet.c` only which element is written by which call of which round is
  kept: its numbers are those of a generator. `insertionsort.c` selects; the
  model does what the code does.
* **Allocator.** The addresses are numbers, headers lie where the code writes
  them, and `Plus` is the pointer arithmetic of the source, sizes in bytes
  counted in headers, modulo `WORD` (2^32 there, with the same sign). The check
  of the address in `tj_malloc.h:45` is left out: a program returns what it was
  given, which `HeapIsWhole` says lies in the heap.
* **Debugger.** One group of registers for ten that are parsed alike; a block
  is its stamps, its registers and `break`. `Rem` is `%` of C, negative for a
  negative operand. A place that was never written says any time (`Times`),
  and a read in front of the ring may crash (`Present`). Keys come in any order.
* **Instruction tables.** A word is its fields, `funct7` and the registers out
  of a few values each, all opcodes and all `funct3`. The source has the table
  three times (`decode`, `select`, `print_stage`) and so has the module; that
  is what `TablesAgree` is about. Members that a path does not assign have any
  value where something reads them (`Formats`).

## 3. Runs

Sizes are as small as the case that matters allows.

| Run | Distinct states | Instance | Shows |
|---|---|---|---|
| `rob` | 10 848 | ring of 3, two packets and two results per cycle | the ring agrees with itself, wraps included; dead slots are clear; the early branch is the oldest, and is squashed to the target that was announced with all that is behind it; refinement of `InOrderCommit` |
| `core` | 9 016 | ring of 4, 7 units, 3 places for stores, 7 programs | the invariants between components; `ImplementsIsa`: the state the programmer sees moves as the sequential machine; `Halts`: each of the programs ends, whatever is guessed and granted |
| `core_short` | 420 096 | the same on all 2401 programs of 4 of 7 instructions | `ImplementsIsa` without a choice of programs |
| `lsq` | 594 092 | ring of 3, two load units, three memory instructions in flight, two words | loads see program order, stores commit once and in order |
| `dcache` | 120 364 | one set, 4 lines, 1 victim, 2 misses, 2 tags | one copy, no lost store, coherent loads, where requests are steady; a request that is offered stands |
| `units` | 182 709 | multiplier: operands of 3 bits, 3 steps; selection: 8 units over both buses and all categories; predictors: stack of 3, buffer of 2, one counter, 3 texts of 4 instructions; instruction cache: 6 lines, 2 sets, a window of 2, 2 tags | the product of the instruction held, and no other, is offered; the choice of results is an allowed one, nobody is passed over for long; the return stack is a bounded stack, a target is that of the very branch, a counter learns and forgives, a refused pair is answered as before; a tag belongs to its line however the window moves, the text is that of the address, a line that was delivered survives the next cycle, a fetch that is kept up is served |
| `programs` | 120 272 | graphs of 5 vertices (lists: 4), arrays of 5 with 3 keys, boards of 1, 3 and 4, matrices up to 2 by 2, 20 factors squared, a heap of 80 bytes | searches, sorts, queue, allocator and computations on every input; `ProgramEnds` |
| `testbench` | 565 819 | ring of 3, up to 5 edges, 2 registers; 12 opcodes, 7 `funct7`, 4 registers | the debugger's ring and the end of both processes under any keys; the tables agree and encoding undoes decoding, but for bit 31 of a store, and `jal` and `jalr` once assigned |
| `core_starved` | violation | ring of 8, one wrong path | finding 1 |
| `core_overlap` | violation | one program | finding 2 |
| `dcache_race` | violation | 4 lines, no stores, 5 misses, 7 tags | finding 3 |
| `heap_split` | violation | blocks of 12 and 16 in a heap of 80 | finding 4 |

Some invariants are conjunctions of named parts (`RobInv`, `CoreInv`, `LsqInv`,
`DCacheInv`, `MultiplierInv`, `PredictorsInv`, `ICacheInv`, `HeapIsWhole`,
`SearchesInOrder`, `KeepsOrder`, `ComputesWhatItShould`, `TablesAgree`); the
parts have their comments where they are defined. The units, and the programs,
do not touch each other: one module runs them one at a time, and the properties
of the others hold in their initial states.

Why the bounds suffice for the cases that matter: a ring of 3 (reorder buffer) wraps under
two-wide dispatch and retirement, is full with one slot free and with none,
and has three entries for the scan of the early branch to order. Its
environment has a branch, which goes wrong by its direction, and a jump, which
goes wrong by its address only and squashes without an announcement. A ring of 4
in the core holds a branch, what it depends on and two instructions of a wrong
path. A store queue of 3, of which the code fills 2, has every position of
head, tail and a load's limit relative to the wrap. One set of two ways, one
victim and four lines fill, evict, swap and miss again; two misses and two
tags exhaust the table and the memory. A window of 2 over 2 sets moves by one
place, by more than its length and to a target; 6 lines put three lines in a
set of two ways, which is what it takes to push one out. Operands of 3 bits in
3 steps of 2 bits reach past the operand, as the source's do, so that steps
that see only the sign extension exist. A category of four units
needs all of the tree and of the counter. A stack of 3 tells its two
directions apart (one of 2 would not), and texts of two calls overflow it with
entries that differ; the branches of a text share the entries of a buffer of 2.

Graphs of 5 vertices have cycles, trees, several parts, and vertices of equal
distance; 4 vertices in lists take every order of insertion. Arrays of 5 make
halves of unequal length and pivots at both ends, three keys make equal ones in
any position. A board of 3 has no tour (its middle cannot be reached) and one
of 4 has none either, after some 20 000 steps of search; one of 1 has one at
once. Larger boards that have a tour (5) are out of reach; the path that is
found there is the invariant part of `TourIsPath`. A heap of 80 bytes holds
four blocks and runs out. A ring of 3 wraps within 5 edges, and a run, a search
and the end of the simulation meet each of its places. The values of `funct7`
are all that a table knows, and some that it does not, with and without the
sign.

`CHECK_DEADLOCK FALSE` in the runs of the core: a halt at the head of the
reorder buffer stops the machine, as it stops the simulation. In `programs`
and `testbench`: a program that has ended, a word that is encoded and two
processes that have exited do nothing more.

**Fairness.** `CoreFairSpec` adds `WF(Served)`: again and again there is a
cycle in which both caches have what they are asked for. The clock always
ticks, and a miss that is kept up is answered by the memory after a fixed
number of cycles. No fairness is assumed of the selection, the predictors or
the grants.

`ICacheHeldSpec`: from some cycle on the core asks for one line and does
nothing else, and the memory answers (`WF(Answers)`; its latency is a
constant). A core that only waits for a fetch has no load, store or
misprediction left in flight, so the data cache leaves the bus; whatever was
asked for and forgotten before is still in flight when the wait starts.
`MultSpec`: the clock ticks (`WF(Ticks)`). `UnitsSpec` has these two, each while
its unit is the one that works. `ProgramsSpec`: nothing but the program runs,
and it goes on (`WF(ProgramsNext)`). `DebuggerSpec`: each of the two processes
goes on when it can (`WF(BenchStep)`, `WF(ChildStep)`: the operating system
schedules both); nobody has to press a key, so what is promised is promised for
a user who has begun something and left.

`ImplementsIsa` maps the registers and the memory of the core to those of
`IsaMachine`, and the program counter to the address behind the last
instruction that has retired. The cache has a store one cycle before the
reorder buffer retires it; in that cycle the machine's program counter is
already behind the store.

`Steady` in `DCacheMem`: with `TRUE` the run leaves out the cycles in which
the request after the falling edge is another than the one the memory accepted
on it. In the others the source is wrong (finding 3), so the properties of
`dcache` are about the rest of the behaviours.

## 4. Findings

1. **Livelock** (`core_starved`). A word that does not decode, at an even
   address, with a jump behind it: slot 1 gets a station but no entry of the
   reorder buffer, and the PC does not move, so a jump is dispatched in every
   cycle. Branches go first on a bus; the product on which an older
   mispredicted branch depends stays without one. Only a wrong path meets such
   a pair in a well-formed program, for example by running into data.
   For the registers and memory the stray instructions are harmless: the
   program `Phantom` of `core` meets them.
2. **Partial overlap** (`core_overlap`). A load matches an older store in the
   queue by equal address and equal size; a byte store inside a loaded word is
   passed by.
3. **Half-cycle race** (`dcache_race`). An entry that enters the front of the
   queue of requests after the falling edge takes the memory's response to the
   request before it. The counterexample has free entries and free tags: the
   fill of a line pushes the line of the current load out of the victim cache.
   With a full table, or with fewer tags, all in use, shorter ones exist.
4. **Blocks in headers** (`heap_split`). `tj_malloc.h` keeps sizes in bytes and
   adds them to pointers to headers. Cutting a free block hands out memory
   outside the heap or inside another block: `malloc(16)`, `free`,
   `malloc(12)` is enough. Joining never finds neighbours. Programs that take
   blocks of one size only, as all of `test_progs` do, never cut.

Habits of the debugger and the tables that contradict no text, and that the
properties leave room for by name: at the newest place, with `history_num` 0,
the key `n` goes to the oldest place instead of on
(`visual_c_hooks.cpp:927`, `AtPresent`); a run that meets the end at that
position shows place -1 (899-903, `Present`); a run to a time stops one edge
late, because the block that has the time ends the run but is not shown, and
the next one is (1026-1041, `Check`);
`encode` loses bit 31 of a store (`riscv_inst.h:921-923`), and `select` calls
the immediate of `jal` a `Uimm` (751), so `jal` is not put together as it was
(`RoundTrip`). `mergesort.c:80` sorts 24 elements of an array of 23.

Two habits of the predictors cost predictions and contradict no text, so they
are not findings. `ras.sv` tells a repeated query by the address behind the
pair: a refused return of slot 1 is fetched again alone, looks like a new query
and pops twice; a return whose line was missed for a cycle looks like an old
one, does not pop, and is answered with whatever was popped last. `btb_2.sv:75`
drops the second branch when its index is that of the first port, even when
no branch is there.

The comment in `decoder.sv:34-38` that `valid_inst` is 0 for a halt disagrees
with line 41; nothing depends on it, and `Isa!valid_inst` follows the code.

## 5. Proofs

Each theorem is about the specification of one component, for every value of
its constants that the assumption named with it allows; the runs show the same
properties on small instances.

**Reorder buffer** (`Rob_proofs`): every size of the ring above 1, every set of
registers, values, addresses and packets (`RobAssumption`).

* `RobInvariant`: `RobInv == RobTypeOK /\ WindowAgrees /\ DeadSlotsClear`
  (in `Rob`) is an invariant. None of the three is inductive alone: that the
  head can advance by two rests on the valid bits being the window
  (`WindowAgrees`), that a cleared head neither retires nor squashes on
  `DeadSlotsClear`, and the count staying in its range on both. The step lemma
  `RobInvMove` splits a cycle into how far head and tail move (`RetireBounds`,
  `DispatchBounds`) and what that does to a slot (`NextEntryValid`).
* `RobTypeCorrect`, `RobWindow`, `RobDeadSlots` follow.
* `RobEarlyBranch`: the scan of `rob_2.sv:138-161`, which looks at two
  stretches of the ring when it wraps, finds the resolved misprediction of
  least age and nothing else.
* `RobSquashesAnnounced` (`AnnouncedIsSquashed`): what `rob_icache` announces
  while the instruction cache already prefetches there comes true. As long as
  nothing squashes, the announced entry keeps its place and its distance from
  the tail: nothing enters, and what leaves is older (`AnnouncedStays`, where
  an entry that retired past it would have squashed). The squash that empties
  the ring goes to its target, or to that of an older instruction that went in
  the predicted direction to a wrong address (`SquashOfAnnounced`, from
  `EarlyBranchOldestLemma`: one that is `mis_pred` and older would have been
  announced).
* `RobImplementsInOrder`: `RobSpec` implements `InOrderCommit` under the
  mapping `Queue` of `Rob`, the entries between the pointers. With `RobInvariant` the mapping is a stretch of the ring
  (`StretchIs`); `RetiringMayLeave` shows that what retires is ready, leaves
  from the front and does not leave past a mispredicted branch,
  `SquashFlushes` that a squash empties the queue at the
  first or the second that leaves, and `CycleMoves` that in any other cycle the
  rest moves up by as many as left, which is where each slot lies after the
  pointers have moved, wrapped or not (`SlotsMove`). No other step of the
  specification is left, so a cycle is `Move`, `Flush`, or nothing.

**Instruction cache** (`Units_proofs`): every number of sets, of lines (a
multiple of it), of tags and of the data cache's transactions, every window
that is no longer than there are sets, any targets of early branches
(`ICacheAssumption`; in the source the window has 7 places and the cache 16
sets). The environment is that of `ICacheCycle`: any fetch, any use of the bus
by the data cache that its own property `RequestStands` allows, any squash.

* `ICacheIndInvariant`: the inductive invariant. `TagsAreOurs` is not
  inductive: a returned tag finds its request only if no two transactions share
  a tag (`TagsDiffer`), and a new request takes a tag that nobody holds
  (`ResponseIsFree`). `HoldsText` rests on `OursIn` for the window *after* it
  has moved (`WindowMoves`), because the fill looks there.
* `ICacheCorrect` (`ICacheInv`) follows.
* `ICacheRefetch` (`DeliveredLineStays`): the fetched line stands first in the
  window; the others lie in other sets (`PlacesDiffer`: a straight window of at
  most `SETS` lines, also where the addresses wrap), so a fill of the cycle
  can reach its set only with the line itself.

**Data cache** (`DCache_proofs`): any lines and sets, any
assignment of lines to sets, any size of the victim cache and of the table of
misses, any number of tags and any data (`DCacheAssumption`), with loads,
stores, the memory's latency and the instruction cache's turns as in
`DCacheCycle`.

* The logic settles in steps (fill, load, store, request), each a function from
  state to state. A state is `Good` when it is typed, every valid entry lies
  where its line belongs, and a line is in one place (`Single`). A lemma per
  function (`InsertGood`, `TouchGood`, `AskGood`, `TabledGood`, `FillGood`,
  `SentGood`) shows that it keeps `Good`; the one that carries the argument is
  that a line is filled only out of the fetch that is dropped with it
  (`ReturnedIs`), so it is not yet in the cache.
* `DCacheOneCopy` (`OneCopy`): needs no `Steady`. The race of finding 3 brings
  wrong data or a wrong tag, never a second copy.
* `DCacheCorrect`, `DCacheSentInFlight` (`DCacheInv`, `SentMeansInFlight`),
  where `Steady`: a fetch
  marked as sent keeps its transaction because a transaction that ends finds
  it, and no other, by its tag (`Tags`: no two under way share one;
  `SentStays`). That no more are under way than there are tags is the
  pigeonhole (`FewInFlight`).
* `DCacheRequestStands` (`RequestStands`), where `Steady`: a transaction on the
  bus has left the queue and its tag has gone to no other (`BusGone`), so the
  first half of a cycle fills nothing. An offer of that half comes from an
  entry that waits, which no step removes, or from the load or the store that
  is looked up (`SettledWaits`); what the second half fills is a line that was
  being fetched, so neither of the two finds its line and both find no less
  room (`FillOpens`).
* `DCacheCoherent`, `DCacheNoStoreIsLost` (`LoadsAreCoherent`,
  `AckedStoresAreEverywhere`), where `Steady`. It rests on all of `Inv` and on `Own`: a store that waits in the
  table is that of the current cycle, so what `Tabled` writes there is sent for
  the line it was put down for. `FillFresh` needs that the data on the bus
  are those of a transaction of the table, and `SettledFresh` that a
  store that hits reaches the only copy.

**Load/store queue** (`Lsq_proofs`): any finite set of load/store units, any
ring of at least two places, any number of instructions in flight, any memory
(`LsqAssumption`, `LsqSystemAssumption`), between the drivers of `LsqSystem`.

* `LsqInductive`: the inductive invariant `LsqInd`, in parts. `Typed` and
  `UnitsWork` (a unit works for one access of the window, and knows its
  position, address and value once it has them); `TakesHead` (the store on its
  way to the cache is the oldest); `RingInOrder` (the waiting stores of the
  window are the places of the ring from the head on); `LoadsWait` (the limit of
  a search is as far from the head as there are stores in front of the load;
  when the last of these leaves, the limit is the head for one cycle, and
  `sq_retire` then says that nothing is left to search); `ValuesInOrder`
  (what a load has found is what program order gives it).
* The properties of the runs are consequences, but none is inductive: what a
  search finds depends on where the stores lie, where they lie on how many left,
  and that a load may go to the cache on what the stores that left have written.
  Positions, places of the ring and counts are related by `CountBelow` of
  `Order_proofs`; `RanksMove`, `SlotsMove`, `BelowMoves` and `FindsMove` say what
  a cycle does to each, however the ring wraps. `SearchedAre`, `StopIs` and
  `NoStopIs` turn the search of the source, which runs backwards over the ring,
  into one for the youngest older store in the window.
* `RingCorrect`, `SearchCorrect`, `LoadsCorrect`, `StoresCorrect`,
  `RequestsCorrect` (`LsqInv`, `SearchIsOlderStores`, `LoadsSeeProgramOrder`,
  `EveryStoreReachesMemoryOnce`, `LoadsDoNotOvertakeStores`).

**Core** (`P6Core_proofs`): every text of instructions, every size of the
reorder buffer from 2 on and of the store queue from 2 on, any units, register
files, branch targets and waits of the caches (`CoreAssumption`,
`IsaAssumption`, `SelectionAssumption`).

* `CoreInductive`: the inductive invariant `CoreInd`. `Typed` contains `RobInv`,
  whose step is that of `Rob_proofs`, instantiated; `TypedMoves` shows that the
  rest of the core sends it packets and results of its types. Then, in the
  order in which they lean on each other:
  `FrontGood` (what is offered is the text, in pairs, with a prediction that the
  predictors can give);
  `Loads` (a station is taken while its unit has an instruction);
  `UnitsWork` (the entries that wait and the taken stations are one to one, and
  agree on the instruction);
  `Renames` (the map table); `OperandsCome` (what a station listens for);
  `EntriesGood` (an entry is what the text says at its address, and, once it is
  ready, either diverts or goes on where it was predicted to);
  `StoresQueued` (the stores of the buffer that the cache has not taken are the
  slots of the store queue from its head on, in the order of their ages);
  `PathGood` (neighbours in the buffer lead to each other, the oldest is where
  the retired ones lead to, and, unless a misprediction is resolved in the
  buffer, the packets are where the youngest leads to).
* A step is split as the hardware splits it. `EntryMoves` says what a cycle does
  to a slot of the buffer (it lives on, completes, leaves, or is new) and
  `AgeMoves` how ages shift by as many as leave; then there is one lemma per
  part of the invariant. A squash is a case of its own in each, because it
  empties what the part is about.
* `UnitsServeEntries`, `MapTableNamesYoungest`, `OperandsArrive`,
  `RetiresProgramOrder` (`EveryEntryHasItsUnit`, `RenamesYoungest`,
  `NoOperandIsMissed`, `RetiresNextInstruction`) follow, and
  `StoresStayInOrder` (`CoreInv`, for texts without `Phantoms`). `RenamesYoungest`
  chooses the youngest with `CHOOSE`; `RenamesYoungestOf` does without, and
  that ages are different makes the two the same.
* Two rings hold the stores, and they move at different times: a store leaves
  the queue when the cache takes it and the buffer a cycle later
  (`sq_rob_valid`). `StoresQueued` therefore speaks of `HeldStores`, those of
  the buffer without one that was just taken, and gives each the place `Rank`,
  the number of held stores older than it (`CountBelow` of `Order_proofs`).
  `AgesMove` says what a cycle does to their ages, `RanksMove` and `SlotsMove`
  that each keeps its slot while the heads of both rings move, `StoreFills` that
  a unit that reports has written its slot first. The lemma all of them rest on
  is `TakenStoreIs`: a store that the cache takes is the head of both rings,
  and nothing leaves the buffer, let alone by a squash, in that cycle.
* Two hypotheses are about the text. `Phantoms` is the one the properties name:
  a word that does not decode in the lower half of a pair, with one that
  does behind it. `DeadEnds` is a word that does not decode in the upper half,
  behind one that can fall through to it: slot 0 is dispatched, but the PC moves
  only when slot 1 has something too (`PC_enable`), so the pair is fetched and
  slot 0 dispatched again, on whatever path. The path of a program that ends
  meets neither, but wrong paths do; the theorem leaves such texts out, the runs
  have one with the first (`Phantom`).

**The core is the sequential machine** (`P6Isa_proofs`): the same constants and
assumptions, with the units of different kinds apart from each other, as
`sys_defs.svh:140-143` numbers them.

* `CoreImplementsIsa`: `CoreSpec` implements `IsaMachine` under the mapping
  `Arch` of `P6Core`: every cycle executes no instruction, one, or two, and
  what it leaves in the registers, the memory and the program counter is what
  these leave. The machine is `commit_PC`, the registers and the memory, except
  between the cycle in which the cache takes a store and the one in which the
  buffer retires it (`sq_rob_valid`): there the store has been executed, and the
  program counter is behind it. The cell of `ZERO_REG` counts as 0; the code
  never reads it.
* `CoreInd` says which instructions retire, not what with. That is `ValuesGood`
  (`ValuesAreRight`), in four parts, each about a place where values wait:
  `StationsGood` (stations and units: an operand that is there is what the
  instruction `Reads`, one that is not comes from the entry it reads from),
  `StoresGood` (slots of the store queue), `LoadsWait` (the limit of a load's
  search is the store in front of it, and what it has found is what it
  `LoadSees`), `ResultsGood` (completed entries).
* `Reads(n, r, v)` is what an instruction that is `n` entries behind the head
  finds in `r`: the value of the youngest writer in front of it, once that has
  completed, or the register. `LoadSees` is the same for the bytes of an access:
  the youngest store in front that holds them, with those between apart from
  them, or the memory. Neither names the program's history; the argument is that
  both stay the same while time goes by (`ReadsMove`, `LoadSeesMoves`), when
  writers retire into the registers and stores into the memory, until the
  instruction is the oldest. Then they are the machine's registers and memory
  (`ReadsFirst`, `LoadsFirst`), or, for the one that retires with it,
  those that the oldest leaves (`ReadsSecond`, `LoadsSecond`).
* What enters reads from the right place because of `Renames` (`LookupGood`,
  also behind slot 0 of the same cycle, `SlotOperand_1`), from the right stores
  because of `StoresQueued` (`NewWaits`). A result that is heard is that of the
  entry it was waited for (`HeardResults`); the search of the source, backwards
  over the ring, stops at the youngest store that is not apart (`StopIs`,
  `NoStopIs`, `SearchSees`). What a unit puts on the bus is what its
  instruction says (`FinishSays`). A squash leaves nothing that could be wrong
  (`NoWork`).
* Three hypotheses, each a state of affairs in which the code does something
  else. `Phantoms` and `DeadEnds` are the pairs of words above.
  `PartialOverlap` is a load in front of which a store waits that shares some of
  its bytes and is not the same access: the search passes such a store by. The
  run `core_overlap` is a program that gets there (finding 2); the theorem
  shows that it is the only way for a load to read the wrong value. In the runs
  `core` and `core_short` no state has one, so for them the hypothesis is no
  restriction.
* `BytesImplementIsa`: for texts that load or store nothing, or nothing but
  bytes (`BytesOnly`), the condition is on the text alone: accesses of one byte
  are the same or apart (`BytesDoNotOverlap`).

**Predictors** (`Units_proofs`): every size of the stack, of the buffer and
of the table of counters, every text (`RasAssumption`, `BtbAssumption`,
`DirpAssumption`, `NpcAssumption`), with the queries and reports of
`UnitsReport` and `BranchesRetire`.

* `ReturnStackIsBoundedStack`: `RasInv` adds to the property that the two
  pointers are neighbours unless the stack is empty (`PointersAgree`; after
  reset they are equal): a push writes at one of them and a pop reads at the
  other. `RasInvPush` and `RasInvPop` are the two steps, the push
  over the oldest entry included.
* `TargetsAreOwn`: every valid entry has an owner, a branch of the text with
  that index, tag and target (`EntriesHaveOwners`); index and tag together are
  the address (`IndexAndTag`), so a hit is the owner's.
* `PredictorLearns`: after a run of equal results the counter is at least, or
  at most, as far as the run is long, and the first result against a saturated
  counter leaves it in the middle on the learnt side (`CounterFollows`).
* `PredictorsCorrect` joins the two (`PredictorsInv`).
* `HeldFetchKeepsStack`: an action property (`HeldFetchIsAnsweredAlike`). What
  it needs is that the stack remembers the last query and what it said to the
  return of it (`HeldInv`). That the same pair asks the same again is not for
  nothing: what slot 1 is depends on the tables, which may have moved, but only
  behind a branch (`QueryStays`).

**Selection** (`Units_proofs`): any sets of units with at most four ALUs and two
units of every other category on a bus, which is what the trees of
`selector.sv` have places for (`SelectionAssumption`, `FuSelectorAssumption`).
Units ask when they like and are squashed when they like.

* A tree grants a place that asks, and the place the counter points at if that
  one asks (`Rps2Is`, `Rps4Is`). Places are counts of the units with smaller
  numbers (`CountBelow` of `Order_proofs`), so a place has one unit
  (`PlacesAre`) and the bus grants it (`GrantIs`).
* `SelectorKeepsPromise` (`ChoosesAsPromised`): the grants are those of
  `Selection`, from which the proofs of the core choose freely.
* `SelectorIsFair` (`PassedOverBriefly`): the counter runs whether or not
  anybody is granted, so the invariant relates it to the waiting: a unit has
  been passed over at most since the counter pointed at its place
  (`SelectorInv`, `Behind`).

**Multiplier** (`Units_proofs`): every width of the operands, every number of
stages that divides the width of the product (`MultiplierAssumption`).

* `MultiplierIsRight` (`MultiplierInv`). That the sum is the product modulo the
  width (`SumIsProduct`) is not enough for the offer of a sum that is complete:
  `StagesLeft` bounds what is left of the multiplier by the stages that are
  left, and a valid product has none (`ValidIsLast`). No induction over the
  stages is needed: a stage is a step, and that it keeps the sum is `StageKeeps`.
* Powers of two come as sizes of sets of subsets (`PowerIs`), which is how
  `2^(a+b)` splits (`PowerSum`) with no recursive definition to unfold.
  Sign extension adds a multiple of the width (`SignIs`), and what a factor has
  too much of it goes out of the product (`FactorsKeep`, `LoadIs`).

**Visual debugger** (`TestBench_proofs`): every length of the ring, of a block
and of a simulation (`DebuggerAssumption`), any keys at any time.

* `DebuggerIsInv`: `DebuggerInv` has one part per point of the handshake
  (`BeforeBlock`, `BlockSent`, `BlockIsRead`, `BlockRead`, `Answered`,
  `LastBlockSent`), each saying what is in the two pipes and how much of the ring
  is written. While a block is read the place it goes to is half old, half new
  (`Partial`), and the ring is whole but for that place (`Ring`), which is the
  one that is to be given up (`RingKept`).
* `RingIsRight` (`RingHoldsLastEdges`) follows for the points at which a key is
  waited for. Where the search by time ends is not used: wherever it does, the
  keys go on from the place that is shown (`KeyGotoInv`).

**Instruction tables** (`TestBench_proofs`): every `funct7` and every register,
so every word (`InstAssumption` bounds the fields by their widths).

* `TablesAreRight` (`TablesAgree`), with what it leaves out: one name for every
  word, but for the letters of LUI; the word again from the fields of `decode`
  if it has an op, but for bit 31 of a store, which `encode` does not write
  (`riscv_inst.h:921-923`), so half of the words that are stores do not come
  back; and the same from the fields of `select`, `jal` and `jalr` apart, whose
  immediate and `funct3` `select` has otherwise. The argument: a line of the one table against a line of
  the other, opcode by opcode (`NamesAre` for the two of names,
  `NamesAreKnown` for that of `select`); the bits of every kind of immediate, by
  sign, high and moved bits (`ImmediateBits`, `BranchBits`, `UpperBits`,
  `JumpBits`).
* What `encode` reads is named by `Says`: of a unit that says a word, however it
  came to say it, `encode` makes that word (`EncodeSays`). `decode` gives such a
  unit (`DecodeSays`), and `assign` with what `select` knows of the op keeps it
  one (`SelectSays`, `AssignSays`), `jal` and `jalr` apart.

Only model-checked: `ImplementsIsa` of texts with a phantom pair (the runs have
one); the programs. Liveness (`Halts`, `FetchIsServed`, `ProductIsOffered`,
`ProgramEnds`, `BothEnd`) is out of the prover's reach, and so is what a
recursive definition computes for every input.

## 6. Plan

Done: the machine, the units by themselves, the programs and the test bench
(section 2) with their runs; the proofs of the reorder buffer with its
refinement, of the two caches, of the predictors, of the selection and the
multiplier, of the load/store queue, of the debugger, of the instruction tables and of the core with its
refinement of the sequential machine. Left:

1. The two caches and the memory together, where the request after the
   falling edge may also be the instruction cache's (what `free`, `heard` and
   `Steady` separate now).
2. The core with the caches and predictors in place of the environment that
   stands for them.

## 7. Not modelled

* The one-way variants and the legacy `.v` files: `sys_defs.svh` does not
  select them. Synthesis scripts, assembler programs, reports.
* The drivers of single modules (`test_*.sv`, `testbench.sv`): clock, reset,
  fixed stimuli, printing.
* Of the debugger: the drawing (`setup_gui`, `update_clock`, the contents of
  `parsedata`, of which only the place it shows is kept), the code that no
  path reaches (`visual_c_hooks.cpp:1053-1062`, behind `exit(0)`; `flushpipe`
  after a `waitforresponse` that does not return in that state).
* Of the printer: the columns of `pipeline.out` (`print_header`,
  `print_cycles`, `print_reg`, `print_membus`, `print_close`).
* `rob_print.c` is one comment, `omegalul.c` computes nothing anyone looks at.
* Printing and fixed inputs of the test programs: the models run on every
  small input instead.
