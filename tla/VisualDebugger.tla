---------------------------- MODULE VisualDebugger ----------------------------
(***************************************************************************)
(* The visual debugger: testbench/visual_c_hooks.cpp, with its share of    *)
(* visual_testbench.v.                                                     *)
(*                                                                         *)
(* Two processes.  The test bench (the parent) prints a block of lines at  *)
(* every clock edge and waits for an answer; the debugger (the child)      *)
(* reads the lines, keeps the last NUM_HISTORY blocks in a ring, and obeys *)
(* the keys: step, run, go back, go to a time, quit.                       *)
(*                                                                         *)
(* A time counts edges, a cycle two of them.  One group of registers       *)
(* stands for the ten, which are parsed alike.                             *)
(***************************************************************************)
EXTENDS Integers, Sequences

CONSTANTS
  NUM_HISTORY,  \* places of the ring
  REGS,         \* registers of a block
  EDGES         \* bound: the pipeline stops after at most as many edges

ASSUME DebuggerAssumption ==
  NUM_HISTORY \in Nat \ {0} /\ REGS \in Nat \ {0} /\ EDGES \in Nat \ {0}

VARIABLES
  bench,     \* the test bench: [pc, edge, halt]; halt is the edge behind its last
  lines,     \* the pipe to the debugger: lines [kind, edge]
  answers,   \* the pipe back, of bytes
  hist,      \* contents, history_num, time_wrapped, setup_registers, if_reg_num
  ui,        \* the other variables of the debugger, and where it is (pc)
  shown      \* the place of the ring that is on the screen; -1 is none of it

debuggerVars == <<bench, lines, answers, hist, ui, shown>>

Slot == 0 .. NUM_HISTORY - 1
None == -1   \* what nothing was written to

Rem(a) == IF a < 0 THEN -((-a) % NUM_HISTORY) ELSE a % NUM_HISTORY   \* % of C

DebuggerInit ==
  /\ bench \in [pc : {"dump"}, edge : {0}, halt : 1 .. EDGES]
  /\ lines = <<>> /\ answers = <<>>
  /\ hist = [contents |-> [s \in Slot |->
                [time |-> None, cycle |-> None,
                 regs |-> [r \in 0 .. REGS - 1 |-> None]]],
             history_num |-> 0, time_wrapped |-> FALSE,
             setup_registers |-> FALSE, if_reg_num |-> 0]
  /\ ui = [pc |-> "read", hist_num_temp |-> 0, running |-> FALSE,
           echo_data |-> TRUE, goto_flag |-> FALSE, cycle_flag |-> FALSE,
           stop_time |-> 0, i |-> NUM_HISTORY, done_received |-> FALSE]
  /\ shown = 0

-----------------------------------------------------------------------------
(* The test bench.                                                         *)

Line(kind) == [kind |-> kind, edge |-> bench.edge]
Block == <<Line("c"), Line("t")>> \o [r \in 1 .. REGS |-> Line("f")]
           \o <<Line("break")>>

\* A write to a debugger that has gone ends the test bench.
Prints(block) ==
  IF ui.pc \in {"gone", "crashed"}
  THEN bench' = [bench EXCEPT !.pc = "ended"] /\ UNCHANGED lines
  ELSE bench' = [bench EXCEPT !.pc = "wait"] /\ lines' = lines \o block

\* Every edge, before the pipeline stops.
Dump ==
  /\ bench.pc = "dump" /\ bench.edge < bench.halt
  /\ Prints(Block)
  /\ UNCHANGED <<answers, hist, ui, shown>>

\* The pipeline has stopped.
Halt ==
  /\ bench.pc = "dump" /\ bench.edge = bench.halt
  /\ Prints(<<Line(""), Line("DONE"), Line("")>>)
  /\ UNCHANGED <<answers, hist, ui, shown>>

\* An answer is "n" and two bytes that nobody uses, or "Z".  A byte that is
\* neither is skipped.
waitforresponse ==
  /\ bench.pc = "wait" /\ answers # <<>>
  /\ CASE Head(answers) = "Z" ->
            bench' = [bench EXCEPT !.pc = "ended"] /\ answers' = Tail(answers)
       [] Head(answers) = "n" ->
            /\ bench' = [bench EXCEPT !.pc = "dump", !.edge = @ + 1]
            /\ answers' = SubSeq(answers, 4, Len(answers))
       [] OTHER -> answers' = Tail(answers) /\ UNCHANGED bench
  /\ UNCHANGED <<lines, hist, ui, shown>>

-----------------------------------------------------------------------------
(* The debugger reads a line.                                              *)

\* What the lines of a block do to the ring.
Stamp(h, line) ==
  IF line.kind = "t" THEN [h EXCEPT !.contents[h.history_num].time = line.edge]
  ELSE [h EXCEPT !.contents[h.history_num].cycle = line.edge \div 2]

\* A register has the number that the lines in front of it leave it.
Register(h, line) ==
  [h EXCEPT !.contents[h.history_num].regs[h.if_reg_num] = line.edge,
            !.if_reg_num = @ + 1]

\* Mutation: only the first block sets the number of the register back.
NotReset(h) ==
  [h EXCEPT !.setup_registers = TRUE,
            !.if_reg_num = IF h.setup_registers THEN @ ELSE 0]

\* The first block makes room for the registers; behind it that is done.
EndOfBlock(h) == [h EXCEPT !.setup_registers = TRUE, !.if_reg_num = 0]

processinput(h, line) ==
  CASE line.kind \in {"t", "c"} -> Stamp(h, line)
    [] line.kind = "f" -> Register(h, line)
    [] line.kind = "break" -> EndOfBlock(h)
    [] OTHER -> h

ReadLine ==
  /\ ui.pc = "read" /\ ~ui.done_received /\ lines # <<>>
  /\ hist' = processinput(hist, Head(lines))
  /\ lines' = Tail(lines)
  /\ LET kind == Head(lines).kind
     IN  ui' = [ui EXCEPT !.pc = IF kind \in {"break", "DONE"} THEN "present"
                                 ELSE @,
                          !.done_received = (kind = "DONE")]
  /\ UNCHANGED <<bench, answers, shown>>

\* After the last block there is nothing to read.
ReadNothing ==
  /\ ui.pc = "read" /\ ui.done_received
  /\ ui' = [ui EXCEPT !.pc = "present"]
  /\ UNCHANGED <<bench, lines, answers, hist, shown>>

-----------------------------------------------------------------------------
(* A block is there: it is shown, unless the debugger is running, and the  *)
(* test bench goes on to the next edge.  The last block ends a run.        *)

\* What the windows show is place history_num_in of the ring.
parsedata(history_num_in) == shown' = history_num_in

Recorded(h, history_num) ==
  [h EXCEPT !.history_num = Rem(history_num + 1),
            !.time_wrapped = @ \/ history_num + 1 = NUM_HISTORY]

Newest(history_num) == IF history_num = 0 THEN NUM_HISTORY - 1 ELSE history_num - 1

Present ==
  LET stops == ~ui.echo_data /\ ui.done_received
      num == IF stops THEN Rem(hist.history_num - 1) ELSE hist.history_num
      echo == ui.echo_data \/ stops
  IN  /\ ui.pc = "present"
      /\ hist' = Recorded(hist, num)
      /\ IF echo THEN parsedata(num) ELSE UNCHANGED shown
      /\ answers' = IF ui.done_received THEN answers
                    ELSE answers \o <<"n", "0", "0">>
      /\ ui' \in [pc : {"keys"} \cup (IF echo /\ num < 0 THEN {"crashed"} ELSE {}),
                  hist_num_temp : {Newest(Rem(num + 1))},
                  running : {ui.running /\ ~stops}, echo_data : {echo},
                  goto_flag : {ui.goto_flag}, cycle_flag : {ui.cycle_flag},
                  stop_time : {ui.stop_time}, i : {ui.i},
                  done_received : {ui.done_received}]
      /\ UNCHANGED <<bench, lines>>

-----------------------------------------------------------------------------
(* The keys.  A key that moves in the ring shows the place it moves to; one *)
(* that goes on leaves the loop.                                            *)

Waits == ui.pc = "keys" /\ ~ui.running

Stays(new, place) ==
  /\ ui' = new
  /\ parsedata(place)
  /\ UNCHANGED <<bench, lines, answers, hist>>

Moves(place) == Stays([ui EXCEPT !.hist_num_temp = place], place)
GoesOn(new) == Stays([new EXCEPT !.pc = "check"], shown)
Ignored == Stays(ui, shown)

\* Whether the debugger takes the place it shows for the newest one.
AtPresent == ui.hist_num_temp = Rem(hist.history_num - 1)

KeyNext ==
  /\ Waits
  /\ IF ~AtPresent THEN Moves(Rem(ui.hist_num_temp + 1))
     ELSE IF ui.done_received THEN Ignored
     ELSE GoesOn(ui)

KeyBack ==
  /\ Waits
  /\ IF ui.hist_num_temp > 0 THEN Moves(ui.hist_num_temp - 1)
     ELSE IF hist.time_wrapped THEN Moves(NUM_HISTORY - 1)
     ELSE Ignored

KeyRun ==
  /\ Waits
  /\ GoesOn([ui EXCEPT !.echo_data = FALSE, !.running = TRUE])

KeyQuit == Waits /\ Stays([ui EXCEPT !.pc = "quit"], shown)

\* 'p' is the one key that is looked at while the debugger runs, and the run
\* takes the next block all the same.
KeyPause ==
  /\ ui.pc = "keys"
  /\ Stays([ui EXCEPT !.echo_data = TRUE, !.running = FALSE,
                      !.pc = IF ui.running THEN "check" ELSE @],
           ui.hist_num_temp)

\* No key, or another one.
RunsOn == ui.pc = "keys" /\ ui.running /\ GoesOn(ui)

-----------------------------------------------------------------------------
(* Go to a time or a cycle.                                                *)

\* What a place says of its time: anything, if nothing was written there.
Times(i, cycle) ==
  LET t == IF cycle THEN hist.contents[i].cycle ELSE hist.contents[i].time
  IN  IF t = None THEN 0 .. EDGES ELSE {t}

\* What is typed, up to a key that is no digit; nothing makes 0.
get_time == 0 .. EDGES

\* The search from place i in the direction delta: where it can end, the place
\* it shows then (None: none), and the time it still has to run to.
Search[i \in Slot, delta \in {1, -1}, stop \in get_time, cycle \in BOOLEAN] ==
  IF i = hist.history_num THEN {[i |-> i, place |-> None, stop |-> stop]}
  ELSE LET Reaches(t) == IF delta = 1 THEN t >= stop ELSE t <= stop
           found == {t \in Times(i, cycle) : Reaches(t)}
           next == IF i + delta >= 0 THEN Rem(i + delta) ELSE NUM_HISTORY - 1
       IN  (IF found = {} THEN {}
            ELSE {[i |-> i, place |-> i, stop |-> 0]}) \cup
           (IF found = Times(i, cycle) THEN {}
            ELSE IF i + delta < 0 /\ ~hist.time_wrapped
            THEN {[i |-> i, place |-> ui.hist_num_temp, stop |-> 0]}
            ELSE Search[next, delta, stop, cycle])

\* When the place next to the one on the screen is not in the ring, i is what
\* the last search left.
SearchEnds(delta, stop, cycle) ==
  LET next == ui.hist_num_temp + delta
  IN  IF Rem(next) = hist.history_num
      THEN {[i |-> ui.i, place |-> None, stop |-> stop]}
      ELSE Search[IF next >= 0 THEN Rem(next) ELSE NUM_HISTORY - 1,
                  delta, stop, cycle]

\* 'g' asks for a time, 'c' for a cycle.
KeyGoto ==
  /\ Waits
  /\ \E stop \in get_time, cycle \in BOOLEAN :
     \E cur \in Times(ui.hist_num_temp, cycle) :
       LET delta == IF stop > cur THEN 1 ELSE -1
       IN  \E end \in SearchEnds(delta, stop, cycle) :
             LET gives_up == /\ end.i = hist.history_num
                             /\ delta = -1 \/ ui.done_received
                 stop_time == IF gives_up THEN 0 ELSE end.stop
                 place == IF end.place = None THEN ui.hist_num_temp
                          ELSE end.place
                 new == [ui EXCEPT !.cycle_flag = cycle, !.i = end.i,
                                   !.stop_time = stop_time,
                                   !.hist_num_temp = place]
             IN  IF stop_time > 0
                 THEN GoesOn([new EXCEPT !.echo_data = FALSE, !.running = TRUE,
                                         !.goto_flag = TRUE])
                 ELSE Stays(new, IF end.place = None THEN shown ELSE place)

\* Back to the next block; a run to a time ends when the newest block but one
\* has it.
Check ==
  /\ ui.pc = "check"
  /\ \E cur \in Times(ui.hist_num_temp, ui.cycle_flag) :
       LET there == ui.goto_flag /\ (cur >= ui.stop_time \/ ui.done_received)
       IN  ui' = [ui EXCEPT !.pc = "read",
                            !.goto_flag = @ /\ ~there,
                            !.echo_data = @ \/ there,
                            !.running = @ /\ ~there]
  /\ UNCHANGED <<bench, lines, answers, hist, shown>>

\* Mutation: the test bench is not told.
QuitSilently ==
  /\ ui.pc = "quit"
  /\ ui' = [ui EXCEPT !.pc = "gone"]
  /\ UNCHANGED <<bench, lines, answers, hist, shown>>

Quit ==
  /\ ui.pc = "quit"
  /\ answers' = Append(answers, "Z")
  /\ ui' = [ui EXCEPT !.pc = "gone"]
  /\ UNCHANGED <<bench, lines, hist, shown>>

-----------------------------------------------------------------------------
BenchStep == Dump \/ Halt \/ waitforresponse
ChildStep == ReadLine \/ ReadNothing \/ Present \/ RunsOn \/ Check \/ Quit
Key == KeyNext \/ KeyBack \/ KeyRun \/ KeyQuit \/ KeyPause \/ KeyGoto

DebuggerNext == BenchStep \/ ChildStep \/ Key

\* Both processes go on when they can; nobody has to press a key.
DebuggerSpec ==
  /\ DebuggerInit /\ [][DebuggerNext]_debuggerVars
  /\ WF_debuggerVars(BenchStep) /\ WF_debuggerVars(ChildStep)

-----------------------------------------------------------------------------
(* Properties.                                                             *)

\* The block the debugger has read last.
Whole(e) == [time |-> e, cycle |-> e \div 2, regs |-> [r \in 0 .. REGS - 1 |-> e]]

\* While a key is waited for, the ring holds the last blocks, each whole and
\* in its place, the test bench is one block ahead and never two, and what is
\* on the screen is the place the keys move from: the ring wraps, runs start
\* and stop, and no line of one edge is taken for one of another.
RingHoldsLastEdges ==
  Waits /\ ~ui.done_received =>
    \E e \in 0 .. EDGES - 1 :
      /\ bench.edge = e \/ bench.edge = e + 1
      /\ answers = <<>> <=> bench.edge = e + 1
      /\ hist.history_num = (e + 1) % NUM_HISTORY
      /\ hist.time_wrapped <=> e + 1 >= NUM_HISTORY
      /\ \A old \in 0 .. e :
           e - old < NUM_HISTORY => hist.contents[old % NUM_HISTORY] = Whole(old)
      /\ shown = ui.hist_num_temp

\* Who quits ends both processes, wherever the test bench is.
QuitEndsBoth == ui.pc = "quit" ~> ui.pc = "gone" /\ bench.pc = "ended"

\* A run comes to its end, at the time it goes to or with the simulation.
RunEnds == ui.running ~> ~ui.running

\* What is begun ends: a run, and the session of who quits.
BothEnd == QuitEndsBoth /\ RunEnds
=============================================================================
