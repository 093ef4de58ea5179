-------------------------- MODULE TestBench_proofs ---------------------------
(***************************************************************************)
(* Proofs about the test bench: about the visual debugger, for every size  *)
(* of the ring, of a block and of a simulation, and about the tables of    *)
(* the instructions, for every word.                                       *)
(***************************************************************************)
EXTENDS VisualDebugger, RiscvInst, SequenceTheorems, Order_proofs

USE DebuggerAssumption

-----------------------------------------------------------------------------
(* THE DEBUGGER.                                                           *)

(* The invariant: where the test bench is, what is in the two pipes, how   *)
(* much of a block the debugger has read and what its ring holds go        *)
(* together.                                                               *)

Keys == {"keys", "quit", "check", "read"}

\* The lines of the block of edge e, and those behind the first k of them.
Kind(j) == IF j = 1 THEN "c" ELSE IF j = 2 THEN "t"
           ELSE IF j = REGS + 3 THEN "break" ELSE "f"
BlockLine(j, e) == [kind |-> Kind(j), edge |-> e]
Rest(k, e) == [i \in 1 .. REGS + 3 - k |-> BlockLine(k + i, e)]

Entry == [time : Int, cycle : Int, regs : [0 .. REGS - 1 -> Int]]
History == [contents : [Slot -> Entry],
            history_num : Slot, time_wrapped : BOOLEAN,
            setup_registers : BOOLEAN, if_reg_num : 0 .. REGS]

DebuggerTypeOK ==
  /\ bench \in [pc : {"dump", "wait", "ended"}, edge : Nat, halt : Nat]
  /\ bench.edge =< bench.halt /\ bench.halt =< EDGES
  /\ hist \in History

\* The ring holds the blocks of the edges before n, but for the oldest of
\* them, whose place is the next to be written.
Ring(n) ==
  /\ hist.history_num = n % NUM_HISTORY
  /\ hist.time_wrapped <=> n >= NUM_HISTORY
  /\ \A old \in 0 .. n - 1 :
       n - old < NUM_HISTORY => hist.contents[old % NUM_HISTORY] = Whole(old)

\* The same with the oldest, between two blocks.
Complete(n) ==
  /\ Ring(n)
  /\ n >= NUM_HISTORY =>
       hist.contents[n % NUM_HISTORY] = Whole(n - NUM_HISTORY)
  /\ hist.if_reg_num = 0
  /\ ui.pc \in Keys
  /\ n = 0 => ui.pc = "read"

\* k lines of the block of edge e have been read, one at least.
Partial(k, e) ==
  LET place == hist.contents[e % NUM_HISTORY]
  IN  /\ place.cycle = e \div 2
      /\ k >= 2 => place.time = e
      /\ \A r \in 0 .. REGS - 1 : r < k - 2 => place.regs[r] = e
      /\ hist.if_reg_num = IF k < 2 THEN 0 ELSE k - 2

BeforeBlock ==
  /\ bench.pc = "dump" /\ lines = <<>> /\ answers = <<>>
  /\ Complete(bench.edge)

BlockSent ==
  /\ bench.pc = "wait" /\ answers = <<>> /\ bench.edge < bench.halt
  /\ lines = Rest(0, bench.edge)
  /\ Complete(bench.edge)

BlockIsRead ==
  /\ bench.pc = "wait" /\ answers = <<>> /\ bench.edge < bench.halt
  /\ ui.pc = "read" /\ Ring(bench.edge)
  /\ \E k \in 1 .. REGS + 2 :
       lines = Rest(k, bench.edge) /\ Partial(k, bench.edge)

BlockRead ==
  /\ bench.pc = "wait" /\ answers = <<>> /\ bench.edge < bench.halt
  /\ lines = <<>> /\ ui.pc = "present" /\ Ring(bench.edge)
  /\ hist.contents[bench.edge % NUM_HISTORY] = Whole(bench.edge)
  /\ hist.if_reg_num = 0

Answered ==
  /\ bench.pc = "wait" /\ answers = <<"n", "0", "0">> /\ bench.edge < bench.halt
  /\ lines = <<>>
  /\ Complete(bench.edge + 1)

LastBlockSent ==
  /\ bench.pc = "wait" /\ answers = <<>> /\ bench.edge = bench.halt
  /\ lines \in {<<Line(""), Line("DONE"), Line("")>>, <<Line("DONE"), Line("")>>}
  /\ Complete(bench.edge)

\* What the debugger knows of itself.
UiOK ==
  /\ DOMAIN ui = {"pc", "hist_num_temp", "running", "echo_data", "goto_flag",
                  "cycle_flag", "stop_time", "i", "done_received"}
  /\ ui = [x \in DOMAIN ui |-> ui[x]]
  /\ ui.running \in BOOLEAN /\ ui.echo_data \in BOOLEAN
  /\ ui.done_received \in BOOLEAN
  /\ ~ui.running => ui.echo_data
  /\ Waits /\ ~ui.done_received => shown = ui.hist_num_temp

Together ==
  BeforeBlock \/ BlockSent \/ BlockIsRead \/ BlockRead \/ Answered \/ LastBlockSent

DebuggerInv ==
  /\ UiOK
  /\ ~ui.done_received /\ ui.pc # "gone" => DebuggerTypeOK /\ Together

-----------------------------------------------------------------------------
(* Lemmas about the places of the ring.                                    *)

LEMMA PlaceIs ==
  ASSUME NEW n \in Nat  PROVE n % NUM_HISTORY \in Slot
BY DEF Slot

LEMMA Remainder ==
  ASSUME NEW q \in Int, NEW r \in 0 .. NUM_HISTORY - 1
  PROVE  (NUM_HISTORY * q + r) % NUM_HISTORY = r
<1> DEFINE x == NUM_HISTORY * q + r
           d == x \div NUM_HISTORY
           s == x % NUM_HISTORY
<1>1. x \in Int /\ d \in Int /\ s \in 0 .. NUM_HISTORY - 1 /\ x = NUM_HISTORY * d + s
  OBVIOUS
<1>2. x = NUM_HISTORY * q + r
  OBVIOUS
<1> HIDE DEF x, d, s
<1>3. NUM_HISTORY * (d - q) = r - s
  BY <1>1, <1>2
<1>4. ASSUME d - q >= 1 PROVE FALSE
  <2>1. NUM_HISTORY * (d - q) >= NUM_HISTORY
    BY <1>1, <1>4
  <2>. QED  BY <1>1, <1>3, <2>1
<1>5. ASSUME q - d >= 1 PROVE FALSE
  <2>1. NUM_HISTORY * (q - d) >= NUM_HISTORY
    BY <1>1, <1>5
  <2>2. NUM_HISTORY * (q - d) = s - r
    BY <1>1, <1>2
  <2>. QED  BY <1>1, <2>1, <2>2
<1>6. d = q
  BY <1>1, <1>4, <1>5
<1>. QED  BY <1>1, <1>2, <1>6 DEF x, s

LEMMA PlaceNext ==
  ASSUME NEW n \in Nat
  PROVE  (n + 1) % NUM_HISTORY
           = IF (n % NUM_HISTORY) + 1 = NUM_HISTORY THEN 0
             ELSE (n % NUM_HISTORY) + 1
<1> DEFINE q == n \div NUM_HISTORY
           r == n % NUM_HISTORY
<1>1. q \in Nat /\ r \in 0 .. NUM_HISTORY - 1 /\ n = NUM_HISTORY * q + r
  OBVIOUS
<1> HIDE DEF q, r
<1>2. CASE r + 1 = NUM_HISTORY
  <2>1. n + 1 = NUM_HISTORY * (q + 1) + 0
    BY <1>1, <1>2
  <2>2. (n + 1) % NUM_HISTORY = 0
    BY <1>1, <2>1, Remainder, q + 1 \in Int
  <2>. QED  BY <1>2, <2>2 DEF r
<1>3. CASE r + 1 # NUM_HISTORY
  <2>1. n + 1 = NUM_HISTORY * q + (r + 1)
    BY <1>1
  <2>2. (n + 1) % NUM_HISTORY = r + 1
    BY <1>1, <1>3, <2>1, Remainder
  <2>. QED  BY <1>3, <2>2 DEF r
<1>. QED  BY <1>2, <1>3 DEF r

\* Two blocks closer than the size of the ring have places of their own.
LEMMA PlacesDiffer ==
  ASSUME NEW a \in Nat, NEW b \in Nat, a < b, b - a < NUM_HISTORY
  PROVE  a % NUM_HISTORY # b % NUM_HISTORY
<1> DEFINE q == a \div NUM_HISTORY
           p == b \div NUM_HISTORY
           r == a % NUM_HISTORY
           s == b % NUM_HISTORY
<1>1. /\ q \in Nat /\ r \in 0 .. NUM_HISTORY - 1 /\ a = NUM_HISTORY * q + r
      /\ p \in Nat /\ s \in 0 .. NUM_HISTORY - 1 /\ b = NUM_HISTORY * p + s
  OBVIOUS
<1> HIDE DEF q, p, r, s
<1>2. SUFFICES ASSUME r = s PROVE FALSE
  BY DEF r, s
<1>3. b - a = NUM_HISTORY * (p - q)
  BY <1>1, <1>2
<1>4. p - q >= 1
  <2>1. ASSUME p - q =< 0 PROVE FALSE
    BY <1>1, <1>3, <2>1
  <2>. QED  BY <1>1, <2>1
<1>5. NUM_HISTORY * (p - q) >= NUM_HISTORY
  BY <1>1, <1>4
<1>. QED  BY <1>3, <1>5

LEMMA PlaceAround ==
  ASSUME NEW n \in Nat, n >= NUM_HISTORY
  PROVE  (n - NUM_HISTORY) % NUM_HISTORY = n % NUM_HISTORY
<1> DEFINE q == n \div NUM_HISTORY
           r == n % NUM_HISTORY
<1>1. q \in Nat /\ r \in 0 .. NUM_HISTORY - 1 /\ n = NUM_HISTORY * q + r
  OBVIOUS
<1> HIDE DEF q, r
<1>2. n - NUM_HISTORY = NUM_HISTORY * (q - 1) + r
  BY <1>1
<1>3. (n - NUM_HISTORY) % NUM_HISTORY = r
  BY <1>1, <1>2, Remainder, q - 1 \in Int
<1>. QED  BY <1>3 DEF r

\* The debugger goes to the next place as the blocks do, and comes to the end
\* of the ring with the block that fills it.
LEMMA RemIs ==
  ASSUME NEW n \in Nat
  PROVE  /\ Rem((n % NUM_HISTORY) + 1) = (n + 1) % NUM_HISTORY
         /\ Newest(Rem((n % NUM_HISTORY) + 1)) = n % NUM_HISTORY
<1> DEFINE r == n % NUM_HISTORY
<1>1. r \in 0 .. NUM_HISTORY - 1
  OBVIOUS
<1>2. (n + 1) % NUM_HISTORY = IF r + 1 = NUM_HISTORY THEN 0 ELSE r + 1
  BY PlaceNext
<1> HIDE DEF r
<1>3. Rem(r + 1) = IF r + 1 = NUM_HISTORY THEN 0 ELSE r + 1
  BY <1>1 DEF Rem
<1>4. Newest(Rem(r + 1)) = r
  BY <1>1, <1>3 DEF Newest
<1>. QED  BY <1>2, <1>3, <1>4 DEF r

-----------------------------------------------------------------------------
(* Lemmas about the lines of a block.                                      *)

OneLine == [kind : {"c", "t", "f", "break"}, edge : Nat]

LEMMA LineIs ==
  ASSUME bench.edge \in Nat, NEW kind \in {"c", "t", "f", "break"}
  PROVE  Line(kind) \in OneLine
BY DEF Line, OneLine

LEMMA BlockLineIs ==
  ASSUME NEW e \in Nat, NEW j \in Int  PROVE BlockLine(j, e) \in OneLine
<1>1. Kind(j) \in {"c", "t", "f", "break"}
  BY DEF Kind
<1>. QED  BY <1>1 DEF BlockLine, OneLine

LEMMA FrontIs ==
  ASSUME NEW S, NEW a \in S, NEW b \in S
  PROVE  /\ <<a, b>> \in Seq(S) /\ Len(<<a, b>>) = 2
         /\ <<a>> \in Seq(S) /\ Len(<<a>>) = 1
OBVIOUS

LEMMA BlockIs ==
  ASSUME bench.edge \in Nat
  PROVE  Block = Rest(0, bench.edge)
<1> DEFINE e == bench.edge
           regs == [r \in 1 .. REGS |-> Line("f")]
           front == <<Line("c"), Line("t")>>
           back == <<Line("break")>>
<1>1. front \in Seq(OneLine) /\ back \in Seq(OneLine) /\ Len(front) = 2 /\ Len(back) = 1
  <2>1. Line("c") \in OneLine /\ Line("t") \in OneLine /\ Line("break") \in OneLine
    BY LineIs
  <2>. QED  BY <2>1, FrontIs
<1>2. regs \in Seq(OneLine) /\ Len(regs) = REGS
  <2>1. regs \in [1 .. REGS -> OneLine]
    BY LineIs
  <2>. HIDE DEF regs
  <2>. QED  BY <2>1
<1>3. /\ front[1] = BlockLine(1, e) /\ front[2] = BlockLine(2, e)
      /\ back[1] = BlockLine(REGS + 3, e)
      /\ \A r \in 1 .. REGS : regs[r] = BlockLine(r + 2, e)
  BY DEF Line, BlockLine, Kind
<1>4. Block = (front \o regs) \o back
  BY DEF Block
<1> HIDE DEF regs, front, back
<1> DEFINE head == front \o regs
<1>5. /\ head \in Seq(OneLine) /\ Len(head) = REGS + 2
      /\ \A i \in 1 .. REGS + 2 : head[i] = IF i =< 2 THEN front[i] ELSE regs[i - 2]
  <2>1. /\ head \in Seq(OneLine) /\ Len(head) = Len(front) + Len(regs)
        /\ \A i \in 1 .. Len(front) + Len(regs) :
              head[i] = IF i =< Len(front) THEN front[i] ELSE regs[i - Len(front)]
    BY <1>1, <1>2, ConcatProperties
  <2>. HIDE DEF head
  <2>. QED  BY <2>1, <1>1, <1>2
<1> HIDE DEF head
<1>6. \A i \in 1 .. REGS + 2 : head[i] = BlockLine(i, e)
  <2> TAKE i \in 1 .. REGS + 2
  <2>1. CASE i =< 2
    BY <2>1, <1>5, <1>3
  <2>2. CASE i > 2
    <3>1. i - 2 \in 1 .. REGS /\ (i - 2) + 2 = i
      BY <2>2
    <3>2. head[i] = regs[i - 2]
      BY <2>2, <1>5
    <3>3. regs[i - 2] = BlockLine((i - 2) + 2, e)
      BY <3>1, <1>3
    <3>. QED  BY <3>1, <3>2, <3>3
  <2>. QED  BY <2>1, <2>2
<1> DEFINE all == head \o back
<1>7. /\ all \in Seq(OneLine) /\ Len(all) = REGS + 3
      /\ \A i \in 1 .. REGS + 3 : all[i] = BlockLine(i, e)
  <2>1. /\ all \in Seq(OneLine) /\ Len(all) = Len(head) + Len(back)
        /\ \A i \in 1 .. Len(head) + Len(back) :
              all[i] = IF i =< Len(head) THEN head[i] ELSE back[i - Len(head)]
    BY <1>1, <1>5, ConcatProperties
  <2>. HIDE DEF all
  <2>. QED  BY <2>1, <1>1, <1>3, <1>5, <1>6
<1>8. Block = all
  BY <1>4 DEF head
<1> HIDE DEF all, e
<1>9. all = [i \in 1 .. REGS + 3 |-> BlockLine(i, e)]
  BY <1>7
<1>10. Rest(0, e) = [i \in 1 .. REGS + 3 |-> BlockLine(i, e)]
  <2>1. REGS + 3 - 0 = REGS + 3 /\ \A i \in 1 .. REGS + 3 : 0 + i = i
    OBVIOUS
  <2>. QED  BY <2>1 DEF Rest
<1>. QED  BY <1>8, <1>9, <1>10 DEF e

LEMMA RestIs ==
  ASSUME NEW e \in Nat, NEW k \in 0 .. REGS + 2
  PROVE  /\ Rest(k, e) # <<>> /\ Rest(k, e) \in Seq(OneLine)
         /\ Head(Rest(k, e)) = BlockLine(k + 1, e)
         /\ Tail(Rest(k, e)) = Rest(k + 1, e)
         /\ Rest(REGS + 3, e) = <<>>
<1> DEFINE n == REGS + 3 - k
<1>0. n \in Nat \ {0}
  OBVIOUS
<1>1. Rest(k, e) \in Seq(OneLine) /\ Len(Rest(k, e)) = n
  <2>1. Rest(k, e) \in [1 .. n -> OneLine]
    BY BlockLineIs DEF Rest
  <2>. HIDE DEF n
  <2>. QED  BY <1>0, <2>1
<1>2. Tail(Rest(k, e)) = [i \in 1 .. n - 1 |-> Rest(k, e)[i + 1]]
  <2>1. Rest(k, e) # <<>>
    BY <1>0, <1>1
  <2>. HIDE DEF n
  <2> DEFINE t == Tail(Rest(k, e))
  <2>2. /\ t \in Seq(OneLine) /\ Len(t) = n - 1
        /\ \A i \in 1 .. n - 1 : t[i] = Rest(k, e)[i + 1]
    BY <1>1, <2>1, HeadTailProperties
  <2> HIDE DEF t
  <2>3. t = [i \in 1 .. n - 1 |-> Rest(k, e)[i + 1]]
    BY <2>2
  <2>. QED  BY <2>3 DEF t
<1>3. \A i \in 1 .. REGS + 3 - k - 1 : Rest(k, e)[i + 1] = BlockLine((k + 1) + i, e)
  BY DEF Rest
<1>4. REGS + 3 - (k + 1) = REGS + 3 - k - 1
  OBVIOUS
<1>5. Tail(Rest(k, e)) = Rest(k + 1, e)
  BY <1>2, <1>3, <1>4 DEF Rest
<1>6. Rest(REGS + 3, e) = <<>>
  BY DEF Rest
<1>7. Rest(k, e) # <<>> /\ Head(Rest(k, e)) = BlockLine(k + 1, e)
  BY <1>1 DEF Rest
<1>. QED  BY <1>1, <1>5, <1>6, <1>7

-----------------------------------------------------------------------------
(* The invariant is inductive.                                             *)

Active == ~ui.done_received /\ ui.pc # "gone"

LEMMA InitInv == DebuggerInit => DebuggerInv
<1> SUFFICES ASSUME DebuggerInit PROVE DebuggerInv
  OBVIOUS
<1>1. UiOK
  BY DEF DebuggerInit, UiOK, Waits
<1>2. DebuggerTypeOK
  BY DEF DebuggerInit, DebuggerTypeOK, History, Entry, Slot, None
<1>3. BeforeBlock
  BY DEF DebuggerInit, BeforeBlock, Complete, Ring, Keys
<1>. QED  BY <1>1, <1>2, <1>3 DEF DebuggerInv, Together

\* What only looks at the ring, and is not in the middle of a block.
LEMMA KeyKeeps ==
  ASSUME DebuggerInv, ui.pc \in {"keys", "check", "quit"},
         Active', ~ui.done_received, ui'.pc \in Keys,
         UNCHANGED <<bench, lines, answers, hist>>
  PROVE  DebuggerTypeOK' /\ Together'
<1>1. DebuggerTypeOK /\ Together
  BY DEF DebuggerInv
<1>2. DebuggerTypeOK'
  BY <1>1 DEF DebuggerTypeOK
<1>3. ~BlockIsRead /\ ~BlockRead
  BY DEF BlockIsRead, BlockRead
<1>4. ASSUME NEW n \in Nat, Complete(n) PROVE Complete(n)'
  BY <1>4 DEF Complete, Ring
<1>5. bench.edge \in Nat /\ bench.edge + 1 \in Nat
  BY <1>1 DEF DebuggerTypeOK
<1>6. BeforeBlock => BeforeBlock'
  BY <1>4, <1>5 DEF BeforeBlock
<1>7. BlockSent => BlockSent'
  BY <1>4, <1>5 DEF BlockSent
<1>8. Answered => Answered'
  BY <1>4, <1>5 DEF Answered
<1>9. LastBlockSent => LastBlockSent'
  BY <1>4, <1>5 DEF LastBlockSent, Line
<1>. QED  BY <1>1, <1>2, <1>3, <1>6, <1>7, <1>8, <1>9 DEF Together

LEMMA DumpInv == ASSUME DebuggerInv, Dump PROVE DebuggerInv'
<1>1. UiOK'
  BY DEF DebuggerInv, UiOK, Dump, Waits
<1>2. ASSUME Active' PROVE DebuggerTypeOK' /\ Together'
  <2>1. DebuggerTypeOK /\ BeforeBlock
    BY <1>2 DEF DebuggerInv, Active, Dump, Together, BlockSent, BlockIsRead,
                BlockRead, Answered, LastBlockSent
  <2>2. /\ bench' = [bench EXCEPT !.pc = "wait"] /\ lines' = lines \o Block
    BY <2>1 DEF Dump, Prints, BeforeBlock, Complete, Keys
  <2>3. lines' = Rest(0, bench.edge)
    <3>1. Block = Rest(0, bench.edge)
      BY <2>1, BlockIs DEF DebuggerTypeOK
    <3>2. Rest(0, bench.edge) \in Seq(OneLine)
      BY <2>1, RestIs, 0 \in 0 .. REGS + 2 DEF DebuggerTypeOK
    <3>. QED  BY <2>1, <2>2, <3>1, <3>2, ConcatEmptySeq DEF BeforeBlock
  <2>4. DebuggerTypeOK'
    BY <2>1, <2>2 DEF DebuggerTypeOK, Dump
  <2>5. BlockSent'
    BY <2>1, <2>2, <2>3
       DEF BlockSent, BeforeBlock, Complete, Ring, Dump, DebuggerTypeOK
  <2>. QED  BY <2>4, <2>5 DEF Together
<1>. QED  BY <1>1, <1>2 DEF DebuggerInv, Active

LEMMA HaltInv == ASSUME DebuggerInv, Halt PROVE DebuggerInv'
<1>1. UiOK'
  BY DEF DebuggerInv, UiOK, Halt, Waits
<1>2. ASSUME Active' PROVE DebuggerTypeOK' /\ Together'
  <2> DEFINE last == <<Line(""), Line("DONE"), Line("")>>
  <2>1. DebuggerTypeOK /\ BeforeBlock
    BY <1>2 DEF DebuggerInv, Active, Halt, Together, BlockSent, BlockIsRead,
                BlockRead, Answered, LastBlockSent
  <2>2. /\ bench' = [bench EXCEPT !.pc = "wait"] /\ lines' = lines \o last
    BY <2>1 DEF Halt, Prints, BeforeBlock, Complete, Keys
  <2>3. lines' = last
    <3>1. last \in Seq({Line(""), Line("DONE")})
      OBVIOUS
    <3>. HIDE DEF last
    <3>. QED  BY <2>1, <2>2, <3>1, ConcatEmptySeq DEF BeforeBlock
  <2>4. DebuggerTypeOK'
    BY <2>1, <2>2 DEF DebuggerTypeOK, Halt
  <2>5. bench'.edge = bench.edge /\ bench'.halt = bench.halt /\ bench'.pc = "wait"
    BY <2>1, <2>2 DEF DebuggerTypeOK
  <2>6. LastBlockSent'
    BY <2>1, <2>3, <2>5 DEF LastBlockSent, BeforeBlock, Complete, Ring, Halt, Line
  <2>. QED  BY <2>4, <2>6 DEF Together
<1>. QED  BY <1>1, <1>2 DEF DebuggerInv, Active

LEMMA ResponseInv == ASSUME DebuggerInv, waitforresponse PROVE DebuggerInv'
<1>1. UiOK'
  BY DEF DebuggerInv, UiOK, waitforresponse, Waits
<1>2. ASSUME Active' PROVE DebuggerTypeOK' /\ Together'
  <2>1. DebuggerTypeOK /\ Answered
    BY <1>2 DEF DebuggerInv, Active, waitforresponse, Together, BlockSent,
                BlockIsRead, BlockRead, BeforeBlock, LastBlockSent
  <2>2. Head(answers) = "n" /\ Len(answers) = 3
    BY <2>1 DEF Answered
  <2>3. /\ bench' = [bench EXCEPT !.pc = "dump", !.edge = @ + 1]
        /\ answers' = SubSeq(answers, 4, Len(answers))
    BY <2>2 DEF waitforresponse
  <2>4. answers' = <<>>
    BY <2>2, <2>3, SubSeqEmpty
  <2>5. /\ bench'.edge = bench.edge + 1 /\ bench'.halt = bench.halt
        /\ bench'.pc = "dump"
        /\ bench' \in [pc : {"dump", "wait", "ended"}, edge : Nat, halt : Nat]
    <3>1. bench \in [pc : {"dump", "wait", "ended"}, edge : Nat, halt : Nat]
      BY <2>1 DEF DebuggerTypeOK
    <3>2. bench.edge + 1 \in Nat
      BY <3>1
    <3>3. bench' = [bench EXCEPT !.pc = "dump", !.edge = bench.edge + 1]
      BY <2>3
    <3>. QED  BY <3>1, <3>2, <3>3
  <2>6. DebuggerTypeOK'
    BY <2>1, <2>5 DEF DebuggerTypeOK, waitforresponse, Answered
  <2>7. BeforeBlock'
    BY <2>1, <2>4, <2>5
       DEF BeforeBlock, Answered, Complete, Ring, waitforresponse
  <2>. QED  BY <2>6, <2>7 DEF Together
<1>. QED  BY <1>1, <1>2 DEF DebuggerInv, Active

\* The place that is written is not one that the ring still needs.
LEMMA RingKept ==
  ASSUME NEW n \in Nat, Ring(n), hist' \in History, hist \in History,
         hist'.history_num = hist.history_num,
         hist'.time_wrapped = hist.time_wrapped,
         \A s \in Slot \ {n % NUM_HISTORY} : hist'.contents[s] = hist.contents[s]
  PROVE  Ring(n)'
<1>1. ASSUME NEW old \in 0 .. n - 1, n - old < NUM_HISTORY
      PROVE  hist'.contents[old % NUM_HISTORY] = Whole(old)
  <2>1. old \in Nat /\ old < n
    OBVIOUS
  <2>2. old % NUM_HISTORY \in Slot \ {n % NUM_HISTORY}
    BY <1>1, <2>1, PlacesDiffer, PlaceIs
  <2>. QED  BY <1>1, <2>2 DEF Ring
<1>. QED  BY <1>1 DEF Ring

\* A step that writes a place, and goes on to register r.
Written(s, new, r) ==
  /\ hist' \in History
  /\ hist'.contents[s] = new
  /\ hist'.if_reg_num = r
  /\ hist'.history_num = hist.history_num
  /\ hist'.time_wrapped = hist.time_wrapped
  /\ \A p \in Slot \ {s} : hist'.contents[p] = hist.contents[p]

LEMMA WriteIs ==
  ASSUME NEW s \in Slot, NEW new \in Entry, hist \in History,
         hist' = [hist EXCEPT !.contents = [hist.contents EXCEPT ![s] = new]]
  PROVE  Written(s, new, hist.if_reg_num)
<1> DEFINE c == [hist.contents EXCEPT ![s] = new]
<1>1. /\ c \in [Slot -> Entry] /\ c[s] = new
      /\ \A p \in Slot \ {s} : c[p] = hist.contents[p]
  BY DEF History
<1> HIDE DEF c
<1>2. hist' = [hist EXCEPT !.contents = c]
  BY DEF c
<1>3. /\ hist' \in History /\ hist'.contents = c
      /\ hist'.if_reg_num = hist.if_reg_num
      /\ hist'.history_num = hist.history_num
      /\ hist'.time_wrapped = hist.time_wrapped
  BY <1>1, <1>2 DEF History
<1>. QED  BY <1>1, <1>3 DEF Written

LEMMA WriteRegisterIs ==
  ASSUME NEW s \in Slot, NEW new \in Entry, NEW r \in 0 .. REGS, hist \in History,
         hist' = [hist EXCEPT !.contents = [hist.contents EXCEPT ![s] = new],
                              !.if_reg_num = r]
  PROVE  Written(s, new, r)
<1> DEFINE c == [hist.contents EXCEPT ![s] = new]
<1>1. /\ c \in [Slot -> Entry] /\ c[s] = new
      /\ \A p \in Slot \ {s} : c[p] = hist.contents[p]
  BY DEF History
<1> HIDE DEF c
<1>2. hist' = [hist EXCEPT !.contents = c, !.if_reg_num = r]
  BY DEF c
<1>3. /\ hist' \in History /\ hist'.contents = c
      /\ hist'.if_reg_num = r
      /\ hist'.history_num = hist.history_num
      /\ hist'.time_wrapped = hist.time_wrapped
  BY <1>1, <1>2 DEF History
<1>. QED  BY <1>1, <1>3 DEF Written

\* A line of a block takes its part of it over.
LEMMA LineInv ==
  ASSUME UiOK, DebuggerTypeOK, BlockSent \/ BlockIsRead, ui.pc = "read", ReadLine
  PROVE  DebuggerTypeOK' /\ Together'
<1>0. PICK e \in Nat : e = bench.edge
  BY DEF DebuggerTypeOK
<1> DEFINE s == e % NUM_HISTORY
           place == hist.contents[s]
<1>1. /\ s \in Slot /\ hist \in History /\ hist.history_num = s
      /\ bench.pc = "wait" /\ answers = <<>> /\ e < bench.halt /\ Ring(e)
  BY <1>0, PlaceIs DEF DebuggerTypeOK, BlockSent, BlockIsRead, Ring, Complete
<1>2. PICK k \in 0 .. REGS + 2 :
        lines = Rest(k, e) /\ IF k = 0 THEN hist.if_reg_num = 0 ELSE Partial(k, e)
  BY <1>0 DEF BlockSent, BlockIsRead, Complete
<1>3. /\ Head(lines) = BlockLine(k + 1, e) /\ lines' = Rest(k + 1, e)
  BY <1>1, <1>2, RestIs DEF ReadLine
<1>4. UNCHANGED <<bench, answers>>
  BY DEF ReadLine
<1>5. hist' = processinput(hist, BlockLine(k + 1, e))
  BY <1>3 DEF ReadLine
<1>6. ui'.pc = IF Kind(k + 1) = "break" THEN "present" ELSE "read"
  <2>1. Head(lines).kind = Kind(k + 1) /\ Kind(k + 1) # "DONE"
    BY <1>3 DEF BlockLine, Kind
  <2>. QED  BY <2>1 DEF ReadLine, UiOK
<1>7. place \in Entry /\ hist.if_reg_num \in 0 .. REGS
  BY <1>1 DEF History
<1> HIDE DEF s
<1>8. ASSUME NEW new \in Entry, k < REGS + 2,
             Written(s, new, IF k = 0 THEN 0 ELSE k - 1),
             new.cycle = e \div 2, k >= 1 => new.time = e,
             \A j \in 0 .. REGS - 1 : j < k - 1 => new.regs[j] = e
      PROVE  DebuggerTypeOK' /\ Together'
  <2>1. /\ hist' \in History
        /\ hist'.contents[s] = new
        /\ hist'.if_reg_num = IF k = 0 THEN 0 ELSE k - 1
        /\ hist'.history_num = hist.history_num
        /\ hist'.time_wrapped = hist.time_wrapped
        /\ \A p \in Slot \ {s} : hist'.contents[p] = hist.contents[p]
    BY <1>8 DEF Written
  <2>2. Ring(e)'
    BY <1>1, <2>1, RingKept DEF s
  <2>3. Partial(k + 1, e)'
    BY <1>8, <2>1 DEF Partial, s
  <2>4. ui'.pc = "read"
    BY <1>6, <1>8 DEF Kind
  <2>5. BlockIsRead'
    <3>1. k + 1 \in 1 .. REGS + 2
      BY <1>8
    <3>. QED  BY <1>0, <1>1, <1>3, <1>4, <2>2, <2>3, <2>4, <3>1 DEF BlockIsRead
  <2>. QED  BY <1>4, <2>1, <2>5 DEF DebuggerTypeOK, Together
<1>9. CASE k = 0
  <2> DEFINE new == [place EXCEPT !.cycle = e \div 2]
  <2>1. hist' = [hist EXCEPT !.contents = [hist.contents EXCEPT ![s] = new]]
    BY <1>1, <1>5, <1>9 DEF processinput, Stamp, BlockLine, Kind
  <2>2. e \div 2 \in Int
    OBVIOUS
  <2>3. new \in Entry /\ new.cycle = e \div 2
    BY <1>7, <2>2 DEF Entry
  <2> HIDE DEF new
  <2>4. Written(s, new, 0)
    BY <1>1, <1>2, <1>9, <2>1, <2>3, WriteIs
  <2>. QED  BY <1>8, <1>9, <2>3, <2>4
<1>10. CASE k = 1
  <2> DEFINE new == [place EXCEPT !.time = e]
  <2>1. hist' = [hist EXCEPT !.contents = [hist.contents EXCEPT ![s] = new]]
    BY <1>1, <1>5, <1>10 DEF processinput, Stamp, BlockLine, Kind
  <2>2. place.cycle = e \div 2 /\ hist.if_reg_num = 0
    BY <1>2, <1>10 DEF Partial, s
  <2>3. new \in Entry /\ new.cycle = e \div 2 /\ new.time = e
    BY <1>7, <2>2 DEF Entry
  <2> HIDE DEF new
  <2>4. Written(s, new, 0)
    BY <1>1, <2>1, <2>2, <2>3, WriteIs
  <2>. QED  BY <1>8, <1>10, <2>3, <2>4
<1>11. CASE k \in 2 .. REGS + 1
  <2> DEFINE regs == [place.regs EXCEPT ![k - 2] = e]
             new == [place EXCEPT !.regs = regs]
  <2>1. /\ place.cycle = e \div 2 /\ place.time = e /\ hist.if_reg_num = k - 2
        /\ \A j \in 0 .. REGS - 1 : j < k - 2 => place.regs[j] = e
    BY <1>2, <1>11 DEF Partial, s
  <2>2. hist' = [hist EXCEPT !.contents = [hist.contents EXCEPT ![s] = new],
                             !.if_reg_num = k - 2 + 1]
    BY <1>1, <1>5, <1>11, <2>1 DEF processinput, Register, BlockLine, Kind
  <2>3. /\ regs \in [0 .. REGS - 1 -> Int]
        /\ \A j \in 0 .. REGS - 1 : j < k - 1 => regs[j] = e
    <3>. HIDE DEF place
    <3>1. place.regs \in [0 .. REGS - 1 -> Int] /\ k - 2 \in 0 .. REGS - 1
      BY <1>7, <1>11 DEF Entry
    <3>2. \A j \in 0 .. REGS - 1 : j < k - 1 => j = k - 2 \/ j < k - 2
      BY <1>11
    <3>. QED  BY <2>1, <3>1, <3>2
  <2> HIDE DEF regs
  <2>4. new \in Entry /\ new.cycle = e \div 2 /\ new.time = e /\ new.regs = regs
    BY <1>7, <2>1, <2>3 DEF Entry
  <2> HIDE DEF new
  <2>5. k - 2 + 1 = k - 1 /\ k # 0 /\ k < REGS + 2 /\ k - 1 \in 0 .. REGS
    BY <1>11
  <2>6. Written(s, new, k - 1)
    BY <1>1, <2>2, <2>4, <2>5, WriteRegisterIs
  <2>. QED  BY <1>8, <2>3, <2>4, <2>5, <2>6
<1>12. CASE k = REGS + 2
  <2>1. hist' = [hist EXCEPT !.setup_registers = TRUE, !.if_reg_num = 0]
    BY <1>1, <1>5, <1>12 DEF processinput, EndOfBlock, BlockLine, Kind
  <2>2. /\ hist' \in History /\ hist'.contents = hist.contents
        /\ hist'.history_num = hist.history_num
        /\ hist'.time_wrapped = hist.time_wrapped /\ hist'.if_reg_num = 0
    <3>1. 0 \in 0 .. REGS
      OBVIOUS
    <3>. QED  BY <1>1, <2>1, <3>1 DEF History
  <2>3. place = Whole(e)
    <3>2. /\ place.cycle = e \div 2 /\ place.time = e
          /\ \A r \in 0 .. REGS - 1 : place.regs[r] = e
      BY <1>1, <1>2, <1>12 DEF Partial, s
    <3>3. place.regs = [r \in 0 .. REGS - 1 |-> e]
      BY <1>7, <3>2 DEF Entry
    <3>. QED  BY <1>7, <3>2, <3>3 DEF Whole, Entry
  <2>4. Ring(e)'
    BY <1>1, <2>2 DEF Ring
  <2>5. lines' = <<>>
    BY <1>3, <1>12, RestIs, 0 \in 0 .. REGS + 2, k + 1 = REGS + 3
  <2>6. ui'.pc = "present"
    BY <1>6, <1>12 DEF Kind
  <2>7. BlockRead'
    BY <1>0, <1>1, <1>4, <2>2, <2>3, <2>4, <2>5, <2>6 DEF BlockRead, s
  <2>. QED  BY <1>4, <2>2, <2>7 DEF DebuggerTypeOK, Together
<1>. QED  BY <1>9, <1>10, <1>11, <1>12

LEMMA ReadLineInv == ASSUME DebuggerInv, ReadLine PROVE DebuggerInv'
<1>1. UiOK'
  BY DEF DebuggerInv, UiOK, ReadLine, Waits
<1>2. ASSUME Active' PROVE DebuggerTypeOK' /\ Together'
  <2>1. DebuggerTypeOK /\ (BlockSent \/ BlockIsRead \/ LastBlockSent)
    BY DEF DebuggerInv, ReadLine, Together, BlockRead, Answered, BeforeBlock
  <2>2. CASE BlockSent \/ BlockIsRead
    BY <2>1, <2>2, LineInv DEF ReadLine, DebuggerInv
  <2>3. CASE LastBlockSent
    <3>1. lines = <<Line(""), Line("DONE"), Line("")>>
      <4>1. Head(lines).kind # "DONE"
        BY <1>2 DEF Active, ReadLine, DebuggerInv, UiOK
      <4>2. Head(<<Line("DONE"), Line("")>>).kind = "DONE"
        BY DEF Line
      <4>. QED  BY <2>3, <4>1, <4>2 DEF LastBlockSent
    <3>2. /\ Head(lines) = Line("") /\ Tail(lines) = <<Line("DONE"), Line("")>>
      <4> DEFINE a == Line("")  b == Line("DONE")
      <4> HIDE DEF a, b
      <4>. SUFFICES Head(<<a, b, a>>) = a /\ Tail(<<a, b, a>>) = <<b, a>>
        BY <3>1 DEF a, b
      <4>. QED  OBVIOUS
    <3>3. UNCHANGED <<hist, bench, answers>> /\ ui'.pc = "read"
      <4>0. Line("").kind = ""
        BY DEF Line
      <4>1. Head(lines).kind = ""
        BY <3>2, <4>0
      <4>2. hist' = hist
        BY <4>1 DEF ReadLine, processinput
      <4>3. ui'.pc = "read"
        BY <4>1 DEF ReadLine, DebuggerInv, UiOK
      <4>. QED  BY <4>2, <4>3 DEF ReadLine
    <3>4. lines' = <<Line("DONE"), Line("")>>'
      BY <3>2, <3>3 DEF ReadLine, Line
    <3>5. LastBlockSent'
      BY <2>3, <3>3, <3>4 DEF LastBlockSent, Complete, Ring, Keys
    <3>. QED  BY <2>1, <3>3, <3>5 DEF DebuggerTypeOK, Together
  <2>. QED  BY <2>1, <2>2, <2>3
<1>. QED  BY <1>1, <1>2 DEF DebuggerInv, Active

LEMMA ReadNothingInv == ASSUME DebuggerInv, ReadNothing PROVE DebuggerInv'
BY DEF DebuggerInv, UiOK, ReadNothing, Waits

\* The block that has been read takes its place in the ring.
LEMMA PresentInv == ASSUME DebuggerInv, Present PROVE DebuggerInv'
<1> DEFINE stops == ~ui.echo_data /\ ui.done_received
           num == IF stops THEN Rem(hist.history_num - 1) ELSE hist.history_num
           echo == ui.echo_data \/ stops
<1>1. /\ ui.pc = "present"
      /\ hist' = Recorded(hist, num)
      /\ IF echo THEN parsedata(num) ELSE UNCHANGED shown
      /\ answers' = IF ui.done_received THEN answers
                    ELSE answers \o <<"n", "0", "0">>
      /\ ui' \in [pc : {"keys"} \cup (IF echo /\ num < 0 THEN {"crashed"} ELSE {}),
                  hist_num_temp : {Newest(Rem(num + 1))},
                  running : {ui.running /\ ~stops}, echo_data : {echo},
                  goto_flag : {ui.goto_flag}, cycle_flag : {ui.cycle_flag},
                  stop_time : {ui.stop_time}, i : {ui.i},
                  done_received : {ui.done_received}]
      /\ UNCHANGED <<bench, lines>>
  BY DEF Present
<1>2. UiOK
  BY DEF DebuggerInv
<1>3. /\ DOMAIN ui' = {"pc", "hist_num_temp", "running", "echo_data", "goto_flag",
                       "cycle_flag", "stop_time", "i", "done_received"}
      /\ ui' = [x \in DOMAIN ui' |-> ui'[x]]
      /\ ui'.hist_num_temp = Newest(Rem(num + 1))
      /\ ui'.running = (ui.running /\ ~stops) /\ ui'.echo_data = echo
      /\ ui'.done_received = ui.done_received
      /\ ui'.pc \in {"keys"} \cup (IF echo /\ num < 0 THEN {"crashed"} ELSE {})
  <2> HIDE DEF stops, num, echo
  <2>. QED  BY <1>1
<1>4. CASE ui.done_received
  <2>1. ui.running \in BOOLEAN /\ ui.echo_data \in BOOLEAN
    BY <1>2 DEF UiOK
  <2>2. UiOK'
    BY <1>2, <1>3, <1>4, <2>1 DEF UiOK
  <2>. QED  BY <1>3, <1>4, <2>2 DEF DebuggerInv
<1>5. CASE ~ui.done_received
  <2>1. ~stops /\ num = hist.history_num /\ (echo <=> ui.echo_data)
    BY <1>2, <1>5 DEF UiOK
  <2>2. DebuggerTypeOK /\ BlockRead
    BY <1>1, <1>5 DEF DebuggerInv, Together, BeforeBlock, BlockSent, BlockIsRead,
                      Answered, LastBlockSent, Complete, Keys
  <2>3. PICK n \in Nat : n = bench.edge
    BY <2>2 DEF DebuggerTypeOK
  <2> DEFINE s == n % NUM_HISTORY
  <2>4. /\ s \in Slot /\ hist \in History /\ hist.history_num = s /\ Ring(n)
        /\ hist.contents[s] = Whole(n) /\ hist.if_reg_num = 0
        /\ lines = <<>> /\ answers = <<>> /\ bench.pc = "wait" /\ n < bench.halt
    BY <2>2, <2>3, PlaceIs DEF BlockRead, DebuggerTypeOK, Ring
  <2>5. /\ ui'.pc = "keys" /\ ui'.hist_num_temp = s
        /\ ~ui.running => shown' = s
    <3>1. ~(num < 0)
      BY <2>1, <2>4 DEF Slot
    <3>2. Newest(Rem(num + 1)) = s
      BY <2>1, <2>4, RemIs
    <3>3. ~ui.running => shown' = num
      BY <1>1, <1>2, <2>1 DEF UiOK, parsedata
    <3>. QED  BY <1>3, <2>1, <2>4, <3>1, <3>2, <3>3
  <2>6. UiOK'
    <3>1. ui.running \in BOOLEAN /\ ui.echo_data \in BOOLEAN /\ (~ui.running => ui.echo_data)
      BY <1>2 DEF UiOK
    <3>2. ui'.running = ui.running /\ ui'.echo_data = ui.echo_data
      BY <1>3, <2>1, <3>1
    <3>3. Waits' => ~ui.running
      BY <3>2 DEF Waits
    <3>4. /\ ui'.done_received = FALSE
          /\ Waits' => shown' = ui'.hist_num_temp
      BY <1>3, <1>5, <2>5, <3>3
    <3> HIDE DEF stops, num, echo
    <3>. QED  BY <1>3, <3>1, <3>2, <3>4 DEF UiOK
  <2>7. answers' = <<"n", "0", "0">>
    <3> DEFINE a == <<"n", "0", "0">>
    <3>1. a \in Seq({"n", "0"})
      OBVIOUS
    <3> HIDE DEF a
    <3>2. <<>> \o a = a
      BY <3>1, ConcatEmptySeq
    <3>. QED  BY <1>1, <1>5, <2>4, <3>2 DEF a
  <2>8. /\ hist' \in History /\ hist'.contents = hist.contents
        /\ hist'.history_num = (n + 1) % NUM_HISTORY
        /\ hist'.time_wrapped = (hist.time_wrapped \/ s + 1 = NUM_HISTORY)
        /\ hist'.if_reg_num = 0
    <3>1. hist' = [hist EXCEPT !.history_num = (n + 1) % NUM_HISTORY,
                               !.time_wrapped = hist.time_wrapped \/ s + 1 = NUM_HISTORY]
      BY <1>1, <2>1, <2>4, RemIs DEF Recorded
    <3>2. (n + 1) % NUM_HISTORY \in Slot
      BY PlaceIs
    <3>. QED  BY <2>4, <3>1, <3>2 DEF History
  <2>9. n + 1 >= NUM_HISTORY <=> (n >= NUM_HISTORY \/ s + 1 = NUM_HISTORY)
    OBVIOUS
  <2> HIDE DEF s
  <2>10. Ring(n + 1)'
    <3>1. ASSUME NEW old \in 0 .. n + 1 - 1, n + 1 - old < NUM_HISTORY
          PROVE  hist'.contents[old % NUM_HISTORY] = Whole(old)
      <4>1. CASE old = n
        BY <2>4, <2>8, <4>1 DEF s
      <4>2. CASE old \in 0 .. n - 1
        BY <2>4, <2>8, <3>1, <4>2 DEF Ring
      <4>. QED  BY <4>1, <4>2
    <3>2. hist'.time_wrapped <=> n + 1 >= NUM_HISTORY
      BY <2>4, <2>8, <2>9 DEF Ring
    <3>. QED  BY <2>8, <3>1, <3>2 DEF Ring
  <2>11. ASSUME n + 1 >= NUM_HISTORY
         PROVE  hist'.contents[(n + 1) % NUM_HISTORY] = Whole(n + 1 - NUM_HISTORY)
    <3> DEFINE old == n + 1 - NUM_HISTORY
    <3>1. old \in 0 .. n /\ old % NUM_HISTORY = (n + 1) % NUM_HISTORY
      <4>1. n + 1 \in Nat /\ old \in 0 .. n
        BY <2>11
      <4>2. PICK m \in Nat : m = n + 1
        BY <4>1
      <4>3. (m - NUM_HISTORY) % NUM_HISTORY = m % NUM_HISTORY
        BY <2>11, <4>2, PlaceAround
      <4>. QED  BY <4>1, <4>2, <4>3
    <3>2. CASE old = n
      BY <2>4, <2>8, <3>1, <3>2 DEF s
    <3>3. CASE old \in 0 .. n - 1
      BY <2>4, <2>8, <3>1, <3>3 DEF Ring
    <3>. QED  BY <3>1, <3>2, <3>3
  <2>12. Complete(n + 1)'
    BY <2>5, <2>8, <2>10, <2>11 DEF Complete, Keys
  <2>13. Answered'
    BY <1>1, <2>3, <2>4, <2>7, <2>12 DEF Answered
  <2>14. DebuggerTypeOK'
    BY <1>1, <2>2, <2>8 DEF DebuggerTypeOK
  <2>. QED  BY <2>6, <2>13, <2>14 DEF DebuggerInv, Together
<1>. QED  BY <1>4, <1>5

\* What the keys and the run do, and that they leave the rest alone.
LEMMA MoveInv ==
  ASSUME DebuggerInv, ui.pc \in {"keys", "check", "quit"},
         UNCHANGED <<bench, lines, answers, hist>>,
         ui'.pc \in Keys, ui'.done_received = ui.done_received, UiOK'
  PROVE  DebuggerInv'
<1>1. ASSUME Active' PROVE DebuggerTypeOK' /\ Together'
  BY <1>1, KeyKeeps DEF Active
<1>. QED  BY <1>1 DEF DebuggerInv, Active

LEMMA KeyInv ==
  ASSUME DebuggerInv, KeyNext \/ KeyBack \/ KeyRun \/ KeyQuit \/ KeyPause \/ RunsOn
  PROVE  DebuggerInv'
<1>0. UiOK
  BY DEF DebuggerInv
<1>1. CASE KeyNext
  BY <1>0, <1>1, MoveInv
     DEF KeyNext, Moves, GoesOn, Ignored, Stays, parsedata, UiOK, Waits, Keys
<1>2. CASE KeyBack
  BY <1>0, <1>2, MoveInv
     DEF KeyBack, Moves, GoesOn, Ignored, Stays, parsedata, UiOK, Waits, Keys
<1>3. CASE KeyRun
  BY <1>0, <1>3, MoveInv DEF KeyRun, GoesOn, Stays, parsedata, UiOK, Waits, Keys
<1>4. CASE KeyQuit
  BY <1>0, <1>4, MoveInv DEF KeyQuit, Stays, parsedata, UiOK, Waits, Keys
<1>5. CASE KeyPause
  BY <1>0, <1>5, MoveInv DEF KeyPause, Stays, parsedata, UiOK, Waits, Keys
<1>6. CASE RunsOn
  BY <1>0, <1>6, MoveInv DEF RunsOn, GoesOn, Stays, parsedata, UiOK, Waits, Keys
<1>. QED  BY <1>1, <1>2, <1>3, <1>4, <1>5, <1>6

\* Wherever the search ends, the keys move from the place that is shown.
LEMMA KeyGotoInv == ASSUME DebuggerInv, KeyGoto PROVE DebuggerInv'
<1>0. UiOK /\ Waits
  BY DEF DebuggerInv, KeyGoto
<1>1. PICK stop \in get_time, cycle \in BOOLEAN :
      \E cur \in Times(ui.hist_num_temp, cycle) :
        LET delta == IF stop > cur THEN 1 ELSE -1
        IN  \E end \in SearchEnds(delta, stop, cycle) :
              LET gives_up == /\ end.i = hist.history_num
                              /\ delta = -1 \/ ui.done_received
                  stop_time == IF gives_up THEN 0 ELSE end.stop
                  place == IF end.place = None THEN ui.hist_num_temp
                           ELSE end.place
                  new == [ui EXCEPT !.cycle_flag = cycle, !.i = end.i,
                                    !.stop_time = stop_time,
                                    !.hist_num_temp = place]
              IN  IF stop_time > 0
                  THEN GoesOn([new EXCEPT !.echo_data = FALSE, !.running = TRUE,
                                          !.goto_flag = TRUE])
                  ELSE Stays(new, IF end.place = None THEN shown ELSE place)
  BY DEF KeyGoto
<1>2. PICK delta, end, stop_time :
        LET place == IF end.place = None THEN ui.hist_num_temp ELSE end.place
            new == [ui EXCEPT !.cycle_flag = cycle, !.i = end.i,
                              !.stop_time = stop_time, !.hist_num_temp = place]
        IN  \/ GoesOn([new EXCEPT !.echo_data = FALSE, !.running = TRUE,
                                  !.goto_flag = TRUE])
            \/ Stays(new, IF end.place = None THEN shown ELSE place)
  BY <1>1
<1> DEFINE place == IF end.place = None THEN ui.hist_num_temp ELSE end.place
           new == [ui EXCEPT !.cycle_flag = cycle, !.i = end.i,
                             !.stop_time = stop_time, !.hist_num_temp = place]
<1>3. /\ new.pc = "keys" /\ new.running = FALSE
      /\ new.echo_data = ui.echo_data /\ new.done_received = ui.done_received
      /\ new.hist_num_temp = place
      /\ DOMAIN new = DOMAIN ui /\ new = [x \in DOMAIN ui |-> new[x]]
  BY <1>0 DEF UiOK, Waits
<1>4. \/ GoesOn([new EXCEPT !.echo_data = FALSE, !.running = TRUE,
                            !.goto_flag = TRUE])
      \/ Stays(new, IF end.place = None THEN shown ELSE place)
  BY <1>2
<1>5. (IF end.place = None THEN shown ELSE place) = place \/
        ((IF end.place = None THEN shown ELSE place) = shown
          /\ place = ui.hist_num_temp)
  OBVIOUS
<1> HIDE DEF new, place
<1>6. CASE GoesOn([new EXCEPT !.echo_data = FALSE, !.running = TRUE,
                              !.goto_flag = TRUE])
  BY <1>0, <1>3, <1>6, MoveInv DEF GoesOn, Stays, UiOK, Waits, Keys
<1>7. CASE Stays(new, IF end.place = None THEN shown ELSE place)
  BY <1>0, <1>3, <1>5, <1>7, MoveInv DEF Stays, parsedata, UiOK, Waits, Keys
<1>. QED  BY <1>4, <1>6, <1>7

LEMMA CheckInv == ASSUME DebuggerInv, Check PROVE DebuggerInv'
<1>0. UiOK
  BY DEF DebuggerInv
<1>1. PICK there \in BOOLEAN :
        ui' = [ui EXCEPT !.pc = "read", !.goto_flag = @ /\ ~there,
                         !.echo_data = @ \/ there, !.running = @ /\ ~there]
  BY DEF Check
<1>2. UiOK'
  BY <1>0, <1>1 DEF UiOK, Waits
<1>. QED  BY <1>0, <1>1, <1>2, MoveInv DEF Check, Keys, UiOK

LEMMA QuitInv == ASSUME DebuggerInv, Quit PROVE DebuggerInv'
BY DEF DebuggerInv, UiOK, Quit, Waits

LEMMA DebuggerInvInductive == DebuggerInv /\ [DebuggerNext]_debuggerVars => DebuggerInv'
<1> SUFFICES ASSUME DebuggerInv, [DebuggerNext]_debuggerVars PROVE DebuggerInv'
  OBVIOUS
<1>1. CASE BenchStep
  BY <1>1, DumpInv, HaltInv, ResponseInv DEF BenchStep
<1>2. CASE ChildStep
  BY <1>2, ReadLineInv, ReadNothingInv, PresentInv, KeyInv, CheckInv, QuitInv
     DEF ChildStep
<1>3. CASE Key
  BY <1>3, KeyInv, KeyGotoInv DEF Key
<1>4. CASE UNCHANGED debuggerVars
  BY <1>4 DEF debuggerVars, DebuggerInv, UiOK, Waits, DebuggerTypeOK, Together,
              BeforeBlock, BlockSent, BlockIsRead, BlockRead, Answered,
              LastBlockSent, Complete, Ring, Partial, Line
<1>. QED  BY <1>1, <1>2, <1>3, <1>4 DEF DebuggerNext

LEMMA InvImpliesRing == DebuggerInv => RingHoldsLastEdges
<1> SUFFICES ASSUME DebuggerInv, Waits, ~ui.done_received
             PROVE  \E e \in 0 .. EDGES - 1 :
                      /\ bench.edge = e \/ bench.edge = e + 1
                      /\ answers = <<>> <=> bench.edge = e + 1
                      /\ hist.history_num = (e + 1) % NUM_HISTORY
                      /\ hist.time_wrapped <=> e + 1 >= NUM_HISTORY
                      /\ \A old \in 0 .. e :
                           e - old < NUM_HISTORY
                             => hist.contents[old % NUM_HISTORY] = Whole(old)
                      /\ shown = ui.hist_num_temp
  BY DEF RingHoldsLastEdges
<1>1. /\ DebuggerTypeOK /\ Together /\ shown = ui.hist_num_temp
      /\ ~BlockIsRead /\ ~BlockRead
  BY DEF DebuggerInv, UiOK, Waits, BlockIsRead, BlockRead
<1>2. bench.edge \in Nat /\ bench.edge =< bench.halt /\ bench.halt =< EDGES
      /\ bench.halt \in Nat
  BY <1>1 DEF DebuggerTypeOK
<1>3. ASSUME NEW n \in Nat, Complete(n)
      PROVE  /\ n >= 1
             /\ hist.history_num = n % NUM_HISTORY
             /\ hist.time_wrapped <=> n >= NUM_HISTORY
             /\ \A old \in 0 .. n - 1 :
                  n - 1 - old < NUM_HISTORY
                    => hist.contents[old % NUM_HISTORY] = Whole(old)
  <2>1. n >= 1
    BY <1>3 DEF Complete, Waits
  <2>2. ASSUME NEW old \in 0 .. n - 1, n - 1 - old < NUM_HISTORY
        PROVE  hist.contents[old % NUM_HISTORY] = Whole(old)
    <3>1. CASE n - old < NUM_HISTORY
      BY <1>3, <3>1 DEF Complete, Ring
    <3>2. CASE n - old = NUM_HISTORY
      <4>1. n >= NUM_HISTORY /\ old = n - NUM_HISTORY
        BY <3>2
      <4>2. old % NUM_HISTORY = n % NUM_HISTORY
        BY <4>1, PlaceAround
      <4>. QED  BY <1>3, <4>1, <4>2 DEF Complete
    <3>. QED  BY <2>2, <3>1, <3>2
  <2>. QED  BY <1>3, <2>1, <2>2 DEF Complete, Ring
<1>4. CASE Answered
  <2>1. bench.edge \in 0 .. EDGES - 1 /\ answers # <<>>
    BY <1>2, <1>4 DEF Answered
  <2>2. bench.edge + 1 \in Nat /\ Complete(bench.edge + 1)
    BY <1>2, <1>4 DEF Answered
  <2>3. bench.edge + 1 - 1 = bench.edge /\ bench.edge # bench.edge + 1
    BY <1>2
  <2> USE <2>1
  <2> WITNESS bench.edge \in 0 .. EDGES - 1
  <2>. QED  BY <1>1, <1>3, <2>1, <2>2, <2>3
<1>5. CASE BeforeBlock \/ BlockSent \/ LastBlockSent
  <2>1. Complete(bench.edge) /\ answers = <<>>
    BY <1>5 DEF BeforeBlock, BlockSent, LastBlockSent
  <2>2. /\ bench.edge - 1 \in 0 .. EDGES - 1
        /\ bench.edge - 1 + 1 = bench.edge
    BY <1>2, <1>3, <2>1
  <2> USE <2>2
  <2> WITNESS bench.edge - 1 \in 0 .. EDGES - 1
  <2>. QED  BY <1>1, <1>2, <1>3, <2>1, <2>2
<1>. QED  BY <1>1, <1>4, <1>5 DEF Together

\* The debugger and the test bench keep to their protocol, whatever the keys
\* are and when they come: what visual_c_hooks.cpp reads is one block, in its
\* order, and the test bench waits while it is read.
THEOREM DebuggerIsInv == DebuggerSpec => []DebuggerInv
<1>. QED  BY InitInv, DebuggerInvInductive, PTL DEF DebuggerSpec

\* While a key is waited for, the ring of visual_c_hooks.cpp holds the last
\* blocks, whole and in their places, and the screen shows the place from
\* which the keys move, for every size of the ring, of a block and of a
\* simulation.
THEOREM RingIsRight == DebuggerSpec => []RingHoldsLastEdges
BY DebuggerIsInv, InvImpliesRing, PTL

-----------------------------------------------------------------------------
(* THE TABLES OF THE INSTRUCTIONS.                                         *)

LEMMA PowerStep ==
  ASSUME NEW n \in Nat, NEW m \in Nat, m = n + 1, NEW p \in Nat, 2^n = p
  PROVE  2^m = 2 * p
BY PowerNext

LEMMA PowersAre ==
  /\ 2^0 = 1 /\ 2^1 = 2 /\ 2^2 = 4 /\ 2^3 = 8 /\ 2^4 = 16 /\ 2^5 = 32
  /\ 2^6 = 64 /\ 2^7 = 128 /\ 2^8 = 256 /\ 2^9 = 512 /\ 2^10 = 1024
  /\ 2^11 = 2048 /\ 2^12 = 4096 /\ 2^13 = 8192 /\ 2^14 = 16384
  /\ 2^15 = 32768 /\ 2^16 = 65536 /\ 2^17 = 131072 /\ 2^18 = 262144
  /\ 2^19 = 524288 /\ 2^20 = 1048576
<1>0. 2^0 = 1
  BY PowerZero
<1>1. 2^1 = 2
  BY <1>0, PowerStep
<1>2. 2^2 = 4
  BY <1>1, PowerStep
<1>3. 2^3 = 8
  BY <1>2, PowerStep
<1>4. 2^4 = 16
  BY <1>3, PowerStep
<1>5. 2^5 = 32
  BY <1>4, PowerStep
<1>6. 2^6 = 64
  BY <1>5, PowerStep
<1>7. 2^7 = 128
  BY <1>6, PowerStep
<1>8. 2^8 = 256
  BY <1>7, PowerStep
<1>9. 2^9 = 512
  BY <1>8, PowerStep
<1>10. 2^10 = 1024
  BY <1>9, PowerStep
<1>11. 2^11 = 2048
  BY <1>10, PowerStep
<1>12. 2^12 = 4096
  BY <1>11, PowerStep
<1>13. 2^13 = 8192
  BY <1>12, PowerStep
<1>14. 2^14 = 16384
  BY <1>13, PowerStep
<1>15. 2^15 = 32768
  BY <1>14, PowerStep
<1>16. 2^16 = 65536
  BY <1>15, PowerStep
<1>17. 2^17 = 131072
  BY <1>16, PowerStep
<1>18. 2^18 = 262144
  BY <1>17, PowerStep
<1>19. 2^19 = 524288
  BY <1>18, PowerStep
<1>20. 2^20 = 1048576
  BY <1>19, PowerStep
<1>. QED
  BY <1>0, <1>1, <1>2, <1>3, <1>4, <1>5, <1>6, <1>7, <1>8, <1>9, <1>10,
     <1>11, <1>12, <1>13, <1>14, <1>15, <1>16, <1>17, <1>18, <1>19, <1>20

-----------------------------------------------------------------------------
(* The names.                                                              *)

LEMMA FieldsAre ==
  ASSUME NEW w \in Words
  PROVE  /\ w.opcode \in Opcodes \cup {Undefined} /\ w.opcode \in Nat
         /\ w.rd \in 0 .. 31 /\ w.rs1 \in 0 .. 31 /\ w.rs2 \in 0 .. 31
         /\ w.funct3 \in 0 .. 7 /\ w.funct7 \in 0 .. 127
         /\ w = [opcode |-> w.opcode, rd |-> w.rd, funct3 |-> w.funct3,
                 rs1 |-> w.rs1, rs2 |-> w.rs2, funct7 |-> w.funct7]
<1>1. Funct7s \subseteq 0 .. 127 /\ Regs \subseteq 0 .. 31
  BY InstAssumption DEF InstAssumption
<1>2. /\ w.opcode \in Opcodes \cup {Undefined} /\ w.rd \in Regs
      /\ w.rs1 \in Regs /\ w.rs2 \in Regs
      /\ w.funct3 \in 0 .. 7 /\ w.funct7 \in Funct7s
  BY DEF Words
<1>3. w = [opcode |-> w.opcode, rd |-> w.rd, funct3 |-> w.funct3,
           rs1 |-> w.rs1, rs2 |-> w.rs2, funct7 |-> w.funct7]
  BY DEF Words
<1>4. w.opcode \in Nat
  BY <1>2 DEF Opcodes, Undefined
<1>. QED  BY <1>1, <1>2, <1>3, <1>4

LEMMA NamesOfArithmetic ==
  ASSUME NEW f3 \in 0 .. 7, NEW f7 \in 0 .. 127
  PROVE  arithmetic_str(f7 * 16 + f3) = arithmetic_name(f3, Signed(f7))
<1>. QED  BY DEF arithmetic_str, arithmetic_name, Signed

LEMMA NamesOfImmediates ==
  ASSUME NEW f3 \in {1, 5}, NEW f7 \in 0 .. 127
  PROVE  immediate_str(f3, f7) = shift_name(f3, Signed(f7))
<1>1. 1 \div 5 = 0 /\ 5 \div 5 = 1
  OBVIOUS
<1>2. Signed(f7) = 0 <=> f7 = 0
  BY DEF Signed
<1>3. Signed(f7) = 32 <=> f7 = 32
  BY DEF Signed
<1>4. CASE f3 = 1
  BY <1>1, <1>2, <1>4 DEF immediate_str, shift_name
<1>5. CASE f3 = 5
  BY <1>1, <1>2, <1>3, <1>5 DEF immediate_str, shift_name
<1>. QED  BY <1>4, <1>5

LEMMA NamesOfOthers ==
  ASSUME NEW f3 \in {0, 2, 3, 4, 6, 7}, NEW f7 \in 0 .. 127
  PROVE  immediate_str(f3, f7)
           = <<"addi", "", "slti", "sltiu", "xori", "", "ori", "andi">>[f3 + 1]
<1>1. CASE f3 = 0
  BY <1>1 DEF immediate_str
<1>2. CASE f3 = 2
  BY <1>2 DEF immediate_str
<1>3. CASE f3 = 3
  BY <1>3 DEF immediate_str
<1>4. CASE f3 = 4
  BY <1>4 DEF immediate_str
<1>5. CASE f3 = 6
  BY <1>5 DEF immediate_str
<1>6. CASE f3 = 7
  BY <1>6 DEF immediate_str
<1>. QED  BY <1>1, <1>2, <1>3, <1>4, <1>5, <1>6

LEMMA NamesOfSystem ==
  ASSUME NEW f3 \in 0 .. 7, NEW f7 \in 0 .. 127, NEW r \in 0 .. 31
  PROVE  system_str(f3, f7 * 32 + r) = system_name(f3, Signed(f7) * 32 + r)
<1>. QED  BY DEF system_str, system_name, Signed

\* The two tables give a word one name.
LEMMA NamesAre ==
  ASSUME NEW w \in Words
  PROVE  \/ str(w) = instruction_name(w)
         \/ str(w) = "LUI" /\ instruction_name(w) = "lui"
<1>1. /\ w.opcode \in Opcodes \cup {Undefined} /\ w.rs2 \in 0 .. 31
      /\ w.funct3 \in 0 .. 7 /\ w.funct7 \in 0 .. 127
  BY FieldsAre
<1> DEFINE f3 == w.funct3
<1>2. CASE w.opcode \in {55, 23, 111, 103, 15, Undefined}
  <2>1. CASE w.opcode = 55
    BY <2>1 DEF str, instruction_name
  <2>2. CASE w.opcode = 23
    BY <2>2 DEF str, instruction_name
  <2>3. CASE w.opcode = 111
    BY <2>3 DEF str, instruction_name
  <2>4. CASE w.opcode = 103
    BY <2>4 DEF str, instruction_name
  <2>5. CASE w.opcode = 15
    BY <2>5 DEF str, instruction_name
  <2>6. CASE w.opcode = 43
    BY <2>6 DEF str, instruction_name
  <2>. QED  BY <1>2, <2>1, <2>2, <2>3, <2>4, <2>5, <2>6 DEF Undefined
<1>3. CASE w.opcode = 99
  <2>1. str(w) = branch_str(f3)
    BY <1>3 DEF str
  <2>2. instruction_name(w)
          = <<"beq", "bne", "invalid", "invalid", "blt", "bge", "bltu", "bgeu">>[f3 + 1]
    BY <1>3 DEF instruction_name
  <2>. QED  BY <1>1, <2>1, <2>2 DEF branch_str
<1>4. CASE w.opcode = 3
  <2>1. str(w) = load_str(f3)
    BY <1>4 DEF str
  <2>2. instruction_name(w)
          = <<"lb", "lh", "lw", "invalid", "lbu", "lhu", "invalid", "invalid">>[f3 + 1]
    BY <1>4 DEF instruction_name
  <2>. QED  BY <1>1, <2>1, <2>2 DEF load_str
<1>5. CASE w.opcode = 35
  <2>1. str(w) = store_str(f3)
    BY <1>5 DEF str
  <2>2. instruction_name(w)
          = IF f3 < 3 THEN <<"sb", "sh", "sw">>[f3 + 1] ELSE "invalid"
    BY <1>5 DEF instruction_name
  <2>. QED  BY <1>1, <2>1, <2>2 DEF store_str
<1>6. CASE w.opcode = 19
  <2>1. str(w) = immediate_str(f3, w.funct7)
    BY <1>6 DEF str
  <2>2. instruction_name(w)
          = IF f3 \in {1, 5} THEN shift_name(f3, Signed(w.funct7))
            ELSE <<"addi", "", "slti", "sltiu", "xori", "", "ori", "andi">>[f3 + 1]
    BY <1>6 DEF instruction_name
  <2>3. CASE f3 \in {1, 5}
    BY <1>1, <2>1, <2>2, <2>3, NamesOfImmediates
  <2>4. CASE f3 \notin {1, 5}
    <3>1. f3 \in {0, 2, 3, 4, 6, 7}
      BY <1>1, <2>4
    <3> HIDE DEF f3
    <3>2. instruction_name(w)
            = <<"addi", "", "slti", "sltiu", "xori", "", "ori", "andi">>[f3 + 1]
      BY <2>2, <2>4
    <3>3. str(w) = instruction_name(w)
      BY <1>1, <2>1, <3>1, <3>2, NamesOfOthers
    <3>. QED  BY <3>3
  <2>. QED  BY <2>3, <2>4
<1>7. CASE w.opcode = 51
  <2>1. str(w) = arithmetic_str(w.funct7 * 16 + f3)
    BY <1>7 DEF str
  <2>2. instruction_name(w) = arithmetic_name(f3, Signed(w.funct7))
    BY <1>7 DEF instruction_name
  <2>. QED  BY <1>1, <2>1, <2>2, NamesOfArithmetic
<1>8. CASE w.opcode = 115
  <2>1. str(w) = system_str(f3, w.funct7 * 32 + w.rs2)
    BY <1>8 DEF str, Upper
  <2>2. instruction_name(w) = system_name(f3, Signed(w.funct7) * 32 + w.rs2)
    BY <1>8 DEF instruction_name
  <2>. QED  BY <1>1, <2>1, <2>2, NamesOfSystem
<1>. QED  BY <1>1, <1>2, <1>3, <1>4, <1>5, <1>6, <1>7, <1>8 DEF Opcodes

-----------------------------------------------------------------------------
(* The immediates.                                                         *)

\* The numbers analyze makes: a sign, the bits below it from the left, and the
\* bits that are moved.
OfI(s, h, r) == h * 32 + r - s * 2048
OfB(s, h, a, b) == 2 * (a + h * 16 + b * 1024) - s * 4096
OfU(f7, r2, r1, f3) == f7 * 8192 + r2 * 256 + r1 * 8 + f3
OfJ(s, h, a, b, r1, f3) ==
  2 * (a + h * 16 + b * 1024 + (r1 * 8 + f3) * 2048) - s * 1048576

\* The bits encode takes of the last two.
BitsOfU(v, f7, r2, r1, f3) ==
  /\ Bits(v, 2, 0) = f3 /\ Bits(v, 7, 3) = r1 /\ Bits(v, 12, 8) = r2
  /\ Bits(v, 19, 13) = f7
BitsOfJ(v, s, h, a, b, r1, f3) ==
  /\ Bits(v, 14, 12) = f3 /\ Bits(v, 19, 15) = r1 /\ Bits(v, 11, 11) = b
  /\ Bits(v, 4, 1) = a /\ Bits(v, 10, 5) = h /\ Bits(v, 20, 20) = s

LEMMA ImmediateBits ==
  ASSUME NEW s \in {0, 1}, NEW h \in 0 .. 63, NEW r \in 0 .. 31
  PROVE  /\ Bits(OfI(s, h, r), 4, 0) = r
         /\ Bits(OfI(s, h, r), 11, 5) = 64 * s + h
         /\ Bits(OfI(s, h, r), 10, 5) = h
<1> DEFINE v == OfI(s, h, r)
<1>1. /\ v \in Int
      /\ (v \div 1) % 32 = r /\ (v \div 32) % 128 = 64 * s + h
      /\ (v \div 32) % 64 = h
  BY DEF OfI
<1> HIDE DEF v
<1>2. Bits(v, 4, 0) = r /\ Bits(v, 11, 5) = 64 * s + h /\ Bits(v, 10, 5) = h
  BY <1>1, PowersAre, SMT DEF Bits
<1>. QED  BY <1>2 DEF v

LEMMA BranchBits ==
  ASSUME NEW s \in {0, 1}, NEW h \in 0 .. 63, NEW a \in 0 .. 15, NEW b \in {0, 1}
  PROVE  /\ Bits(OfB(s, h, a, b), 11, 11) = b /\ Bits(OfB(s, h, a, b), 4, 1) = a
         /\ Bits(OfB(s, h, a, b), 10, 5) = h /\ Bits(OfB(s, h, a, b), 12, 12) = s
<1> DEFINE v == OfB(s, h, a, b)
<1>1. /\ v \in Int
      /\ (v \div 2048) % 2 = b /\ (v \div 2) % 16 = a
      /\ (v \div 32) % 64 = h /\ (v \div 4096) % 2 = s
  BY DEF OfB
<1> HIDE DEF v
<1>2. /\ Bits(v, 11, 11) = b /\ Bits(v, 4, 1) = a /\ Bits(v, 10, 5) = h
      /\ Bits(v, 12, 12) = s
  BY <1>1, PowersAre, SMT DEF Bits
<1>. QED  BY <1>2 DEF v

LEMMA UpperBits ==
  ASSUME NEW w \in Words
  PROVE  BitsOfU(OfU(w.funct7, w.rs2, w.rs1, w.funct3),
                 w.funct7, w.rs2, w.rs1, w.funct3)
<1> DEFINE f7 == w.funct7
           r2 == w.rs2
           r1 == w.rs1
           f3 == w.funct3
           v == OfU(f7, r2, r1, f3)
<1>0. f7 \in 0 .. 127 /\ r2 \in 0 .. 31 /\ r1 \in 0 .. 31 /\ f3 \in 0 .. 7
  BY FieldsAre
<1> HIDE DEF f7, r2, r1, f3
<1>1. /\ v \in Int
      /\ (v \div 1) % 8 = f3 /\ (v \div 8) % 32 = r1
      /\ (v \div 256) % 32 = r2 /\ (v \div 8192) % 128 = f7
  <2>1. v \in Int /\ v = 8 * (f7 * 1024 + r2 * 32 + r1) + f3
    BY <1>0, SMT DEF OfU
  <2>2. v = 256 * (f7 * 32 + r2) + (r1 * 8 + f3)
    BY <1>0, SMT DEF OfU
  <2>3. v = 8192 * f7 + (r2 * 256 + r1 * 8 + f3)
    BY <1>0, SMT DEF OfU
  <2> HIDE DEF v
  <2>4. (v \div 1) % 8 = f3 /\ v \div 8 = f7 * 1024 + r2 * 32 + r1
    BY <1>0, <2>1, SMT
  <2>5. v \div 256 = f7 * 32 + r2
    BY <1>0, <2>1, <2>2, SMT
  <2>6. v \div 8192 = f7
    BY <1>0, <2>1, <2>3, SMT
  <2>7. /\ (f7 * 1024 + r2 * 32 + r1) % 32 = r1 /\ (f7 * 32 + r2) % 32 = r2
        /\ f7 % 128 = f7
    BY <1>0, SMT
  <2>. QED  BY <1>0, <2>1, <2>4, <2>5, <2>6, <2>7, SMT
<1> HIDE DEF v
<1>2. BitsOfU(v, f7, r2, r1, f3)
  BY <1>1, PowersAre, SMT DEF Bits, BitsOfU
<1>. QED  BY <1>2 DEF v, f7, r2, r1, f3

LEMMA JumpBits ==
  ASSUME NEW s \in {0, 1}, NEW h \in 0 .. 63, NEW a \in 0 .. 15, NEW b \in {0, 1},
         NEW r1 \in 0 .. 31, NEW f3 \in 0 .. 7
  PROVE  BitsOfJ(OfJ(s, h, a, b, r1, f3), s, h, a, b, r1, f3)
<1> DEFINE v == OfJ(s, h, a, b, r1, f3)
<1>1. /\ v \in Int
      /\ (v \div 4096) % 8 = f3 /\ (v \div 32768) % 32 = r1
      /\ (v \div 2048) % 2 = b /\ (v \div 2) % 16 = a
      /\ (v \div 32) % 64 = h /\ (v \div 1048576) % 2 = s
  <2> DEFINE low == 2 * a + 32 * h + 2048 * b
             high == r1 * 8 + f3 - s * 256
  <2>1. v \in Int /\ v = 4096 * high + low /\ low \in 0 .. 4095 /\ high \in Int
    BY SMT DEF OfJ
  <2>2. /\ (low \div 2048) % 2 = b /\ (low \div 2) % 16 = a
        /\ (low \div 32) % 64 = h
    BY SMT
  <2>3. high % 8 = f3 /\ (high \div 8) % 32 = r1 /\ (high \div 256) % 2 = s
    BY SMT
  <2> HIDE DEF v, low, high
  <2>4. /\ (v \div 4096) % 8 = high % 8
        /\ (v \div 32768) % 32 = (high \div 8) % 32
        /\ (v \div 1048576) % 2 = (high \div 256) % 2
    <3>1. v \div 4096 = high
      BY <2>1, SMT
    <3>2. v \div 32768 = high \div 8
      BY <2>1, SMT
    <3>3. v \div 1048576 = high \div 256
      BY <2>1, SMT
    <3>. QED  BY <3>1, <3>2, <3>3
  <2>5. /\ (v \div 2048) % 2 = (low \div 2048) % 2
        /\ (v \div 2) % 16 = (low \div 2) % 16
        /\ (v \div 32) % 64 = (low \div 32) % 64
    BY <2>1, SMT
  <2>. QED  BY <2>1, <2>2, <2>3, <2>4, <2>5
<1> HIDE DEF v
<1>2. BitsOfJ(v, s, h, a, b, r1, f3)
  BY <1>1, PowersAre, SMT DEF Bits, BitsOfJ
<1>. QED  BY <1>2 DEF v

-----------------------------------------------------------------------------
(* What encode makes of the fields.                                        *)

Shifts == {"slli", "srli", "srai"}

\* The members of u that encode reads are those of the word w.
Says(u, w) ==
  /\ w.opcode \notin {15, Undefined}
  /\ <<u.riscv, u.imm>> \in Formats(w.opcode)
  /\ u.imm_value = analyze(w, u.imm)
  /\ u.opcode = w.opcode
  /\ u.rd = w.rd /\ u.rs1 = w.rs1 /\ u.rs2 = w.rs2
  /\ u.riscv # "UType" => u.funct3 = w.funct3
  /\ u.op \in Shifts <=> w.opcode = 19 /\ w.funct3 \in {1, 5}
  /\ u.riscv = "RType" \/ u.op \in Shifts => u.funct7 = w.funct7
  /\ u.riscv = "PType" => u.funct12 = Upper(w)

Kept(w) == IF w.opcode = 35 THEN [w EXCEPT !.funct7 = @ % 64] ELSE w

LEMMA EncodeSays ==
  ASSUME NEW w \in Words, NEW u, Says(u, w)
  PROVE  encode(u) = Kept(w)
<1> DEFINE s == w.funct7 \div 64
           h == w.funct7 % 64
           a2 == w.rs2 \div 2
           b2 == w.rs2 % 2
           a == w.rd \div 2
           b == w.rd % 2
           v == u.imm_value
<1>1. /\ w.opcode \in Opcodes \cup {Undefined}
      /\ w.rd \in 0 .. 31 /\ w.rs1 \in 0 .. 31 /\ w.rs2 \in 0 .. 31
      /\ w.funct3 \in 0 .. 7 /\ w.funct7 \in 0 .. 127
      /\ w = [opcode |-> w.opcode, rd |-> w.rd, funct3 |-> w.funct3,
              rs1 |-> w.rs1, rs2 |-> w.rs2, funct7 |-> w.funct7]
  BY FieldsAre
<1>2. /\ s \in {0, 1} /\ h \in 0 .. 63 /\ w.funct7 = 64 * s + h
      /\ a2 \in 0 .. 15 /\ b2 \in {0, 1} /\ w.rs2 = b2 + 2 * a2
      /\ a \in 0 .. 15 /\ b \in {0, 1} /\ w.rd = b + 2 * a
  BY <1>1
<1>3. Kept(w) = Put(w, w.rd, w.funct3, w.rs1, w.rs2,
                    IF w.opcode = 35 THEN h ELSE w.funct7)
  BY <1>1 DEF Kept, Put
<1>4. \A x1, x2, x3, x4, x5 : Put(u, x1, x2, x3, x4, x5) = Put(w, x1, x2, x3, x4, x5)
  BY DEF Says, Put
<1> HIDE DEF s, h, a2, b2, a, b
<1>5. CASE w.opcode \in {55, 23}
  <2>1. u.riscv = "UType" /\ u.imm = "Uimm"
    BY <1>5 DEF Says, Formats
  <2>2. v = OfU(w.funct7, w.rs2, w.rs1, w.funct3)
    BY <2>1, PowersAre DEF Says, analyze, OfU
  <2> HIDE DEF v
  <2>3. /\ Bits(v, 2, 0) = w.funct3 /\ Bits(v, 7, 3) = w.rs1
        /\ Bits(v, 12, 8) = w.rs2 /\ Bits(v, 19, 13) = w.funct7
    <3>1. BitsOfU(v, w.funct7, w.rs2, w.rs1, w.funct3)
      BY <2>2, UpperBits
    <3>. QED  BY <3>1 DEF BitsOfU
  <2>4. encode(u) = Put(u, u.rd, Bits(u.imm_value, 2, 0), Bits(u.imm_value, 7, 3),
                        Bits(u.imm_value, 12, 8), Bits(u.imm_value, 19, 13))
    BY <2>1 DEF encode
  <2>5. encode(u) = Put(u, w.rd, w.funct3, w.rs1, w.rs2, w.funct7)
    BY <2>3, <2>4 DEF Says, v
  <2>. QED  BY <1>3, <1>4, <1>5, <2>5
<1>6. CASE w.opcode = 111
  <2>1. u.riscv = "UType" /\ u.imm = "Jimm"
    BY <1>6 DEF Says, Formats
  <2>2. v = OfJ(s, h, a2, b2, w.rs1, w.funct3)
    BY <2>1, PowersAre DEF Says, analyze, OfJ, s, h, a2, b2
  <2> HIDE DEF v
  <2>3. /\ Bits(v, 14, 12) = w.funct3 /\ Bits(v, 19, 15) = w.rs1
        /\ Bits(v, 11, 11) = b2 /\ Bits(v, 4, 1) = a2
        /\ Bits(v, 10, 5) = h /\ Bits(v, 20, 20) = s
    <3>1. /\ s \in {0, 1} /\ h \in 0 .. 63 /\ a2 \in 0 .. 15 /\ b2 \in {0, 1}
          /\ w.rs1 \in 0 .. 31 /\ w.funct3 \in 0 .. 7
      BY <1>1, <1>2
    <3>2. BitsOfJ(v, s, h, a2, b2, w.rs1, w.funct3)
      BY <2>2, <3>1, JumpBits
    <3>. QED  BY <3>2 DEF BitsOfJ
  <2>4. encode(u) = Put(u, u.rd, Bits(u.imm_value, 14, 12), Bits(u.imm_value, 19, 15),
                        Bits(u.imm_value, 11, 11) + 2 * Bits(u.imm_value, 4, 1),
                        Bits(u.imm_value, 10, 5) + 64 * Bits(u.imm_value, 20, 20))
    BY <2>1 DEF encode
  <2>5. encode(u) = Put(u, w.rd, w.funct3, w.rs1, b2 + 2 * a2, h + 64 * s)
    BY <2>3, <2>4 DEF Says, v
  <2>6. h + 64 * s = w.funct7
    BY <1>2
  <2>. QED  BY <1>2, <1>3, <1>4, <1>6, <2>5, <2>6
<1>7. CASE w.opcode \in {103, 3, 19}
  <2>1. u.riscv = "IType" /\ u.imm = "Iimm"
    BY <1>7 DEF Says, Formats
  <2>2. CASE u.op \in Shifts
    <3>1. v = w.rs2 /\ u.funct7 = w.funct7
      BY <2>1, <2>2 DEF Says, analyze
    <3>2. Bits(v, 4, 0) = w.rs2
      <4>1. w.rs2 \in Int /\ (w.rs2 \div 1) % 32 = w.rs2
        BY <1>1
      <4>. QED  BY <3>1, <4>1, PowersAre, SMT DEF Bits
    <3> HIDE DEF v
    <3>3. encode(u) = Put(u, u.rd, u.funct3, u.rs1, Bits(u.imm_value, 4, 0), u.funct7)
      BY <2>1, <2>2 DEF encode, Shifts
    <3>4. encode(u) = Put(u, w.rd, w.funct3, w.rs1, w.rs2, w.funct7)
      BY <2>1, <3>1, <3>2, <3>3 DEF Says, v
    <3>. QED  BY <1>3, <1>4, <1>7, <3>4
  <2>3. CASE u.op \notin Shifts
    <3>1. v = OfI(s, h, w.rs2)
      BY <2>1, <2>3, PowersAre DEF Says, analyze, OfI, s, h
    <3> HIDE DEF v
    <3>2. Bits(v, 4, 0) = w.rs2 /\ Bits(v, 11, 5) = w.funct7
      BY <1>1, <1>2, <3>1, ImmediateBits
    <3>3. encode(u) = Put(u, w.rd, w.funct3, w.rs1, w.rs2, w.funct7)
      BY <2>1, <2>3, <3>2 DEF encode, Says, v, Shifts
    <3>. QED  BY <1>3, <1>4, <1>7, <3>3
  <2>. QED  BY <2>2, <2>3
<1>8. CASE w.opcode = 99
  <2>1. u.riscv = "SType" /\ u.imm = "Bimm"
    BY <1>8 DEF Says, Formats
  <2>2. v = OfB(s, h, a, b)
    BY <2>1, PowersAre DEF Says, analyze, OfB, s, h, a, b
  <2> HIDE DEF v
  <2>3. /\ Bits(v, 11, 11) = b /\ Bits(v, 4, 1) = a
        /\ Bits(v, 10, 5) = h /\ Bits(v, 12, 12) = s
    BY <1>2, <2>2, BranchBits
  <2>4. encode(u) = Put(u, b + 2 * a, w.funct3, w.rs1, w.rs2, h + 64 * s)
    BY <2>1, <2>3 DEF encode, Says, v
  <2>5. h + 64 * s = w.funct7
    BY <1>2
  <2>. QED  BY <1>2, <1>3, <1>4, <1>8, <2>4, <2>5
<1>9. CASE w.opcode = 35
  <2>1. u.riscv = "SType" /\ u.imm = "Simm"
    BY <1>9 DEF Says, Formats
  <2>2. v = OfI(s, h, w.rd)
    BY <2>1, PowersAre DEF Says, analyze, OfI, s, h
  <2> HIDE DEF v
  <2>3. Bits(v, 4, 0) = w.rd /\ Bits(v, 10, 5) = h
    BY <1>1, <1>2, <2>2, ImmediateBits
  <2>4. encode(u) = Put(u, w.rd, w.funct3, w.rs1, w.rs2, h)
    BY <2>1, <2>3 DEF encode, Says, v
  <2>. QED  BY <1>3, <1>4, <1>9, <2>4
<1>10. CASE w.opcode = 51
  <2>1. u.riscv = "RType"
    BY <1>10 DEF Says, Formats
  <2>2. encode(u) = Put(u, w.rd, w.funct3, w.rs1, w.rs2, w.funct7)
    BY <2>1 DEF encode, Says
  <2>. QED  BY <1>3, <1>4, <1>10, <2>2
<1>11. CASE w.opcode = 115
  <2>1. u.riscv = "PType"
    BY <1>11 DEF Says, Formats
  <2>2. Upper(w) % 32 = w.rs2 /\ Upper(w) \div 32 = w.funct7
    BY <1>1 DEF Upper
  <2>3. encode(u) = Put(u, w.rd, w.funct3, w.rs1, w.rs2, w.funct7)
    BY <2>1, <2>2 DEF encode, Says
  <2>. QED  BY <1>3, <1>4, <1>11, <2>3
<1>. QED
  BY <1>1, <1>5, <1>6, <1>7, <1>8, <1>9, <1>10, <1>11 DEF Opcodes, Says

-----------------------------------------------------------------------------
(* The op of a name is one select knows by the same fields.                *)

LEMMA DomainsAre ==
  /\ DOMAIN ImmediateOps = {"addi", "slti", "sltiu", "andi", "ori", "xori",
                            "slli", "srli", "srai"}
  /\ DOMAIN UpperOps = {"lui", "auipc"}
  /\ DOMAIN ArithmeticOps = {"add", "slt", "sltu", "and", "or", "xor", "sll",
                             "srl", "sra", "sub"}
  /\ DOMAIN MultiplyOps = {"mul", "mulh", "mulhu", "mulhsu"}
  /\ DOMAIN BranchOps = {"beq", "bne", "blt", "bltu", "bge", "bgeu"}
BY DEF ImmediateOps, UpperOps, ArithmeticOps, MultiplyOps, BranchOps

bit30(op) == IF op \in {"srai", "sra", "sub"} THEN 32 ELSE 0

\* What select gives an op, but for the shapes.
Known(op, w) ==
  /\ w.opcode = 55 => op = "lui"
  /\ w.opcode = 23 => op = "auipc"
  /\ w.opcode = 111 => op = "jal"
  /\ w.opcode = 103 => op = "jalr"
  /\ w.opcode = 99 => op \in DOMAIN BranchOps /\ BranchOps[op] = w.funct3
  /\ w.opcode = 3 => op \in {"lb", "lh", "lw", "lbu", "lhu"} /\ MemoryOps[op] = w.funct3
  /\ w.opcode = 35 => op \in {"sb", "sh", "sw"} /\ MemoryOps[op] = w.funct3
  /\ w.opcode = 19 => /\ op \in DOMAIN ImmediateOps /\ ImmediateOps[op] = w.funct3
                      /\ op \in Shifts => w.funct7 = bit30(op)
  /\ w.opcode = 51 => \/ /\ op \in DOMAIN ArithmeticOps /\ ArithmeticOps[op] = w.funct3
                         /\ w.funct7 = bit30(op)
                      \/ /\ op \in DOMAIN MultiplyOps /\ MultiplyOps[op] = w.funct3
                         /\ w.funct7 = 1
  /\ w.opcode = 115 => op = "wfi" /\ w.funct3 = 0 /\ Upper(w) = 261

KnownArithmeticOp(op, f3, f7) ==
  \/ op \in DOMAIN ArithmeticOps /\ ArithmeticOps[op] = f3 /\ f7 = bit30(op)
  \/ op \in DOMAIN MultiplyOps /\ MultiplyOps[op] = f3 /\ f7 = 1

LEMMA KnownBranches ==
  ASSUME NEW f3 \in 0 .. 7, branch_str(f3) # "invalid"
  PROVE  /\ branch_str(f3) \in DOMAIN BranchOps
         /\ BranchOps[branch_str(f3)] = f3
BY DomainsAre DEF branch_str, BranchOps

LEMMA KnownMemory ==
  ASSUME NEW f3 \in 0 .. 7
  PROVE  /\ load_str(f3) # "invalid" =>
              /\ load_str(f3) \in {"lb", "lh", "lw", "lbu", "lhu"}
              /\ MemoryOps[load_str(f3)] = f3
         /\ store_str(f3) # "invalid" =>
              /\ store_str(f3) \in {"sb", "sh", "sw"}
              /\ MemoryOps[store_str(f3)] = f3
BY DEF load_str, store_str, MemoryOps

LEMMA KnownImmediates ==
  ASSUME NEW f3 \in 0 .. 7, NEW f7 \in 0 .. 127, immediate_str(f3, f7) # "invalid"
  PROVE  LET op == immediate_str(f3, f7)
         IN  /\ op \in DOMAIN ImmediateOps /\ ImmediateOps[op] = f3
             /\ op \in Shifts => f7 = bit30(op)
BY DomainsAre DEF immediate_str, ImmediateOps, Shifts, bit30

LEMMA KnownArithmetic ==
  ASSUME NEW f3 \in 0 .. 7, NEW f7 \in 0 .. 127,
         arithmetic_str(f7 * 16 + f3) \notin {"invalid", "div", "divu", "rem", "remu"}
  PROVE  KnownArithmeticOp(arithmetic_str(f7 * 16 + f3), f3, f7)
BY DomainsAre DEF KnownArithmeticOp, arithmetic_str, ArithmeticOps, MultiplyOps, bit30

\* What decode names and has an op for.
LEMMA NamesAreKnown ==
  ASSUME NEW w \in Words, str(w) \notin Unimplemented
  PROVE  /\ w.opcode \notin {15, Undefined}
         /\ Known(IF str(w) = "LUI" THEN "lui" ELSE str(w), w)
<1> DEFINE op == IF str(w) = "LUI" THEN "lui" ELSE str(w)
<1>1. /\ w.opcode \in Opcodes \cup {Undefined} /\ w.rs2 \in 0 .. 31
      /\ w.funct3 \in 0 .. 7 /\ w.funct7 \in 0 .. 127
  BY FieldsAre
<1> USE DEF Undefined
<1>2. /\ "invalid" \in Unimplemented /\ "div" \in Unimplemented
      /\ "divu" \in Unimplemented /\ "rem" \in Unimplemented
      /\ "remu" \in Unimplemented /\ "fence" \in Unimplemented
  BY DEF Unimplemented
<1>3. w.opcode \notin {15, Undefined}
  BY <1>1, <1>2 DEF str
<1> HIDE DEF op
<1>4. CASE w.opcode \in {55, 23, 111, 103}
  <2>1. /\ w.opcode = 55 => op = "lui"
        /\ w.opcode = 23 => op = "auipc"
        /\ w.opcode = 111 => op = "jal"
        /\ w.opcode = 103 => op = "jalr"
    BY <1>4 DEF str, op
  <2>. QED  BY <1>3, <1>4, <2>1 DEF Known, op
<1>5. CASE w.opcode = 99
  <2>1. str(w) = branch_str(w.funct3)
    BY <1>5 DEF str
  <2>2. branch_str(w.funct3) # "LUI"
    BY DEF branch_str
  <2>. QED  BY <1>1, <1>2, <1>3, <1>5, <2>1, <2>2, KnownBranches DEF Known
<1>6. CASE w.opcode = 3
  <2>1. str(w) = load_str(w.funct3)
    BY <1>6 DEF str
  <2>2. load_str(w.funct3) # "LUI"
    BY DEF load_str
  <2>. QED  BY <1>1, <1>2, <1>3, <1>6, <2>1, <2>2, KnownMemory DEF Known
<1>7. CASE w.opcode = 35
  <2>1. str(w) = store_str(w.funct3)
    BY <1>7 DEF str
  <2>2. store_str(w.funct3) # "LUI"
    BY DEF store_str
  <2>. QED  BY <1>1, <1>2, <1>3, <1>7, <2>1, <2>2, KnownMemory DEF Known
<1>8. CASE w.opcode = 19
  <2>1. str(w) = immediate_str(w.funct3, w.funct7)
    BY <1>8 DEF str
  <2>2. immediate_str(w.funct3, w.funct7) # "LUI"
    BY DEF immediate_str
  <2>. QED  BY <1>1, <1>2, <1>3, <1>8, <2>1, <2>2, KnownImmediates DEF Known
<1>9. CASE w.opcode = 51
  <2>1. str(w) = arithmetic_str(w.funct7 * 16 + w.funct3)
    BY <1>9 DEF str
  <2>2. arithmetic_str(w.funct7 * 16 + w.funct3) # "LUI"
    BY DEF arithmetic_str
  <2>3. arithmetic_str(w.funct7 * 16 + w.funct3)
          \notin {"invalid", "div", "divu", "rem", "remu"}
    BY <1>2, <2>1
  <2>4. KnownArithmeticOp(str(w), w.funct3, w.funct7)
    BY <1>1, <2>1, <2>3, KnownArithmetic
  <2>. QED  BY <1>3, <1>9, <2>1, <2>2, <2>4 DEF Known, KnownArithmeticOp
<1>10. CASE w.opcode = 115
  <2>1. str(w) = system_str(w.funct3, Upper(w))
    BY <1>10 DEF str
  <2>2. system_str(w.funct3, Upper(w)) # "LUI"
    BY DEF system_str
  <2>3. system_str(w.funct3, Upper(w)) \notin Unimplemented =>
          /\ system_str(w.funct3, Upper(w)) = "wfi"
          /\ w.funct3 = 0 /\ Upper(w) = 261
    BY <1>1 DEF system_str, Unimplemented
  <2>. QED  BY <1>1, <1>3, <1>10, <2>1, <2>2, <2>3 DEF Known
<1>. QED
  BY <1>1, <1>3, <1>4, <1>5, <1>6, <1>7, <1>8, <1>9, <1>10 DEF Opcodes, op

-----------------------------------------------------------------------------
(* What decode makes of a word, and assign of that.                        *)

LEMMA ShiftsAre ==
  ASSUME NEW w \in Words, w.opcode \notin {15, Undefined}, NEW op, Known(op, w)
  PROVE  op \in Shifts <=> w.opcode = 19 /\ w.funct3 \in {1, 5}
<1>1. w.opcode \in Opcodes \cup {Undefined}
  BY FieldsAre
<1>2. CASE w.opcode \in {55, 23, 111, 103}
  BY <1>2 DEF Known, Shifts
<1>3. CASE w.opcode = 99
  BY <1>3, DomainsAre DEF Known, Shifts
<1>4. CASE w.opcode \in {3, 35}
  BY <1>4 DEF Known, Shifts
<1>5. CASE w.opcode = 19
  <2>1. op \in DOMAIN ImmediateOps /\ ImmediateOps[op] = w.funct3
    BY <1>5 DEF Known
  <2>. QED  BY <1>5, <2>1, DomainsAre DEF ImmediateOps, Shifts
<1>6. CASE w.opcode = 51
  BY <1>6, DomainsAre DEF Known, Shifts
<1>7. CASE w.opcode = 115
  BY <1>7 DEF Known, Shifts
<1>. QED
  BY <1>1, <1>2, <1>3, <1>4, <1>5, <1>6, <1>7 DEF Opcodes

Fields == {"op", "str", "riscv", "imm", "imm_value", "opcode", "rd", "funct3",
           "rs1", "rs2", "funct7", "funct12"}

LEMMA FormatsArePairs ==
  ASSUME NEW opcode, NEW f \in Formats(opcode)
  PROVE  f = <<f[1], f[2]>>
<1>1. \A x \in riscv_t \X imm_t : x = <<x[1], x[2]>>
  OBVIOUS
<1>. QED  BY <1>1 DEF Formats

LEMMA DecodeSays ==
  ASSUME NEW w \in Words, NEW u \in decode(w), u.op # "INVALID"
  PROVE  DOMAIN u = Fields /\ Known(u.op, w) /\ Says(u, w)
<1>1. PICK f \in Formats(w.opcode) :
        u = [op |-> IF str(w) \in Unimplemented THEN "INVALID"
                    ELSE IF str(w) = "LUI" THEN "lui" ELSE str(w),
             str |-> str(w), riscv |-> f[1], imm |-> f[2],
             imm_value |-> analyze(w, f[2]),
             opcode |-> w.opcode, rd |-> w.rd, funct3 |-> w.funct3, rs1 |-> w.rs1,
             rs2 |-> w.rs2, funct7 |-> w.funct7, funct12 |-> Upper(w)]
  BY DEF decode
<1>2. /\ u.op = IF str(w) \in Unimplemented THEN "INVALID"
                ELSE IF str(w) = "LUI" THEN "lui" ELSE str(w)
      /\ u.riscv = f[1] /\ u.imm = f[2] /\ u.imm_value = analyze(w, f[2])
      /\ u.opcode = w.opcode /\ u.rd = w.rd /\ u.funct3 = w.funct3
      /\ u.rs1 = w.rs1 /\ u.rs2 = w.rs2 /\ u.funct7 = w.funct7
      /\ u.funct12 = Upper(w)
  BY <1>1
<1>3. DOMAIN u = Fields
  BY <1>1 DEF Fields
<1>4. str(w) \notin Unimplemented
  BY <1>2
<1>5. w.opcode \notin {15, Undefined} /\ Known(u.op, w)
  BY <1>2, <1>4, NamesAreKnown
<1>6. <<u.riscv, u.imm>> \in Formats(w.opcode)
  BY <1>2, FormatsArePairs
<1>7. u.op \in Shifts <=> w.opcode = 19 /\ w.funct3 \in {1, 5}
  BY <1>5, ShiftsAre
<1>. QED
  BY <1>2, <1>3, <1>5, <1>6, <1>7 DEF Says

\* What select knows of an op is what its word says.
Selects(sel, op, w) ==
  /\ DOMAIN sel = {"riscv", "imm", "opcode", "funct3", "funct7", "funct12"}
  /\ Formats(w.opcode) = {<<sel.riscv, sel.imm>>}
  /\ sel.opcode = w.opcode
  /\ sel.riscv # "UType" => sel.funct3 = w.funct3
  /\ sel.riscv = "RType" \/ op \in Shifts => sel.funct7 = w.funct7
  /\ sel.riscv = "PType" => sel.funct12 = Upper(w)

LEMMA AssignSays ==
  ASSUME NEW w \in Words, NEW u, NEW sel, DOMAIN u = Fields, Says(u, w),
         Selects(sel, u.op, w)
  PROVE  Says(assign(u, sel), w) /\ assign(u, sel).op = u.op
<1> DEFINE n == assign(u, sel)
<1>1. \A x \in Fields : n[x] = IF x \in DOMAIN sel THEN sel[x] ELSE u[x]
  BY DEF assign
<1>2. /\ n.riscv = sel.riscv /\ n.imm = sel.imm /\ n.opcode = sel.opcode
      /\ n.funct3 = sel.funct3 /\ n.funct7 = sel.funct7 /\ n.funct12 = sel.funct12
      /\ n.op = u.op /\ n.imm_value = u.imm_value
      /\ n.rd = u.rd /\ n.rs1 = u.rs1 /\ n.rs2 = u.rs2
  BY <1>1 DEF Fields, Selects
<1> HIDE DEF n
<1>3. n.riscv = u.riscv /\ n.imm = u.imm
  BY <1>2 DEF Says, Selects
<1>4. Says(n, w)
  BY <1>2, <1>3 DEF Says, Selects
<1>. QED  BY <1>2, <1>4 DEF n

\* The record select puts together.
Sel(op, riscv, imm, opcode, funct3, funct7) ==
  [riscv |-> riscv, imm |-> imm, opcode |-> opcode, funct3 |-> funct3,
   funct7 |-> funct7, funct12 |-> IF op = "wfi" THEN 261 ELSE 0]

LEMMA SelHas ==
  ASSUME NEW op, NEW riscv, NEW imm, NEW opcode, NEW funct3, NEW funct7
  PROVE  LET sel == Sel(op, riscv, imm, opcode, funct3, funct7)
         IN  /\ DOMAIN sel = {"riscv", "imm", "opcode", "funct3", "funct7", "funct12"}
             /\ sel.riscv = riscv /\ sel.imm = imm /\ sel.opcode = opcode
             /\ sel.funct3 = funct3 /\ sel.funct7 = funct7
             /\ sel.funct12 = IF op = "wfi" THEN 261 ELSE 0
BY DEF Sel

LEMMA SelectOfImmediates ==
  ASSUME NEW op \in DOMAIN ImmediateOps
  PROVE  select(op) = Sel(op, "IType", "Iimm", 19, ImmediateOps[op], bit30(op))
BY DomainsAre DEF select, Sel, bit30

LEMMA SelectOfUppers ==
  ASSUME NEW op \in DOMAIN UpperOps
  PROVE  select(op) = Sel(op, "UType", "Uimm", UpperOps[op], 0, 0)
BY DomainsAre DEF select, Sel

LEMMA SelectOfArithmetic ==
  ASSUME NEW op \in DOMAIN ArithmeticOps
  PROVE  select(op) = Sel(op, "RType", "Rimm", 51, ArithmeticOps[op], bit30(op))
BY DomainsAre DEF select, Sel, bit30

LEMMA SelectOfBranches ==
  ASSUME NEW op \in DOMAIN BranchOps
  PROVE  select(op) = Sel(op, "SType", "Bimm", 99, BranchOps[op], 0)
BY DomainsAre DEF select, Sel

LEMMA SelectOfLoads ==
  ASSUME NEW op \in {"lb", "lh", "lw", "lbu", "lhu"}
  PROVE  select(op) = Sel(op, "IType", "Iimm", 3, MemoryOps[op], 0)
BY DomainsAre DEF select, Sel

LEMMA SelectOfStores ==
  ASSUME NEW op \in {"sb", "sh", "sw"}
  PROVE  select(op) = Sel(op, "SType", "Simm", 35, MemoryOps[op], 0)
BY DomainsAre DEF select, Sel

LEMMA SelectOfMultiplies ==
  ASSUME NEW op \in DOMAIN MultiplyOps
  PROVE  select(op) = Sel(op, "RType", "Rimm", 51, MultiplyOps[op], 1)
BY DomainsAre DEF select, Sel

LEMMA SelectOfWfi == select("wfi") = Sel("wfi", "PType", "Rimm", 115, 0, 0)
BY DomainsAre DEF select, Sel

LEMMA SelectOfJumps ==
  /\ select("jal") = Sel("jal", "UType", "Uimm", JumpOps["jal"], 0, 0)
  /\ select("jalr") = Sel("jalr", "IType", "Iimm", JumpOps["jalr"], 0, 0)
BY DomainsAre DEF select, Sel

LEMMA SelectSays ==
  ASSUME NEW w \in Words, w.opcode \notin {15, Undefined}, NEW op, Known(op, w),
         op \notin {"jal", "jalr"}
  PROVE  Selects(select(op), op, w)
<1>1. w.opcode \in Opcodes \cup {Undefined}
  BY FieldsAre
<1>2. op \in Shifts <=> w.opcode = 19 /\ w.funct3 \in {1, 5}
  BY ShiftsAre
<1>3. CASE w.opcode \in {55, 23}
  <2>1. op \in DOMAIN UpperOps /\ UpperOps[op] = w.opcode
    BY <1>3, DomainsAre DEF Known, UpperOps
  <2>2. Formats(w.opcode) = {<<"UType", "Uimm">>}
    BY <1>3 DEF Formats
  <2>. QED  BY <1>2, <1>3, <2>1, <2>2, SelectOfUppers, SelHas DEF Selects
<1>4. CASE w.opcode = 99
  <2>1. op \in DOMAIN BranchOps /\ BranchOps[op] = w.funct3
    BY <1>4 DEF Known
  <2>2. Formats(w.opcode) = {<<"SType", "Bimm">>}
    BY <1>4 DEF Formats
  <2>. QED  BY <1>2, <1>4, <2>1, <2>2, SelectOfBranches, SelHas DEF Selects
<1>5. CASE w.opcode = 3
  <2>1. op \in {"lb", "lh", "lw", "lbu", "lhu"} /\ MemoryOps[op] = w.funct3
    BY <1>5 DEF Known
  <2>2. Formats(w.opcode) = {<<"IType", "Iimm">>}
    BY <1>5 DEF Formats
  <2>. QED  BY <1>2, <1>5, <2>1, <2>2, SelectOfLoads, SelHas DEF Selects
<1>6. CASE w.opcode = 35
  <2>1. op \in {"sb", "sh", "sw"} /\ MemoryOps[op] = w.funct3
    BY <1>6 DEF Known
  <2>2. Formats(w.opcode) = {<<"SType", "Simm">>}
    BY <1>6 DEF Formats
  <2>. QED  BY <1>2, <1>6, <2>1, <2>2, SelectOfStores, SelHas DEF Selects
<1>7. CASE w.opcode = 19
  <2>1. /\ op \in DOMAIN ImmediateOps /\ ImmediateOps[op] = w.funct3
        /\ op \in Shifts => w.funct7 = bit30(op)
    BY <1>7 DEF Known
  <2>2. Formats(w.opcode) = {<<"IType", "Iimm">>}
    BY <1>7 DEF Formats
  <2>. QED  BY <1>7, <2>1, <2>2, SelectOfImmediates, SelHas DEF Selects
<1>8. CASE w.opcode = 51
  <2>1. Formats(w.opcode) = {<<"RType", "Rimm">>}
    BY <1>8 DEF Formats
  <2>2. CASE /\ op \in DOMAIN ArithmeticOps /\ ArithmeticOps[op] = w.funct3
             /\ w.funct7 = bit30(op)
    BY <1>8, <2>1, <2>2, SelectOfArithmetic, SelHas DEF Selects
  <2>3. CASE /\ op \in DOMAIN MultiplyOps /\ MultiplyOps[op] = w.funct3
             /\ w.funct7 = 1
    BY <1>8, <2>1, <2>3, SelectOfMultiplies, SelHas DEF Selects
  <2>. QED  BY <1>8, <2>2, <2>3 DEF Known
<1>9. CASE w.opcode = 115
  <2>1. op = "wfi" /\ w.funct3 = 0 /\ Upper(w) = 261
    BY <1>9 DEF Known
  <2>2. Formats(w.opcode) = {<<"PType", "Rimm">>}
    BY <1>9 DEF Formats
  <2>. QED  BY <1>2, <1>9, <2>1, <2>2, SelectOfWfi, SelHas DEF Selects
<1>10. w.opcode \notin {111, 103}
  BY DEF Known
<1>. QED
  BY <1>1, <1>3, <1>4, <1>5, <1>6, <1>7, <1>8, <1>9, <1>10 DEF Opcodes

-----------------------------------------------------------------------------
(* A word on its way.                                                      *)

InstInv ==
  /\ inst \in [word : Words, valid : {"0", "1", "x"}]
  /\ step \in {"fetched", "decoded", "assigned", "encoded", "encoded anew"}
  /\ step # "fetched" =>
       text = <<get_opcode_str(inst.word, inst.valid),
                print_stage(inst.word, IF inst.valid = "x" THEN "0" ELSE inst.valid)>>
  /\ step = "decoded" => unit \in decode(inst.word)
  /\ step = "assigned" => unit.op \in {"jal", "jalr"} \/ Says(unit, inst.word)
  /\ step = "encoded" => unit.op = "INVALID" \/ unit.word = Kept(inst.word)
  /\ step = "encoded anew" =>
       unit.op \in {"jal", "jalr"} \/ unit.word = Kept(inst.word)

LEMMA InstInvInit == InstInit => InstInv
BY DEF InstInit, InstInv

LEMMA InstInvStep == InstInv /\ [InstNext]_instVars => InstInv'
<1> SUFFICES ASSUME InstInv, [InstNext]_instVars PROVE InstInv'
  OBVIOUS
<1>1. inst.word \in Words
  BY DEF InstInv
<1>2. CASE Decode
  BY <1>2 DEF Decode, InstInv
<1>3. CASE Assign
  <2>1. /\ unit \in decode(inst.word) /\ unit.op # "INVALID"
        /\ unit' = assign(unit, select(unit.op)) /\ step' = "assigned"
        /\ inst' = inst /\ text' = text /\ step = "decoded"
    BY <1>3 DEF Assign, InstInv
  <2>2. DOMAIN unit = Fields /\ Known(unit.op, inst.word) /\ Says(unit, inst.word)
    BY <1>1, <2>1, DecodeSays
  <2>3. inst.word.opcode \notin {15, Undefined}
    BY <2>2 DEF Says
  <2>4. CASE unit.op \in {"jal", "jalr"}
    <3>1. DOMAIN select(unit.op)
            = {"riscv", "imm", "opcode", "funct3", "funct7", "funct12"}
      BY <2>4, SelectOfJumps, SelHas
    <3>2. unit'.op = unit.op
      BY <2>1, <2>2, <3>1 DEF assign, Fields
    <3>. QED  BY <2>1, <2>4, <3>2 DEF InstInv
  <2>5. CASE unit.op \notin {"jal", "jalr"}
    <3>1. Selects(select(unit.op), unit.op, inst.word)
      BY <1>1, <2>2, <2>3, <2>5, SelectSays
    <3>2. Says(unit', inst.word)
      BY <1>1, <2>1, <2>2, <3>1, AssignSays
    <3>. QED  BY <2>1, <3>2 DEF InstInv
  <2>. QED  BY <2>4, <2>5
<1>4. CASE Encode
  <2>1. /\ unit'.word = encode(unit) /\ unit'.op = unit.op
        /\ step' = IF step = "decoded" THEN "encoded" ELSE "encoded anew"
        /\ inst' = inst /\ text' = text /\ step \in {"decoded", "assigned"}
    BY <1>4 DEF Encode
  <2>2. CASE step = "decoded"
    <3>1. unit \in decode(inst.word)
      BY <2>2 DEF InstInv
    <3>2. unit.op = "INVALID" \/ encode(unit) = Kept(inst.word)
      BY <1>1, <3>1, DecodeSays, EncodeSays
    <3>. QED  BY <2>1, <2>2, <3>2 DEF InstInv
  <2>3. CASE step = "assigned"
    <3>1. unit.op \in {"jal", "jalr"} \/ encode(unit) = Kept(inst.word)
      BY <1>1, <2>3, EncodeSays DEF InstInv
    <3>. QED  BY <2>1, <2>3, <3>1 DEF InstInv
  <2>. QED  BY <2>1, <2>2, <2>3
<1>5. CASE UNCHANGED instVars
  BY <1>5 DEF InstInv, instVars
<1>. QED  BY <1>2, <1>3, <1>4, <1>5 DEF InstNext

LEMMA NamesFollow == InstInv => NamesAgree
<1> SUFFICES ASSUME InstInv, step # "fetched"
             PROVE  text[1] = text[2] \/ text = <<"LUI", "lui">>
  BY DEF NamesAgree
<1> DEFINE w == inst.word
           valid == IF inst.valid = "x" THEN "0" ELSE inst.valid
<1>1. /\ w \in Words /\ inst.valid \in {"0", "1", "x"}
      /\ text = <<get_opcode_str(w, inst.valid), print_stage(w, valid)>>
  BY DEF InstInv
<1> HIDE DEF w
<1>2. CASE inst.valid # "1"
  <2>1. valid = "0"
    BY <1>1, <1>2
  <2>2. print_stage(w, "0") = "-"
    BY DEF print_stage
  <2>. QED  BY <1>1, <1>2, <2>1, <2>2 DEF get_opcode_str
<1>3. CASE inst.valid = "1" /\ w = NOOP_INST
  <2>1. print_stage(NOOP_INST, "1") = "nop"
    BY DEF print_stage
  <2>. QED  BY <1>1, <1>3, <2>1 DEF get_opcode_str
<1>4. CASE inst.valid = "1" /\ w # NOOP_INST
  <2>1. get_opcode_str(w, "1") = str(w)
    BY <1>4 DEF get_opcode_str
  <2>2. print_stage(w, "1") = instruction_name(w)
    BY <1>4 DEF print_stage
  <2>3. \/ str(w) = instruction_name(w)
        \/ str(w) = "LUI" /\ instruction_name(w) = "lui"
    BY <1>1, NamesAre
  <2>. QED  BY <1>1, <1>4, <2>1, <2>2, <2>3
<1>. QED  BY <1>2, <1>3, <1>4

\* TablesAgree, for every funct7 and every register.  Debugger and printer give
\* every word one name, which LUI has in capitals in one of the two.  A word
\* that has an op comes back from the fields decode took out of it, a store
\* without its bit 31, so that one in two stores does not; and from those that
\* select has for its op, jal and jalr excepted, of which nothing is said.  Of
\* words without an op nothing is said but their name.
THEOREM TablesAreRight == InstSpec => []TablesAgree
<1>1. InstInv => TablesAgree
  <2>1. InstInv => RoundTrip
    BY DEF InstInv, RoundTrip, Kept
  <2>. QED  BY <2>1, NamesFollow DEF TablesAgree
<1>. QED  BY <1>1, InstInvInit, InstInvStep, PTL DEF InstSpec
=============================================================================
