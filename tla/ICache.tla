-------------------------------- MODULE ICache --------------------------------
(***************************************************************************)
(* The instruction cache (verilog/icache_l2.sv) with its prefetcher.       *)
(*                                                                         *)
(* Every cycle it looks at a window of lines: the one that is fetched and  *)
(* the ones behind it, or the ones at the target of a misprediction that   *)
(* has not retired.  It asks the memory for one line of the window that it *)
(* does not have, and remembers, per place of the window, the line and the *)
(* tag of the request.  A line that leaves the window is forgotten.        *)
(*                                                                         *)
(* The data cache has the bus first.  It may take it in the second half of *)
(* a cycle only, after the memory has accepted the request of the first    *)
(* half (see DCacheMem): the response then does not get here.              *)
(***************************************************************************)
EXTENDS Integers, Sequences, FiniteSetsExt

CONSTANTS
  LINES,        \* line addresses: 0 .. LINES - 1, wrapping around
  SETS,         \* ICACHE_LINES_L2, sets of two ways
  FETCH_SIZE,   \* ICACHE_FETCH_SIZE_L2, places of the window
  NUM_MEM_TAGS, \* transactions of the memory
  Targets,      \* bound: the lines mispredicted branches lead to
  OTHERS        \* bound: transactions of the data cache

ASSUME ICacheAssumption ==
  /\ SETS \in Nat \ {0} /\ LINES \in Nat \ {0} /\ LINES % SETS = 0
  /\ FETCH_SIZE \in 1 .. SETS
  /\ Targets \subseteq 0 .. LINES - 1
  /\ NUM_MEM_TAGS \in Nat \ {0} /\ OTHERS \in Nat

VARIABLES
  ways,       \* data, tags, valids: per set <<[valid, line, text], ...>>
  window,     \* last_mem_addr, last_mem_tag: per place [line, tag]
  last_line,  \* last_index, last_tag
  in_flight,  \* accepted transactions, oldest first: [tag, line]
  delivered,  \* history: the line the last cycle delivered, or NoLine; not in
              \* a cycle with an early misprediction
  held        \* from here on the core waits for one fetch (ICacheHeldSpec)

icacheVars == <<ways, window, last_line, in_flight, delivered, held>>

ILine == 0 .. LINES - 1
ISet == 0 .. SETS - 1
Place == 0 .. FETCH_SIZE - 1
ITag == 1 .. NUM_MEM_TAGS         \* 0: no transaction
NoTarget == LINES                 \* no misprediction
NoLine == LINES
DLine == LINES                    \* a transaction of the data cache

SetOf(l) == l % SETS
EmptyWay == [valid |-> FALSE, line |-> 0, text |-> 0]

\* Reset.  The address before the first one counts as the last line.
ICacheInit ==
  /\ ways = [s \in ISet |-> <<EmptyWay, EmptyWay>>]
  /\ window = [i \in Place |-> [line |-> 0, tag |-> 0]]
  /\ last_line = LINES - 1
  /\ in_flight = <<>>
  /\ delivered = NoLine
  /\ held = FALSE

-----------------------------------------------------------------------------
(* The window of a cycle that fetches line f; e is the line of the target  *)
(* of an early misprediction (rob_icache), or NoTarget.                     *)

Hit(l) ==
  \E k \in 1 .. 2 : ways[SetOf(l)][k].valid /\ ways[SetOf(l)][k].line = l

\* Mutation: the prefetch moves over the tags and stays in one set.
OverTags(f, e, i) ==
  IF e # NoTarget /\ i > 0 THEN (e + i - 1) % LINES
  ELSE (f + i * SETS) % LINES

mem_addr(f, e, i) ==
  IF e # NoTarget /\ i > 0 THEN (e + i - 1) % LINES ELSE (f + i) % LINES

\* Mutation: the tags stay in their places when the window moves.
TagOfPlace(f, e, i) == window[i].tag

\* The tag goes with its line.  When the last window held the line twice, it
\* is that of the later place.
mem_tag(f, e, i) ==
  LET S == {j \in Place : window[j].line = mem_addr(f, e, i)}
  IN  IF S = {} THEN 0 ELSE window[Max(S)].tag

\* The window with the tags it starts the cycle with.
Window(f, e) ==
  [i \in Place |-> [line |-> mem_addr(f, e, i), tag |-> mem_tag(f, e, i)]]

to_fetch(w) == {i \in Place : ~Hit(w[i].line) /\ w[i].tag = 0}
fetch_idx(w) == Min(to_fetch(w))

\* Mutation: asks in the cycle in which the address changes, and only then.
AsksOnChange(w) == to_fetch(w) # {} /\ w[0].line # last_line

\* A request goes out when the address has been stable for a cycle.
Asks(w) == to_fetch(w) # {} /\ w[0].line = last_line

-----------------------------------------------------------------------------
(* The memory and the clock cycle.                                         *)

FreeTags == ITag \ {in_flight[k].tag : k \in DOMAIN in_flight}
Response == IF FreeTags = {} THEN 0 ELSE Min(FreeTags)

Transactions(l) ==
  IF Response = 0 THEN <<>> ELSE <<[tag |-> Response, line |-> l]>>

Others == {k \in DOMAIN in_flight : in_flight[k].line = DLine}

\* What the memory accepts on the falling edge: the request of this cache, if
\* the data cache leaves the bus (free), else one of the data cache.
Accepted(w, free) ==
  IF free THEN IF Asks(w) THEN Transactions(w[fetch_idx(w)].line) ELSE <<>>
  ELSE IF Cardinality(Others) < OTHERS THEN Transactions(DLine) ELSE <<>>

\* The transaction that comes back.
Returned(ends) ==
  IF ends THEN Head(in_flight) ELSE [tag |-> 0, line |-> DLine]

tag_match(w, b) == {i \in Place : w[i].tag = b.tag /\ b.tag # 0}

Filling(old, l, text) ==
  <<[valid |-> TRUE, line |-> l, text |-> text], old[1]>>

\* The line that comes back goes into the first way of its set, what was
\* there into the second.
NextWays(w, b) ==
  [s \in ISet |->
     LET M == {i \in tag_match(w, b) : SetOf(w[i].line) = s}
     IN  IF M = {} THEN ways[s]
         ELSE Filling(ways[s], w[Max(M)].line, b.line)]

\* The tag of the request that went out, if the response gets here (heard).
NewTag(w, heard) == IF heard /\ Asks(w) THEN Response ELSE 0

\* Mutation: a place keeps its tag when its line comes back.
KeepsTag(w, b, heard) ==
  [i \in Place |->
     IF i \in to_fetch(w) /\ i = fetch_idx(w)
     THEN [w[i] EXCEPT !.tag = NewTag(w, heard)] ELSE w[i]]

NextWindow(w, b, heard) ==
  [i \in Place |->
     IF i \in to_fetch(w) /\ i = fetch_idx(w)
     THEN [w[i] EXCEPT !.tag = NewTag(w, heard)]
     ELSE IF i \in tag_match(w, b) THEN [w[i] EXCEPT !.tag = 0]
     ELSE w[i]]

\* A cycle with window w.  straight: without an early misprediction; free: the
\* data cache leaves the bus in the first half of the cycle, heard: in the
\* second half too; ends: the oldest transaction comes back.
Cycle(w, straight, free, heard, ends) ==
  LET b == Returned(ends)
  IN  /\ ways' = NextWays(w, b)
      /\ window' = NextWindow(w, b, heard)
      /\ in_flight' = (IF ends THEN Tail(in_flight) ELSE in_flight)
                        \o Accepted(w, free)
      /\ delivered' = IF straight /\ Hit(w[0].line) THEN w[0].line ELSE NoLine

\* A squash makes the next address count as a new one.
NextLast(w, squash) == last_line' = IF squash THEN LINES - 1 ELSE w[0].line

\* The core asks for any line, the data cache for the bus.  A squash is the
\* retirement of a misprediction, which until then is an early one.
ICacheCycle ==
  /\ \E f \in ILine, e \in Targets \cup {NoTarget} :
     \E w \in {Window(f, e)}, free, heard, ends, squash \in BOOLEAN :
       /\ heard => free
       /\ free /\ ~Asks(w) => heard
       /\ ends => in_flight # <<>>
       /\ squash => e # NoTarget
       /\ Cycle(w, e = NoTarget, free, heard, ends)
       /\ NextLast(w, squash)
  /\ UNCHANGED held

\* The core waits for a fetch.
Waits(ends) ==
  /\ Cycle(Window(window[0].line, NoTarget), TRUE, TRUE, TRUE, ends)
  /\ NextLast(window, FALSE)
  /\ held' = TRUE

ICacheSpec == ICacheInit /\ [][ICacheCycle]_icacheVars

\* From some cycle on the core does nothing but wait for a fetch.  Then there
\* are no mispredictions left, and no loads and stores to take the bus.  The
\* memory answers.
CoreWaits == \E ends \in {FALSE, in_flight # <<>>} : Waits(ends)
Answers == held /\ Waits(in_flight # <<>>)

ICacheHeldSpec ==
  /\ ICacheInit
  /\ [][(~held /\ ICacheCycle) \/ CoreWaits]_icacheVars
  /\ WF_icacheVars(Answers)

-----------------------------------------------------------------------------
(* Properties.                                                             *)

\* A tag in the window is that of a transaction for the line beside it: not
\* one that has come back, not one of the data cache, however the window
\* moves away and back and the tags are used again.
TagsAreOurs ==
  \A i \in Place :
    window[i].tag # 0 => \E k \in DOMAIN in_flight :
                           in_flight[k] = [tag |-> window[i].tag,
                                           line |-> window[i].line]

\* What the cache delivers is the text of the line that is fetched.
HoldsText ==
  \A s \in ISet, k \in 1 .. 2 :
    ways[s][k].valid => ways[s][k].text = ways[s][k].line

\* A line is known by the tag of its own request, and by its own text.
ICacheInv == TagsAreOurs /\ HoldsText

\* A line that is delivered is there in the next cycle, so an instruction the
\* back end refuses can be fetched again: prefetches do not replace it, except
\* those for the target of a misprediction (then the instruction lies on the
\* wrong path).  The core model relies on this (MayMiss of P6Core).
DeliveredLineStays == delivered # NoLine => Hit(delivered)

\* A fetch that the core waits for is served, whatever was asked for before
\* and forgotten, and whatever responses did not get here.
FetchIsServed == held ~> Hit(window[0].line)
=============================================================================
