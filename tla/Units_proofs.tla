----------------------------- MODULE Units_proofs -----------------------------
(***************************************************************************)
(* Proofs about the units that work by themselves, which MCUnits checks:   *)
(* the instruction cache, branch prediction, the choice among results and  *)
(* the multiplier, for every number of lines, sets, places of the window   *)
(* and transactions of the memory, every size of the stack and of the      *)
(* tables, every text, every set of units and every width of the operands. *)
(***************************************************************************)
EXTENDS Multiplier, FuSelector, NpcControl, ICache, Order_proofs,
        SequenceTheorems

-----------------------------------------------------------------------------
(* THE INSTRUCTION CACHE.                                                  *)

USE ICacheAssumption

-----------------------------------------------------------------------------
(* Least and greatest elements of sets of numbers.                         *)

LEMMA MinOf ==
  ASSUME NEW n \in Nat, NEW S \in SUBSET (0 .. n), S # {}
  PROVE  Min(S) \in S
BY LeastOf DEF Min

LEMMA MaxOf ==
  ASSUME NEW n \in Nat, NEW S \in SUBSET (0 .. n), S # {}
  PROVE  Max(S) \in S
<1> DEFINE T == {n - y : y \in S}
<1>1. PICK x \in T : \A y \in T : x =< y
  <2>1. ASSUME NEW y \in S PROVE n - y \in 0 .. n
    OBVIOUS
  <2>2. T \in SUBSET (0 .. n) /\ T # {}
    BY <2>1
  <2> HIDE DEF T
  <2>. QED  BY <2>2, LeastOf
<1>2. PICK z \in S : x = n - z
  OBVIOUS
<1>3. \A y \in S : z >= y
  <2>1. ASSUME NEW y \in S PROVE z >= y
    <3>1. x =< n - y
      BY <1>1
    <3>. QED  BY <1>2, <3>1
  <2>. QED  BY <2>1
<1>. QED  BY <1>3 DEF Max

-----------------------------------------------------------------------------
(* The inductive invariant.                                                *)

WindowType == [Place -> [line : ILine, tag : 0 .. NUM_MEM_TAGS]]
Transaction == [tag : ITag, line : 0 .. LINES]

\* The tags of w are those of transactions for the lines beside them.
OursIn(w) ==
  \A i \in Place :
    w[i].tag # 0 => \E k \in DOMAIN in_flight :
                      in_flight[k] = [tag |-> w[i].tag, line |-> w[i].line]

\* The memory uses a tag once.
TagsDiffer ==
  \A j, k \in DOMAIN in_flight :
    in_flight[j].tag = in_flight[k].tag => j = k

ICacheInd ==
  /\ window \in WindowType
  /\ in_flight \in Seq(Transaction)
  /\ ways = [s \in ISet |-> ways[s]]
  /\ TagsDiffer
  /\ OursIn(window)
  /\ HoldsText
  /\ DeliveredLineStays

LEMMA ICacheIndInit == ICacheInit => ICacheInd
<1> SUFFICES ASSUME ICacheInit PROVE ICacheInd
  OBVIOUS
<1>1. window \in WindowType
  BY DEF ICacheInit, WindowType, ILine
<1>2. in_flight \in Seq(Transaction) /\ in_flight = <<>>
  BY DEF ICacheInit
<1>3. OursIn(window)
  BY DEF ICacheInit, OursIn
<1>4. HoldsText
  BY DEF ICacheInit, HoldsText, EmptyWay
<1>. QED
  BY <1>1, <1>2, <1>3, <1>4
     DEF ICacheInit, ICacheInd, TagsDiffer, DeliveredLineStays, NoLine

-----------------------------------------------------------------------------
(* The window moves: a tag goes with its line.                             *)

LEMMA WindowMoves ==
  ASSUME ICacheInd, NEW f \in ILine, NEW e \in Targets \cup {NoTarget}
  PROVE  Window(f, e) \in WindowType /\ OursIn(Window(f, e))
<1>1. ASSUME NEW i \in Place
      PROVE  /\ mem_addr(f, e, i) \in ILine
             /\ mem_tag(f, e, i) \in 0 .. NUM_MEM_TAGS
             /\ mem_tag(f, e, i) # 0 =>
                  \E k \in DOMAIN in_flight :
                    in_flight[k] = [tag |-> mem_tag(f, e, i),
                                    line |-> mem_addr(f, e, i)]
  <2>1. mem_addr(f, e, i) \in ILine
    BY DEF mem_addr, ILine, Place, NoTarget
  <2> DEFINE S == {j \in Place : window[j].line = mem_addr(f, e, i)}
  <2>2. CASE S = {}
    BY <2>1, <2>2 DEF mem_tag
  <2>3. CASE S # {}
    <3>1. Max(S) \in S
      <4>1. FETCH_SIZE - 1 \in Nat /\ S \in SUBSET (0 .. FETCH_SIZE - 1)
        BY DEF Place
      <4>. HIDE DEF S
      <4>. QED  BY <2>3, <4>1, MaxOf
    <3>2. /\ Max(S) \in Place /\ window[Max(S)].line = mem_addr(f, e, i)
          /\ mem_tag(f, e, i) = window[Max(S)].tag
      BY <2>3, <3>1 DEF mem_tag
    <3>3. window[Max(S)].tag \in 0 .. NUM_MEM_TAGS
      BY <3>2 DEF ICacheInd, WindowType
    <3>. QED  BY <2>1, <3>2, <3>3 DEF ICacheInd, OursIn
  <2>. QED  BY <2>2, <2>3
<1>2. Window(f, e) \in WindowType
  BY <1>1 DEF Window, WindowType
<1>3. OursIn(Window(f, e))
  BY <1>1 DEF Window, OursIn
<1>. QED  BY <1>2, <1>3

\* Division by the number of sets.
LEMMA MultipleBelow ==
  ASSUME NEW d \in Int, SETS * d > -SETS, SETS * d < SETS
  PROVE  d = 0
<1>1. CASE d >= 1
  <2>1. SETS * d >= SETS * 1
    BY <1>1
  <2>. QED  BY <2>1
<1>2. CASE d <= -1
  <2>1. SETS * d <= SETS * (-1)
    BY <1>2
  <2>. QED  BY <2>1
<1>. QED  BY <1>1, <1>2

LEMMA SameSet ==
  ASSUME NEW a \in Int, NEW b \in Int, NEW d \in Int, b = a - SETS * d
  PROVE  a % SETS = b % SETS
<1> DEFINE qa == a \div SETS
           qb == b \div SETS
           ra == a % SETS
           rb == b % SETS
<1>1. /\ qa \in Int /\ qb \in Int
      /\ ra \in 0 .. SETS - 1 /\ rb \in 0 .. SETS - 1
      /\ a = SETS * qa + ra /\ b = SETS * qb + rb
  OBVIOUS
<1> HIDE DEF qa, qb, ra, rb
<1>2. SETS * (qa - d - qb) = rb - ra
  <2>1. SETS * (qa - d - qb) = SETS * qa - SETS * d - SETS * qb
    BY <1>1
  <2>. QED  BY <1>1, <2>1
<1>3. qa - d - qb = 0
  BY <1>1, <1>2, MultipleBelow
<1>4. rb - ra = 0
  BY <1>2, <1>3
<1>5. ra = rb
  BY <1>1, <1>4
<1>. QED  BY <1>5 DEF ra, rb

\* Without an early misprediction, the lines of a window lie in different
\* sets.
LEMMA PlacesDiffer ==
  ASSUME NEW f \in ILine, NEW i \in Place,
         SetOf((f + i) % LINES) = SetOf((f + 0) % LINES)
  PROVE  i = 0
<1> DEFINE m == LINES \div SETS
<1>1. LINES = SETS * m /\ m \in Nat
  OBVIOUS
<1>2. SETS <= LINES
  OBVIOUS
<1> HIDE DEF m
<1>3. (f + 0) % LINES = f
  BY DEF ILine
<1>4. (f + i) % LINES = f + i \/ (f + i) % LINES = f + i - LINES
  BY <1>2 DEF ILine, Place
<1>5. (f + i) % SETS = (f + i - LINES) % SETS
  <2>1. /\ f + i \in Int /\ f + i - LINES \in Int
        /\ f + i - LINES = (f + i) - SETS * m
    BY <1>1 DEF ILine, Place
  <2>2. m \in Int
    BY <1>1
  <2>. QED  BY <2>1, <2>2, SameSet
<1>6. (f + i) % SETS = f % SETS
  BY <1>3, <1>4, <1>5 DEF SetOf
<1> DEFINE qf == f \div SETS
           qi == (f + i) \div SETS
           rest == f % SETS
<1>7. /\ qf \in Int /\ qi \in Int /\ rest \in Int
      /\ f = SETS * qf + rest /\ f + i = SETS * qi + rest
  BY <1>6 DEF ILine, Place
<1> HIDE DEF qf, qi, rest
<1>8. i = SETS * (qi - qf)
  <2>1. SETS * (qi - qf) = SETS * qi - SETS * qf
    BY <1>7
  <2>. QED  BY <1>7, <2>1 DEF ILine, Place
<1>9. qi - qf = 0
  BY <1>7, <1>8, MultipleBelow DEF Place
<1>. QED  BY <1>8, <1>9

-----------------------------------------------------------------------------
(* A clock cycle.                                                          *)

LEMMA ResponseIsFree ==
  ASSUME Response # 0
  PROVE  /\ Response \in ITag
         /\ \A k \in DOMAIN in_flight : in_flight[k].tag # Response
<1>1. FreeTags # {} /\ Response = Min(FreeTags)
  BY DEF Response
<1>2. FreeTags \in SUBSET (0 .. NUM_MEM_TAGS)
  BY DEF FreeTags, ITag
<1>3. Min(FreeTags) \in FreeTags
  BY <1>1, <1>2, MinOf
<1>. QED  BY <1>1, <1>3 DEF FreeTags

LEMMA FetchPlace ==
  ASSUME NEW w \in WindowType, Asks(w)
  PROVE  fetch_idx(w) \in to_fetch(w) /\ fetch_idx(w) \in Place
<1>1. FETCH_SIZE - 1 \in Nat /\ to_fetch(w) \in SUBSET (0 .. FETCH_SIZE - 1)
  BY DEF to_fetch, Place
<1>2. to_fetch(w) # {}
  BY DEF Asks
<1>3. Min(to_fetch(w)) \in to_fetch(w)
  BY <1>1, <1>2, MinOf
<1>. QED  BY <1>3 DEF fetch_idx, to_fetch

\* What the memory has in flight after a cycle.
LEMMA FlightMoves ==
  ASSUME ICacheInd, NEW w \in WindowType, NEW free \in BOOLEAN,
         NEW ends \in BOOLEAN, ends => in_flight # <<>>,
         in_flight' = (IF ends THEN Tail(in_flight) ELSE in_flight)
                        \o Accepted(w, free)
  PROVE  /\ in_flight' \in Seq(Transaction)
         /\ TagsDiffer'
         /\ \A k \in DOMAIN in_flight :
              \/ ends /\ k = 1
              \/ \E j \in DOMAIN in_flight' : in_flight'[j] = in_flight[k]
         /\ free /\ Asks(w) /\ Response # 0 =>
              \E j \in DOMAIN in_flight' :
                in_flight'[j] = [tag |-> Response, line |-> w[fetch_idx(w)].line]
<1> DEFINE rest == IF ends THEN Tail(in_flight) ELSE in_flight
           d == IF ends THEN 1 ELSE 0
           acc == Accepted(w, free)
<1>1. in_flight \in Seq(Transaction)
  BY DEF ICacheInd
<1>2. /\ rest \in Seq(Transaction)
      /\ d \in 0 .. 1 /\ (d = 1 => ends)
      /\ Len(rest) = Len(in_flight) - d
      /\ \A j \in 1 .. Len(rest) : rest[j] = in_flight[j + d]
  BY <1>1
<1>3. \/ acc = <<>>
      \/ /\ Response # 0
         /\ \E l \in 0 .. LINES : acc = <<[tag |-> Response, line |-> l]>>
  <2>1. CASE free /\ Asks(w)
    <3>1. w[fetch_idx(w)].line \in 0 .. LINES
      BY <2>1, FetchPlace DEF WindowType, ILine
    <3>. QED  BY <2>1, <3>1 DEF Accepted, Transactions
  <2>2. CASE ~(free /\ Asks(w))
    <3>1. DLine \in 0 .. LINES
      BY DEF DLine
    <3>. QED  BY <2>2, <3>1 DEF Accepted, Transactions
  <2>. QED  BY <2>1, <2>2
<1>4. free /\ Asks(w) /\ Response # 0 =>
        acc = <<[tag |-> Response, line |-> w[fetch_idx(w)].line]>>
  BY DEF Accepted, Transactions
<1>5. in_flight' = rest \o acc
  OBVIOUS
<1> HIDE DEF rest, acc, d
<1>j. \A j \in 1 .. Len(rest) : j + d \in DOMAIN in_flight
  BY <1>1, <1>2
<1>k. \A k \in DOMAIN in_flight : (ends /\ k = 1) \/ k - d \in 1 .. Len(rest)
  BY <1>1, <1>2
<1>6. CASE acc = <<>>
  <2>1. in_flight' = rest
    BY <1>2, <1>5, <1>6
  <2>2. in_flight' \in Seq(Transaction)
    BY <1>2, <2>1
  <2>3. TagsDiffer'
    <3>1. ASSUME NEW j \in 1 .. Len(rest), NEW k \in 1 .. Len(rest),
                 rest[j].tag = rest[k].tag
          PROVE  j = k
      <4>1. j + d = k + d
        BY <1>2, <1>j, <3>1 DEF ICacheInd, TagsDiffer
      <4>. QED  BY <1>2, <4>1
    <3>2. DOMAIN rest = 1 .. Len(rest)
      BY <1>2
    <3>. QED  BY <2>1, <3>1, <3>2 DEF TagsDiffer
  <2>4. \A k \in DOMAIN in_flight :
          \/ ends /\ k = 1
          \/ \E j \in DOMAIN in_flight' : in_flight'[j] = in_flight[k]
    <3>1. ASSUME NEW k \in DOMAIN in_flight, ~(ends /\ k = 1)
          PROVE  k - d \in DOMAIN in_flight' /\ in_flight'[k - d] = in_flight[k]
      <4>1. k - d \in 1 .. Len(rest)
        BY <1>k, <3>1
      <4>2. (k - d) + d = k
        BY <1>1, <1>2
      <4>. QED  BY <1>2, <2>1, <4>1, <4>2
    <3>. QED  BY <3>1
  <2>5. ~(free /\ Asks(w) /\ Response # 0)
    BY <1>4, <1>6
  <2>. QED  BY <2>2, <2>3, <2>4, <2>5
<1>7. CASE acc # <<>>
  <2>1. PICK l \in 0 .. LINES : acc = <<[tag |-> Response, line |-> l]>>
    BY <1>3, <1>7
  <2> DEFINE t == [tag |-> Response, line |-> l]
  <2>2. t \in Transaction /\ \A k \in DOMAIN in_flight : in_flight[k].tag # t.tag
    BY <1>3, <1>7, ResponseIsFree DEF Transaction
  <2>3. in_flight' = Append(rest, t)
    BY <1>2, <1>5, <2>1, <2>2, AppendIsConcat
  <2> HIDE DEF t
  <2>4. /\ in_flight' \in Seq(Transaction)
        /\ Len(in_flight') = Len(rest) + 1
        /\ in_flight'[Len(rest) + 1] = t
        /\ \A j \in 1 .. Len(rest) : in_flight'[j] = rest[j]
    <3>1. /\ Append(rest, t) \in Seq(Transaction)
          /\ Len(Append(rest, t)) = Len(rest) + 1
          /\ Append(rest, t)[Len(rest) + 1] = t
          /\ \A j \in 1 .. Len(rest) : Append(rest, t)[j] = rest[j]
      <4>1. rest \in Seq(Transaction) /\ t \in Transaction
        BY <1>2, <2>2
      <4>. QED  BY <4>1, AppendProperties
    <3>. QED  BY <2>3, <3>1
  <2>d. DOMAIN in_flight' = 1 .. Len(rest) + 1
    BY <1>2, <2>4
  <2>5. TagsDiffer'
    <3>1. ASSUME NEW j \in DOMAIN in_flight', NEW k \in DOMAIN in_flight',
                 in_flight'[j].tag = in_flight'[k].tag, j < k
          PROVE  FALSE
      <4>1. /\ j \in 1 .. Len(rest)
            /\ in_flight'[j] = in_flight[j + d] /\ j + d \in DOMAIN in_flight
        <5>1. j \in 1 .. Len(rest)
          BY <1>2, <2>d, <3>1
        <5>2. in_flight'[j] = rest[j] /\ rest[j] = in_flight[j + d]
          BY <1>2, <2>4, <5>1
        <5>. QED  BY <1>j, <5>1, <5>2
      <4>2. CASE k = Len(rest) + 1
        BY <2>2, <2>4, <3>1, <4>1, <4>2
      <4>3. CASE k # Len(rest) + 1
        <5>1. k \in 1 .. Len(rest)
          BY <1>2, <2>d, <4>3
        <5>2. in_flight'[k] = rest[k] /\ rest[k] = in_flight[k + d]
          BY <1>2, <2>4, <5>1
        <5>3. j + d = k + d
          BY <1>j, <3>1, <4>1, <5>1, <5>2 DEF ICacheInd, TagsDiffer
        <5>. QED  BY <1>2, <3>1, <4>1, <5>1, <5>3
      <4>. QED  BY <4>2, <4>3
    <3>2. \A j, k \in DOMAIN in_flight' : j < k \/ k < j \/ j = k
      BY <1>2, <2>d
    <3>. QED  BY <3>1, <3>2 DEF TagsDiffer
  <2>6. \A k \in DOMAIN in_flight :
          \/ ends /\ k = 1
          \/ \E j \in DOMAIN in_flight' : in_flight'[j] = in_flight[k]
    <3>1. ASSUME NEW k \in DOMAIN in_flight, ~(ends /\ k = 1)
          PROVE  k - d \in DOMAIN in_flight' /\ in_flight'[k - d] = in_flight[k]
      <4>1. k - d \in 1 .. Len(rest)
        BY <1>k, <3>1
      <4>2. (k - d) + d = k
        BY <1>1, <1>2
      <4>3. in_flight'[k - d] = rest[k - d] /\ rest[k - d] = in_flight[(k - d) + d]
        BY <1>2, <2>4, <4>1
      <4>. QED  BY <1>2, <2>d, <4>1, <4>2, <4>3
    <3>. QED  BY <3>1
  <2>7. Len(rest) + 1 \in DOMAIN in_flight'
    BY <1>2, <2>d
  <2>8. free /\ Asks(w) /\ Response # 0 =>
          t = [tag |-> Response, line |-> w[fetch_idx(w)].line]
    BY <1>4, <2>1 DEF t
  <2>. QED  BY <2>4, <2>5, <2>6, <2>7, <2>8
<1>. QED  BY <1>6, <1>7

\* The transaction that comes back is for the lines whose tags it matches.
LEMMA ReturnedIsOurs ==
  ASSUME ICacheInd, NEW w \in WindowType, OursIn(w), NEW ends \in BOOLEAN,
         ends => in_flight # <<>>, NEW i \in tag_match(w, Returned(ends))
  PROVE  /\ i \in Place /\ ends
         /\ Returned(ends).line = w[i].line
<1> DEFINE b == Returned(ends)
<1>1. i \in Place /\ w[i].tag = b.tag /\ b.tag # 0
  BY DEF tag_match
<1>2. ends
  BY <1>1 DEF Returned
<1>3. b = in_flight[1] /\ 1 \in DOMAIN in_flight
  BY <1>2 DEF Returned, ICacheInd
<1>4. PICK k \in DOMAIN in_flight :
        in_flight[k] = [tag |-> w[i].tag, line |-> w[i].line]
  BY <1>1 DEF OursIn
<1>5. k = 1
  BY <1>1, <1>3, <1>4 DEF ICacheInd, TagsDiffer
<1>6. Returned(ends).line = w[i].line
  BY <1>3, <1>4, <1>5
<1>. QED  BY <1>1, <1>2, <1>6

\* What the clock edge does to a set: nothing, or a line of the window that
\* is in it comes back.
LEMMA SetMoves ==
  ASSUME ICacheInd, NEW w \in WindowType, OursIn(w), NEW ends \in BOOLEAN,
         ends => in_flight # <<>>, NEW s \in ISet,
         ways' = NextWays(w, Returned(ends))
  PROVE  \/ ways'[s] = ways[s]
         \/ \E i \in Place :
              /\ SetOf(w[i].line) = s
              /\ ways'[s] = Filling(ways[s], w[i].line, w[i].line)
<1> DEFINE b == Returned(ends)
           M == {i \in tag_match(w, b) : SetOf(w[i].line) = s}
<1>1. ways'[s] = IF M = {} THEN ways[s]
                 ELSE Filling(ways[s], w[Max(M)].line, b.line)
  BY DEF NextWays
<1>2. ASSUME M # {}
      PROVE  /\ Max(M) \in Place /\ SetOf(w[Max(M)].line) = s
             /\ b.line = w[Max(M)].line
  <2>0. Max(M) \in M
    <3>1. FETCH_SIZE - 1 \in Nat /\ M \in SUBSET (0 .. FETCH_SIZE - 1)
      BY DEF tag_match, Place
    <3> HIDE DEF M
    <3>. QED  BY <1>2, <3>1, MaxOf
  <2>1. Max(M) \in tag_match(w, b) /\ SetOf(w[Max(M)].line) = s
    BY <2>0
  <2> HIDE DEF M
  <2>2. /\ Max(M) \in Place /\ b.line = w[Max(M)].line
    BY <2>1, ReturnedIsOurs
  <2>. QED  BY <2>1, <2>2
<1> HIDE DEF M, b
<1>. QED  BY <1>1, <1>2

LEMMA CycleKeepsText ==
  ASSUME ICacheInd, NEW w \in WindowType, OursIn(w), NEW ends \in BOOLEAN,
         ends => in_flight # <<>>, ways' = NextWays(w, Returned(ends))
  PROVE  HoldsText'
<1>1. ASSUME NEW s \in ISet, NEW k \in 1 .. 2
      PROVE  ways'[s][k].valid => ways'[s][k].text = ways'[s][k].line
  <2>1. \A j \in 1 .. 2 : ways[s][j].valid => ways[s][j].text = ways[s][j].line
    BY DEF ICacheInd, HoldsText
  <2>2. ASSUME NEW l, ways'[s] = Filling(ways[s], l, l)
        PROVE  ways'[s][k].valid => ways'[s][k].text = ways'[s][k].line
    <3>1. k = 1 \/ k = 2
      OBVIOUS
    <3>2. /\ ways'[s][1] = [valid |-> TRUE, line |-> l, text |-> l]
          /\ ways'[s][2] = ways[s][1]
      BY <2>2 DEF Filling
    <3>. QED  BY <2>1, <3>1, <3>2
  <2>3. CASE ways'[s] = ways[s]
    BY <2>1, <2>3
  <2>. QED  BY <2>2, <2>3, SetMoves
<1>. QED  BY <1>1 DEF HoldsText

LEMMA Retagged ==
  ASSUME NEW p \in [line : ILine, tag : 0 .. NUM_MEM_TAGS],
         NEW t \in 0 .. NUM_MEM_TAGS
  PROVE  /\ [p EXCEPT !.tag = t] \in [line : ILine, tag : 0 .. NUM_MEM_TAGS]
         /\ [p EXCEPT !.tag = t].tag = t
         /\ [p EXCEPT !.tag = t].line = p.line
OBVIOUS

LEMMA CycleKeepsTags ==
  ASSUME ICacheInd, NEW w \in WindowType, OursIn(w),
         NEW free \in BOOLEAN, NEW heard \in BOOLEAN, heard => free,
         NEW ends \in BOOLEAN, ends => in_flight # <<>>,
         window' = NextWindow(w, Returned(ends), heard),
         in_flight' = (IF ends THEN Tail(in_flight) ELSE in_flight)
                        \o Accepted(w, free)
  PROVE  window' \in WindowType /\ OursIn(window)'
<1> DEFINE b == Returned(ends)
<1>1. /\ window' = NextWindow(w, b, heard)
      /\ in_flight' = (IF ends THEN Tail(in_flight) ELSE in_flight)
                        \o Accepted(w, free)
  OBVIOUS
<1>2. /\ \A k \in DOMAIN in_flight :
           \/ ends /\ k = 1
           \/ \E j \in DOMAIN in_flight' : in_flight'[j] = in_flight[k]
      /\ free /\ Asks(w) /\ Response # 0 =>
           \E j \in DOMAIN in_flight' :
             in_flight'[j] = [tag |-> Response, line |-> w[fetch_idx(w)].line]
  BY <1>1, FlightMoves
<1>3. Response \in 0 .. NUM_MEM_TAGS
  BY ResponseIsFree DEF ITag
<1>4. ASSUME NEW i \in Place
      PROVE  /\ window'[i] \in [line : ILine, tag : 0 .. NUM_MEM_TAGS]
             /\ window'[i].tag # 0 =>
                  \E k \in DOMAIN in_flight' :
                    in_flight'[k] = [tag |-> window'[i].tag,
                                     line |-> window'[i].line]
  <2>0. w[i] \in [line : ILine, tag : 0 .. NUM_MEM_TAGS]
    BY DEF WindowType
  <2>1. CASE i \in to_fetch(w) /\ i = fetch_idx(w)
    <3>1. window'[i] = [w[i] EXCEPT !.tag = NewTag(w, heard)]
      BY <1>1, <2>1 DEF NextWindow
    <3>2. NewTag(w, heard) \in 0 .. NUM_MEM_TAGS
      BY <1>3 DEF NewTag
    <3>3. /\ window'[i].line = w[i].line /\ window'[i].tag = NewTag(w, heard)
          /\ window'[i] \in [line : ILine, tag : 0 .. NUM_MEM_TAGS]
      BY <2>0, <3>1, <3>2
    <3>4. NewTag(w, heard) # 0 =>
            heard /\ Asks(w) /\ Response # 0 /\ NewTag(w, heard) = Response
      BY DEF NewTag
    <3>. QED  BY <1>2, <2>1, <3>3, <3>4
  <2>2. CASE ~(i \in to_fetch(w) /\ i = fetch_idx(w)) /\ i \in tag_match(w, b)
    <3>1. window'[i] = [w[i] EXCEPT !.tag = 0]
      BY <1>1, <2>2 DEF NextWindow
    <3>2. /\ window'[i].tag = 0
          /\ window'[i] \in [line : ILine, tag : 0 .. NUM_MEM_TAGS]
      BY <2>0, <3>1, Retagged
    <3>. QED  BY <3>2
  <2>3. CASE ~(i \in to_fetch(w) /\ i = fetch_idx(w)) /\ i \notin tag_match(w, b)
    <3>1. window'[i] = w[i]
      BY <1>1, <2>3 DEF NextWindow
    <3>2. ASSUME w[i].tag # 0
          PROVE  \E k \in DOMAIN in_flight' :
                   in_flight'[k] = [tag |-> w[i].tag, line |-> w[i].line]
      <4>1. PICK k \in DOMAIN in_flight :
              in_flight[k] = [tag |-> w[i].tag, line |-> w[i].line]
        BY <3>2 DEF OursIn
      <4>2. ~(ends /\ k = 1)
        <5>1. ASSUME ends, k = 1 PROVE b = [tag |-> w[i].tag, line |-> w[i].line]
          BY <4>1, <5>1 DEF Returned, ICacheInd
        <5>. QED  BY <2>3, <3>2, <5>1 DEF tag_match
      <4>. QED  BY <1>2, <4>1, <4>2
    <3>. QED  BY <2>0, <3>1, <3>2
  <2>. QED  BY <2>1, <2>2, <2>3
<1>5. window' = [i \in Place |-> window'[i]]
  BY <1>1 DEF NextWindow
<1>. QED  BY <1>4, <1>5 DEF WindowType, OursIn

\* A set of a straight window gets no other line than the one that is fetched,
\* if that one is in it.
LEMMA CycleKeepsDelivered ==
  ASSUME ICacheInd, NEW w \in WindowType, OursIn(w),
         NEW f \in ILine, NEW e, w = Window(f, e),
         NEW ends \in BOOLEAN, ends => in_flight # <<>>,
         ways' = NextWays(w, Returned(ends)),
         delivered' = IF e = NoTarget /\ Hit(w[0].line) THEN w[0].line ELSE NoLine
  PROVE  DeliveredLineStays'
<1> SUFFICES ASSUME e = NoTarget, Hit(w[0].line) PROVE Hit(w[0].line)'
  BY DEF DeliveredLineStays
<1> DEFINE l == w[0].line
<1>1. 0 \in Place /\ l \in ILine
  BY DEF Place, WindowType
<1>2. SetOf(l) \in ISet
  BY <1>1 DEF SetOf, ISet, ILine
<1>3. \A i \in Place : SetOf(w[i].line) = SetOf(l) => w[i].line = l
  <2>2. \A i \in Place : w[i].line = (f + i) % LINES
    BY DEF Window, mem_addr
  <2>3. l = (f + 0) % LINES
    BY <1>1, <2>2
  <2>. QED  BY <2>2, <2>3, PlacesDiffer
<1>4. \/ ways'[SetOf(l)] = ways[SetOf(l)]
      \/ ways'[SetOf(l)] = Filling(ways[SetOf(l)], l, l)
  <2>1. ways' = NextWays(w, Returned(ends))
    OBVIOUS
  <2> HIDE DEF l
  <2>. QED  BY <1>2, <1>3, <2>1, SetMoves
<1>5. CASE ways'[SetOf(l)] = ways[SetOf(l)]
  BY <1>5 DEF Hit
<1>6. CASE ways'[SetOf(l)] = Filling(ways[SetOf(l)], l, l)
  <2>1. ways'[SetOf(l)][1] = [valid |-> TRUE, line |-> l, text |-> l]
    BY <1>6 DEF Filling
  <2>2. ways'[SetOf(l)][1].valid /\ ways'[SetOf(l)][1].line = l
    BY <2>1
  <2>3. \E k \in 1 .. 2 : ways'[SetOf(l)][k].valid /\ ways'[SetOf(l)][k].line = l
    BY <2>2
  <2>. QED  BY <2>3 DEF Hit
<1>. QED  BY <1>4, <1>5, <1>6

LEMMA ICacheIndCycle == ICacheInd /\ ICacheCycle => ICacheInd'
<1> SUFFICES ASSUME ICacheInd, ICacheCycle PROVE ICacheInd'
  OBVIOUS
<1>0. PICK f \in ILine, e \in Targets \cup {NoTarget} :
        \E w \in {Window(f, e)}, free, heard, ends, squash \in BOOLEAN :
          /\ heard => free
          /\ free /\ ~Asks(w) => heard
          /\ ends => in_flight # <<>>
          /\ squash => e # NoTarget
          /\ Cycle(w, e = NoTarget, free, heard, ends)
          /\ NextLast(w, squash)
  BY DEF ICacheCycle
<1>1. PICK w \in {Window(f, e)},
           free \in BOOLEAN, heard \in BOOLEAN, ends \in BOOLEAN :
        /\ heard => free
        /\ ends => in_flight # <<>>
        /\ Cycle(w, e = NoTarget, free, heard, ends)
  BY <1>0
<1>2. w = Window(f, e) /\ w \in WindowType /\ OursIn(w)
  BY WindowMoves
<1>3. /\ ways' = NextWays(w, Returned(ends))
      /\ window' = NextWindow(w, Returned(ends), heard)
      /\ in_flight' = (IF ends THEN Tail(in_flight) ELSE in_flight)
                        \o Accepted(w, free)
      /\ delivered' = IF e = NoTarget /\ Hit(w[0].line) THEN w[0].line ELSE NoLine
  BY <1>1 DEF Cycle
<1>4. in_flight' \in Seq(Transaction) /\ TagsDiffer'
  BY <1>1, <1>2, <1>3, FlightMoves
<1>5. window' \in WindowType /\ OursIn(window)'
  BY <1>1, <1>2, <1>3, CycleKeepsTags
<1>6. HoldsText'
  BY <1>1, <1>2, <1>3, CycleKeepsText
<1>7. DeliveredLineStays'
  BY <1>1, <1>2, <1>3, CycleKeepsDelivered
<1>8. ways' = [s \in ISet |-> ways'[s]]
  BY <1>3 DEF NextWays
<1>. QED  BY <1>4, <1>5, <1>6, <1>7, <1>8 DEF ICacheInd

\* The conjunction of what the tags, the transactions and the ways agree on is
\* inductive.
THEOREM ICacheIndInvariant == ICacheSpec => []ICacheInd
<1>1. ICacheInd /\ UNCHANGED icacheVars => ICacheInd'
  BY DEF icacheVars, ICacheInd, TagsDiffer, OursIn, HoldsText,
         DeliveredLineStays, Hit
<1>. QED  BY <1>1, ICacheIndInit, ICacheIndCycle, PTL DEF ICacheSpec

\* A line is known by the tag of its own request, and the cache delivers the
\* text of the line that is fetched.
THEOREM ICacheCorrect == ICacheSpec => []ICacheInv
<1>1. ICacheInd => ICacheInv
  BY DEF ICacheInd, OursIn, TagsAreOurs, ICacheInv
<1>. QED  BY <1>1, ICacheIndInvariant, PTL

\* An instruction that the back end refuses can be fetched again.
THEOREM ICacheRefetch == ICacheSpec => []DeliveredLineStays
<1>1. ICacheInd => DeliveredLineStays
  BY DEF ICacheInd
<1>. QED  BY <1>1, ICacheIndInvariant, PTL

HIDE ICacheAssumption

-----------------------------------------------------------------------------
(* BRANCH PREDICTION.                                                      *)

RasIdx == 0 .. RAS_SIZE - 1

USE RasAssumption DEF RasIdx

-----------------------------------------------------------------------------
(* The return stack.                                                       *)

RasTypeOK ==
  /\ ras_stack \in [RasIdx -> Int]
  /\ reg_empty \in Int /\ last_query_pc \in Int /\ last_out_pc \in Int
  /\ ras_counter \in 0 .. RAS_SIZE
  /\ tosp \in RasIdx /\ tosp_n \in RasIdx
  /\ calls \in Seq(Int)

\* The two pointers are neighbours, unless nothing has been pushed yet.
PointersAgree == ras_counter > 0 => tosp_n = (tosp + 1) % RAS_SIZE

RasInv == RasTypeOK /\ PointersAgree /\ RingIsBoundedStack

LEMMA RingNext ==
  ASSUME NEW p \in RasIdx
  PROVE  /\ (p + 1) % RAS_SIZE \in RasIdx
         /\ (p - 1) % RAS_SIZE \in RasIdx
         /\ (p - 0) % RAS_SIZE = p
         /\ (((p - 1) % RAS_SIZE) + 1) % RAS_SIZE = p
OBVIOUS

LEMMA RingBack ==
  ASSUME NEW p \in RasIdx, NEW k \in 0 .. RAS_SIZE
  PROVE  /\ (p - k) % RAS_SIZE \in RasIdx
         /\ k >= 1 =>
              (((p + 1) % RAS_SIZE) - k) % RAS_SIZE = (p - (k - 1)) % RAS_SIZE
         /\ k < RAS_SIZE =>
              (((p - 1) % RAS_SIZE) - k) % RAS_SIZE = (p - (k + 1)) % RAS_SIZE
         /\ k >= 1 /\ k < RAS_SIZE => (p - k) % RAS_SIZE # p
OBVIOUS

LEMMA RasInvInit == RasInit => RasInv
BY DEF RasInit, RasInv, RasTypeOK, PointersAgree, RingIsBoundedStack

\* The youngest of the calls and one more.
LEMMA YoungestCalls ==
  ASSUME NEW s \in Seq(Int), Len(s) <= RAS_SIZE, NEW a \in Int
  PROVE  LET t == Youngest(Append(s, a))
         IN  /\ t \in Seq(Int)
             /\ Len(t) = IF Len(s) # RAS_SIZE THEN Len(s) + 1 ELSE RAS_SIZE
             /\ t[Len(t)] = a
             /\ \A k \in 1 .. Len(t) - 1 : t[Len(t) - k] = s[Len(s) - (k - 1)]
BY DEF Youngest

LEMMA RasInvPush ==
  ASSUME RasInv, NEW npc \in Int, Push(npc), last_query_pc' = npc,
         calls' = Youngest(Append(calls, npc))
  PROVE  RasInv'
<1>1. /\ ras_counter \in 0 .. RAS_SIZE /\ Len(calls) = ras_counter
      /\ calls \in Seq(Int)
      /\ tosp_n \in RasIdx /\ ras_stack \in [RasIdx -> Int]
      /\ last_out_pc \in Int
  BY DEF RasInv, RasTypeOK, RingIsBoundedStack
<1>p. /\ ras_counter' = IF ras_counter # RAS_SIZE THEN ras_counter + 1
                        ELSE RAS_SIZE
      /\ ras_stack' = [ras_stack EXCEPT ![tosp_n] = npc]
      /\ tosp' = tosp_n /\ tosp_n' = (tosp_n + 1) % RAS_SIZE
      /\ reg_empty' = npc /\ last_out_pc' = last_out_pc
  BY DEF Push
<1>2. /\ calls' \in Seq(Int)
      /\ Len(calls') = ras_counter'
      /\ calls'[ras_counter'] = npc
      /\ \A k \in 1 .. ras_counter' - 1 :
           calls'[ras_counter' - k] = calls[ras_counter - (k - 1)]
  <2>1. Len(calls) <= RAS_SIZE
    BY <1>1
  <2>2. /\ calls' \in Seq(Int)
        /\ Len(calls') = IF Len(calls) # RAS_SIZE THEN Len(calls) + 1 ELSE RAS_SIZE
        /\ calls'[Len(calls')] = npc
        /\ \A k \in 1 .. Len(calls') - 1 :
             calls'[Len(calls') - k] = calls[Len(calls) - (k - 1)]
    BY <1>1, <2>1, YoungestCalls, Zenon
  <2>. QED  BY <1>1, <1>p, <2>2
<1>3. RasTypeOK'
  <2>1. (tosp_n + 1) % RAS_SIZE \in RasIdx
    BY <1>1, RingNext
  <2>2. ras_stack' \in [RasIdx -> Int]
    BY <1>1, <1>p
  <2>. QED  BY <1>1, <1>p, <1>2, <2>1, <2>2 DEF RasTypeOK
<1>4. PointersAgree'
  BY <1>p DEF PointersAgree
<1>5. ASSUME NEW k \in 0 .. ras_counter' - 1
      PROVE  ras_stack'[(tosp' - k) % RAS_SIZE] = calls'[Len(calls') - k]
  <2>1. CASE k = 0
    <3>1. (tosp_n - 0) % RAS_SIZE = tosp_n
      BY <1>1, RingNext
    <3>2. ras_stack'[tosp_n] = npc
      BY <1>1, <1>p
    <3>3. ras_counter' - 0 = ras_counter'
      BY <1>1, <1>p
    <3>. QED  BY <1>p, <1>2, <2>1, <3>1, <3>2, <3>3
  <2>2. CASE k # 0
    <3>1. k \in 1 .. ras_counter /\ k < RAS_SIZE /\ k \in 1 .. ras_counter' - 1
          /\ k \in 0 .. RAS_SIZE /\ k >= 1
      BY <1>1, <1>p, <2>2
    <3>2. tosp_n = (tosp + 1) % RAS_SIZE /\ tosp \in RasIdx
      BY <3>1, <1>1 DEF RasInv, RasTypeOK, PointersAgree
    <3>3. (tosp_n - k) % RAS_SIZE = (tosp - (k - 1)) % RAS_SIZE
      <4>1. (((tosp + 1) % RAS_SIZE) - k) % RAS_SIZE = (tosp - (k - 1)) % RAS_SIZE
        BY <3>1, <3>2, RingBack, Zenon
      <4>. QED  BY <3>2, <4>1
    <3>4. (tosp_n - k) % RAS_SIZE # tosp_n /\ (tosp_n - k) % RAS_SIZE \in RasIdx
      BY <1>1, <3>1, RingBack, Zenon
    <3>5. ras_stack'[(tosp_n - k) % RAS_SIZE] = ras_stack[(tosp_n - k) % RAS_SIZE]
      BY <1>1, <1>p, <3>4
    <3>6. ras_stack[(tosp - (k - 1)) % RAS_SIZE] = calls[ras_counter - (k - 1)]
      <4>1. k - 1 \in 0 .. ras_counter - 1
        BY <1>1, <3>1
      <4>. QED  BY <1>1, <4>1, Zenon DEF RasInv, RingIsBoundedStack
    <3>7. calls'[ras_counter' - k] = calls[ras_counter - (k - 1)]
      BY <1>2, <3>1
    <3>. QED  BY <1>p, <1>2, <3>3, <3>5, <3>6, <3>7
  <2>. QED  BY <2>1, <2>2
<1>. QED  BY <1>2, <1>3, <1>4, <1>5 DEF RasInv, RingIsBoundedStack

LEMMA RasInvPop ==
  ASSUME RasInv, ras_counter # 0, NEW npc \in Int, Pop, last_query_pc' = npc,
         calls' = IF calls = <<>> THEN <<>> ELSE Front(calls)
  PROVE  RasInv'
<1>1. /\ ras_counter \in 1 .. RAS_SIZE /\ Len(calls) = ras_counter
      /\ calls \in Seq(Int)
      /\ tosp \in RasIdx /\ ras_stack \in [RasIdx -> Int]
      /\ reg_empty \in Int
  BY DEF RasInv, RasTypeOK, RingIsBoundedStack
<1>p. /\ ras_counter' = ras_counter - 1
      /\ tosp_n' = tosp /\ tosp' = (tosp - 1) % RAS_SIZE
      /\ last_out_pc' = ras_stack[tosp]
      /\ ras_stack' = ras_stack /\ reg_empty' = reg_empty
  BY DEF Pop
<1>r. /\ (tosp - 1) % RAS_SIZE \in RasIdx
      /\ (((tosp - 1) % RAS_SIZE) + 1) % RAS_SIZE = tosp
  BY <1>1, RingNext
<1>2. /\ calls' \in Seq(Int)
      /\ Len(calls') = ras_counter'
      /\ \A i \in 1 .. ras_counter' : calls'[i] = calls[i]
  <2>1. calls # <<>> /\ Len(calls) - 1 = ras_counter'
    BY <1>1, <1>p
  <2>2. calls' = SubSeq(calls, 1, Len(calls) - 1)
    BY <2>1 DEF Front
  <2>. QED  BY <1>1, <1>p, <2>1, <2>2
<1>3. RasTypeOK'
  BY <1>1, <1>p, <1>r, <1>2 DEF RasTypeOK
<1>4. PointersAgree'
  BY <1>p, <1>r DEF PointersAgree
<1>5. ASSUME NEW k \in 0 .. ras_counter' - 1
      PROVE  ras_stack'[(tosp' - k) % RAS_SIZE] = calls'[Len(calls') - k]
  <2>0. /\ k \in 0 .. RAS_SIZE /\ k < RAS_SIZE
        /\ k + 1 \in 0 .. ras_counter - 1
        /\ ras_counter' - k \in 1 .. ras_counter'
        /\ ras_counter' - k = ras_counter - (k + 1)
    BY <1>1, <1>p
  <2>1. (tosp' - k) % RAS_SIZE = (tosp - (k + 1)) % RAS_SIZE
    BY <1>1, <1>p, <2>0, RingBack
  <2>2. ras_stack[(tosp - (k + 1)) % RAS_SIZE] = calls[ras_counter - (k + 1)]
    BY <1>1, <2>0, Zenon DEF RasInv, RingIsBoundedStack
  <2>3. calls'[ras_counter' - k] = calls[ras_counter' - k]
    BY <1>2, <2>0, Zenon
  <2>. QED  BY <1>2, <1>p, <2>0, <2>1, <2>2, <2>3
<1>. QED  BY <1>2, <1>3, <1>4, <1>5 DEF RasInv, RingIsBoundedStack

LEMMA RasInvStep ==
  ASSUME RasInv, NEW jump \in BOOLEAN, NEW ret \in BOOLEAN,
         NEW npc \in Int, RasStep(jump, ret, npc)
  PROVE  RasInv'
<1>1. CASE Fresh(npc) /\ jump
  BY <1>1, RasInvPush DEF RasStep
<1>2. CASE Fresh(npc) /\ ~jump /\ ret /\ ras_counter # 0
  <2>1. /\ Pop /\ last_query_pc' = npc
        /\ calls' = IF calls = <<>> THEN <<>> ELSE Front(calls)
    BY <1>2 DEF RasStep
  <2>. QED  BY <1>2, <2>1, RasInvPop
<1>3. CASE ~(Fresh(npc) /\ jump) /\ ~(Fresh(npc) /\ ret /\ ras_counter # 0)
  <2>1. /\ last_query_pc' = npc
        /\ UNCHANGED <<ras_stack, reg_empty, ras_counter, tosp, tosp_n,
                       last_out_pc, calls>>
    BY <1>3 DEF RasStep
  <2>. QED
    BY <2>1 DEF RasInv, RasTypeOK, PointersAgree, RingIsBoundedStack
<1>. QED  BY <1>1, <1>2, <1>3

\* The return stack is the stack of the youngest return addresses.
THEOREM ReturnStackIsBoundedStack == NpcSpec => []RingIsBoundedStack
<1>1. NpcInit => RasInv
  BY RasInvInit DEF NpcInit
<1>2. RasInv /\ [UnitsReport \/ BranchesRetire]_npcVars => RasInv'
  <2>1. ASSUME RasInv, NEW f \in Query, NEW w0, NEW w1, NEW r0, NEW r1,
               Clocked(f, w0, w1, r0, r1)
        PROVE  RasInv'
    <3>1. f.PC \in Nat /\ f.hit \in BOOLEAN
      BY NpcAssumption DEF Query, Pc
    <3>2. AskedNPC(f) \in Int
      BY <3>1 DEF AskedNPC
    <3>3. is_jump(f) \in BOOLEAN /\ is_return(f) \in BOOLEAN
      BY DEF is_jump, is_return, Is
    <3>4. RasStep(is_jump(f), is_return(f), AskedNPC(f))
      BY <2>1 DEF Clocked
    <3>. QED  BY <2>1, <3>2, <3>3, <3>4, RasInvStep
  <2>2. CASE UnitsReport
    BY <2>1, <2>2 DEF UnitsReport
  <2>3. CASE BranchesRetire
    BY <2>1, <2>3 DEF BranchesRetire
  <2>4. CASE UNCHANGED npcVars
    BY <2>4 DEF npcVars, rasVars, RasInv, RasTypeOK, PointersAgree,
                RingIsBoundedStack
  <2>. QED  BY <2>2, <2>3, <2>4
<1>3. RasInv => RingIsBoundedStack
  BY DEF RasInv
<1>. QED  BY <1>1, <1>2, <1>3, PTL DEF NpcSpec

-----------------------------------------------------------------------------
(* The target buffer.                                                      *)

\* A valid entry is that of a branch of the text, with its own target.
EntryIsOf(pc, i) ==
  /\ pc \in Pc /\ text[pc].op \in {"beq", "jal"}
  /\ i = current_idx(pc)
  /\ btb_tags[i] = current_tag(pc) /\ btb_addr[i] = text[pc].to

EntriesHaveOwners == \A i \in btb_valid : \E pc \in Pc : EntryIsOf(pc, i)

BtbTypeOK ==
  /\ text \in Texts
  /\ btb_valid \subseteq Index
  /\ btb_addr = [i \in Index |-> btb_addr[i]]
  /\ btb_tags = [i \in Index |-> btb_tags[i]]

BtbInv == BtbTypeOK /\ EntriesHaveOwners

\* Index and tag are the address.
LEMMA IndexAndTag ==
  ASSUME NEW p \in Nat, NEW q \in Nat,
         current_idx(p) = current_idx(q), current_tag(p) = current_tag(q)
  PROVE  p = q
<1>1. /\ p = BTB_SIZE * (p \div BTB_SIZE) + (p % BTB_SIZE)
      /\ q = BTB_SIZE * (q \div BTB_SIZE) + (q % BTB_SIZE)
  BY BtbAssumption
<1>. QED  BY <1>1 DEF current_idx, current_tag

LEMMA BtbInvStep ==
  ASSUME BtbInv, NEW w0 \in FuResult, NEW w1 \in FuResult,
         BtbStep(w0, w1), UNCHANGED text
  PROVE  BtbInv'
<1>1. /\ w0.PC \in Pc /\ w1.PC \in Pc
      /\ w0.targetPC = text[w0.PC].to /\ w1.targetPC = text[w1.PC].to
      /\ w0.en => text[w0.PC].op \in {"beq", "jal"}
      /\ w1.en => text[w1.PC].op \in {"beq", "jal"}
  BY DEF FuResult
<1>2. BtbTypeOK'
  BY DEF BtbStep, BtbInv, BtbTypeOK
<1>3. ASSUME NEW i \in btb_valid'
      PROVE  \E pc \in Pc : EntryIsOf(pc, i)'
  <2>1. /\ i \in Index
        /\ Written(w0, w1, i, i \in btb_valid, TRUE, TRUE)
        /\ btb_addr'[i] = Written(w0, w1, i, btb_addr[i], w0.targetPC, w1.targetPC)
        /\ btb_tags'[i] = Written(w0, w1, i, btb_tags[i], current_tag(w0.PC),
                                  current_tag(w1.PC))
    BY <1>3 DEF BtbStep
  <2>2. CASE w1.en /\ current_idx(w1.PC) = i /\ current_idx(w0.PC) # i
    <3>1. btb_addr'[i] = w1.targetPC /\ btb_tags'[i] = current_tag(w1.PC)
      BY <2>1, <2>2 DEF Written
    <3>. QED  BY <1>1, <2>2, <3>1 DEF EntryIsOf
  <2>3. CASE /\ ~(w1.en /\ current_idx(w1.PC) = i /\ current_idx(w0.PC) # i)
             /\ w0.en /\ current_idx(w0.PC) = i
    <3>1. btb_addr'[i] = w0.targetPC /\ btb_tags'[i] = current_tag(w0.PC)
      BY <2>1, <2>3 DEF Written
    <3>. QED  BY <1>1, <2>3, <3>1 DEF EntryIsOf
  <2>4. CASE /\ ~(w1.en /\ current_idx(w1.PC) = i /\ current_idx(w0.PC) # i)
             /\ ~(w0.en /\ current_idx(w0.PC) = i)
    <3>1. /\ i \in btb_valid
          /\ btb_addr'[i] = btb_addr[i] /\ btb_tags'[i] = btb_tags[i]
      BY <2>1, <2>4 DEF Written
    <3>2. PICK pc \in Pc : EntryIsOf(pc, i)
      BY <3>1 DEF BtbInv, EntriesHaveOwners
    <3>. QED  BY <3>1, <3>2 DEF EntryIsOf
  <2>. QED  BY <2>2, <2>3, <2>4
<1>. QED  BY <1>2, <1>3 DEF BtbInv, EntriesHaveOwners

\* The target buffer gives a branch its own target, and others none.
THEOREM TargetsAreOwn == NpcSpec => []TargetsAreItsOwn
<1>1. NpcInit => BtbInv
  BY DEF NpcInit, BtbInit, BtbInv, BtbTypeOK, EntriesHaveOwners
<1>2. BtbInv /\ [UnitsReport \/ BranchesRetire]_npcVars => BtbInv'
  <2>1. ASSUME BtbInv PROVE NoFuResult \in FuResult
    <3>1. text \in [Pc -> [op : {"beq", "jal", "jalr", "add"}, to : Pc]]
      BY <2>1, NpcAssumption DEF BtbInv, BtbTypeOK
    <3>2. 0 \in Pc /\ 0 \in Index
      BY NpcAssumption, BtbAssumption DEF Pc, Index
    <3>3. text[0].to \in Pc
      BY <3>1, <3>2
    <3>4. [en |-> FALSE, PC |-> 0, targetPC |-> text[0].to] \in FuResult
      BY <3>2, <3>3 DEF FuResult
    <3>. QED  BY <3>4 DEF NoFuResult
  <2>2. CASE BtbInv /\ UnitsReport
    BY <2>2, BtbInvStep DEF UnitsReport, Clocked
  <2>3. CASE BtbInv /\ BranchesRetire
    BY <2>1, <2>3, BtbInvStep DEF BranchesRetire, Clocked
  <2>4. CASE BtbInv /\ UNCHANGED npcVars
    BY <2>4 DEF npcVars, btbVars, BtbInv, BtbTypeOK, EntriesHaveOwners, EntryIsOf
  <2>. QED  BY <2>2, <2>3, <2>4
<1>3. BtbInv => TargetsAreItsOwn
  <2>1. ASSUME BtbInv, NEW pc \in Pc, hit(TRUE, pc)
        PROVE  /\ text[pc].op \in {"beq", "jal"}
               /\ targetPC_out(pc) = text[pc].to
    <3>1. PICK q \in Pc : EntryIsOf(q, current_idx(pc))
      BY <2>1 DEF hit, BtbInv, EntriesHaveOwners
    <3>2. q = pc
      BY <2>1, <3>1, IndexAndTag DEF EntryIsOf, hit, Pc
    <3>. QED  BY <3>1, <3>2 DEF EntryIsOf, targetPC_out
  <2>. QED  BY <2>1 DEF TargetsAreItsOwn
<1>. QED  BY <1>1, <1>2, <1>3, PTL DEF NpcSpec

-----------------------------------------------------------------------------
(* The direction predictor.                                                *)

Dirs == {"taken", "not_taken", "none"}

Trend == [dir : Dirs, run : 0 .. 3, was : Dirs]

\* A counter is past the middle after two results in a row, saturated after
\* three, and a saturated one is just past the middle after one exception.
CounterFollows(n, t) ==
  /\ n \in 0 .. 3 /\ t \in Trend
  /\ t.run = 0 <=> t.dir = "none"
  /\ t.dir = "taken" => n >= t.run
  /\ t.dir = "not_taken" => n <= 3 - t.run
  /\ t.run = 1 /\ t.was = "taken" => n = 2
  /\ t.run = 1 /\ t.was = "not_taken" => n = 1

DirpInv ==
  /\ PHT = [i \in PhtIdx |-> PHT[i]]
  /\ trend = [i \in PhtIdx |-> trend[i]]
  /\ \A i \in PhtIdx : CounterFollows(PHT[i], trend[i])

LEMMA FollowIs ==
  ASSUME NEW t \in Trend, NEW dir \in Dirs
  PROVE  /\ Follow(t, dir) \in Trend
         /\ Follow(t, dir).dir = dir
         /\ t.dir = dir => /\ Follow(t, dir).was = t.was
                           /\ Follow(t, dir).run = IF t.run = 3 THEN 3
                                                   ELSE t.run + 1
         /\ t.dir # dir => /\ Follow(t, dir).was = IF t.run = 3 THEN t.dir
                                                   ELSE "none"
                           /\ Follow(t, dir).run = 1
BY DEF Follow, Trend, Dirs

LEMMA CounterFollowsTrained ==
  ASSUME NEW n, NEW t, CounterFollows(n, t)
  PROVE  /\ CounterFollows(Trained(n, TRUE), Follow(t, "taken"))
         /\ CounterFollows(Trained(n, FALSE), Follow(t, "not_taken"))
<1>1. n \in 0 .. 3 /\ t \in Trend
  BY DEF CounterFollows
<1>2. ASSUME NEW new \in Trend, new = Follow(t, "taken")
      PROVE  CounterFollows(Trained(n, TRUE), new)
  <2>1. new.dir = "taken"
    BY <1>1, <1>2, FollowIs DEF Dirs
  <2>2. CASE t.dir = "taken"
    <3>1. new.was = t.was /\ new.run = IF t.run = 3 THEN 3 ELSE t.run + 1
      BY <1>1, <1>2, <2>2, FollowIs DEF Dirs
    <3>. QED  BY <1>1, <2>1, <2>2, <3>1 DEF CounterFollows, Trained, Trend, Dirs
  <2>3. CASE t.dir # "taken"
    <3>1. new.was = IF t.run = 3 THEN t.dir ELSE "none"
      BY <1>1, <1>2, <2>3, FollowIs DEF Dirs
    <3>2. new.run = 1
      BY <1>1, <1>2, <2>3, FollowIs DEF Dirs
    <3>. QED  BY <1>1, <2>1, <2>3, <3>1, <3>2 DEF CounterFollows, Trained, Trend, Dirs
  <2>. QED  BY <2>2, <2>3
<1>3. ASSUME NEW new \in Trend, new = Follow(t, "not_taken")
      PROVE  CounterFollows(Trained(n, FALSE), new)
  <2>1. new.dir = "not_taken"
    BY <1>1, <1>3, FollowIs DEF Dirs
  <2>2. CASE t.dir = "not_taken"
    <3>1. new.was = t.was /\ new.run = IF t.run = 3 THEN 3 ELSE t.run + 1
      BY <1>1, <1>3, <2>2, FollowIs DEF Dirs
    <3>. QED  BY <1>1, <2>1, <2>2, <3>1 DEF CounterFollows, Trained, Trend, Dirs
  <2>3. CASE t.dir # "not_taken"
    <3>1. new.was = IF t.run = 3 THEN t.dir ELSE "none"
      BY <1>1, <1>3, <2>3, FollowIs DEF Dirs
    <3>2. new.run = 1
      BY <1>1, <1>3, <2>3, FollowIs DEF Dirs
    <3>. QED  BY <1>1, <2>1, <2>3, <3>1, <3>2 DEF CounterFollows, Trained, Trend, Dirs
  <2>. QED  BY <2>2, <2>3
<1>4. Follow(t, "taken") \in Trend /\ Follow(t, "not_taken") \in Trend
  BY <1>1, FollowIs DEF Dirs
<1>. QED  BY <1>2, <1>3, <1>4

LEMMA DirpInvStep ==
  ASSUME DirpInv, NEW r0, NEW r1,
         r0.result \in BOOLEAN, r1.result \in BOOLEAN, DirpStep(r0, r1)
  PROVE  DirpInv'
<1>1. ASSUME NEW i \in PhtIdx PROVE CounterFollows(PHT'[i], trend'[i])
  <2>0. CounterFollows(PHT[i], trend[i])
    BY DEF DirpInv
  <2>1. ASSUME NEW taken \in BOOLEAN
        PROVE  CounterFollows(Trained(PHT[i], taken), Follow(trend[i], Dir(taken)))
    <3>1. CASE taken = TRUE
      BY <2>0, <3>1, CounterFollowsTrained, Zenon DEF Dir
    <3>2. CASE taken = FALSE
      BY <2>0, <3>2, CounterFollowsTrained, Zenon DEF Dir
    <3>. QED  BY <3>1, <3>2
  <2>2. CASE For(r1, i)
    <3>1. /\ PHT'[i] = Trained(PHT[i], r1.result)
          /\ trend'[i] = Follow(trend[i], Dir(r1.result))
      BY <2>2 DEF DirpStep, PHT_next
    <3>. QED  BY <2>1, <3>1, Zenon
  <2>3. CASE ~For(r1, i) /\ For(r0, i)
    <3>1. /\ PHT'[i] = Trained(PHT[i], r0.result)
          /\ trend'[i] = Follow(trend[i], Dir(r0.result))
      BY <2>3 DEF DirpStep, PHT_next
    <3>. QED  BY <2>1, <3>1, Zenon
  <2>4. CASE ~For(r1, i) /\ ~For(r0, i)
    <3>1. PHT'[i] = PHT[i] /\ trend'[i] = trend[i]
      BY <2>4 DEF DirpStep, PHT_next
    <3>. QED  BY <2>0, <3>1
  <2>. QED  BY <2>2, <2>3, <2>4
<1>2. /\ PHT' = [i \in PhtIdx |-> PHT'[i]]
      /\ trend' = [i \in PhtIdx |-> trend'[i]]
  BY DEF DirpStep
<1>. QED  BY <1>1, <1>2 DEF DirpInv

\* Branches teach the predictor a direction, and exceptions do not unteach it.
THEOREM PredictorLearns == NpcSpec => []LearnsAndForgives
<1>1. NpcInit => DirpInv
  <2>1. ASSUME DirpInit, NEW i \in PhtIdx PROVE CounterFollows(PHT[i], trend[i])
    <3>1. PHT[i] = 1 /\ trend[i] = [dir |-> "none", run |-> 0, was |-> "none"]
      BY <2>1 DEF DirpInit
    <3>. QED  BY <3>1 DEF CounterFollows, Trend, Dirs
  <2>2. DirpInit => DirpInv
    BY <2>1 DEF DirpInit, DirpInv
  <2>. QED  BY <2>2 DEF NpcInit
<1>2. DirpInv /\ [UnitsReport \/ BranchesRetire]_npcVars => DirpInv'
  <2>1. /\ NothingRetired.result \in BOOLEAN
        /\ \A r \in Retired : r.result \in BOOLEAN
    BY DEF NothingRetired, Retired
  <2>2. CASE DirpInv /\ UnitsReport
    BY <2>1, <2>2, DirpInvStep DEF UnitsReport, Clocked
  <2>3. CASE DirpInv /\ BranchesRetire
    BY <2>1, <2>3, DirpInvStep DEF BranchesRetire, Clocked
  <2>4. CASE DirpInv /\ UNCHANGED npcVars
    BY <2>4 DEF npcVars, dirpVars, DirpInv, CounterFollows
  <2>. QED  BY <2>2, <2>3, <2>4
<1>3. DirpInv => LearnsAndForgives
  <2>1. ASSUME DirpInv, NEW i \in PhtIdx
        PROVE  LET predicted == Dir(branch_taken(TRUE, i))
               IN  /\ trend[i].run >= 2 => predicted = trend[i].dir
                   /\ trend[i].run = 1 /\ trend[i].was # "none" =>
                        predicted = trend[i].was
    <3>1. dirp_tag(i) = i
      BY DirpAssumption DEF dirp_tag, PhtIdx
    <3>2. CounterFollows(PHT[i], trend[i])
      BY <2>1 DEF DirpInv
    <3>3. /\ PHT[i] \in 0 .. 3
          /\ trend[i] \in Trend
      BY <3>2 DEF CounterFollows
    <3>4. Dir(branch_taken(TRUE, i)) = IF PHT[i] >= 2 THEN "taken" ELSE "not_taken"
      BY <3>1 DEF branch_taken, Dir
    <3>5. trend[i].run >= 2 => \/ trend[i].dir = "taken" /\ PHT[i] >= 2
                               \/ trend[i].dir = "not_taken" /\ PHT[i] <= 1
      BY <3>2, <3>3 DEF CounterFollows, Trend, Dirs
    <3>6. ASSUME trend[i].run = 1, trend[i].was # "none"
          PROVE  \/ trend[i].was = "taken" /\ PHT[i] >= 2
                 \/ trend[i].was = "not_taken" /\ PHT[i] <= 1
      <4>1. trend[i].was = "taken" \/ trend[i].was = "not_taken"
        BY <3>3, <3>6 DEF Trend, Dirs
      <4>2. /\ trend[i].was = "taken" => PHT[i] = 2
            /\ trend[i].was = "not_taken" => PHT[i] = 1
        BY <3>2, <3>6 DEF CounterFollows
      <4>. QED  BY <4>1, <4>2
    <3>7. PHT[i] <= 1 => ~(PHT[i] >= 2)
      BY <3>3
    <3>. QED  BY <3>4, <3>5, <3>6, <3>7, Zenon
  <2>. QED  BY <2>1 DEF LearnsAndForgives
<1>. QED  BY <1>1, <1>2, <1>3, PTL DEF NpcSpec

\* What the tables have learnt is of the instruction they are asked about, and
\* follows what its branches do.
THEOREM PredictorsCorrect == NpcSpec => []PredictorsInv
BY TargetsAreOwn, PredictorLearns, PTL DEF PredictorsInv

-----------------------------------------------------------------------------
(* A pair that is fetched again.                                           *)

\* What the stack remembers is the last query, and what it said to it.
HeldInv ==
  /\ fetched \in Query
  /\ fetched.hit =>
       /\ last_query_pc = AskedNPC(fetched)
       /\ ~Is("beq", fetched, 0) /\ ~is_jump(fetched) /\ ras_counter # 0 =>
            answer = IF is_return(fetched) THEN last_out_pc ELSE 0

LEMMA QueryPc ==
  ASSUME NEW f \in Query
  PROVE  f.PC + 0 = f.PC /\ f.hit \in BOOLEAN
BY NpcAssumption DEF Query, Pc

\* Whether slot 0 is a call, and behind anything but a branch what the slots
\* are at all, is in the text, not in the tables.
LEMMA QueryStays ==
  ASSUME UNCHANGED text, NEW f \in Query, fetched' = f
  PROVE  /\ AskedNPC(fetched)' = AskedNPC(f)
         /\ Is("beq", fetched, 0)' <=> Is("beq", f, 0)
         /\ ~Is("beq", f, 0) => /\ is_jump(fetched)' <=> is_jump(f)
                                /\ is_return(fetched)' <=> is_return(f)
<1>1. \A op : Is(op, fetched, 0)' <=> Is(op, f, 0)
  BY DEF Is
<1>2. AskedNPC(fetched)' = AskedNPC(f)
  BY <1>1 DEF AskedNPC
<1>3. ASSUME ~Is("beq", f, 0), NEW op
      PROVE  Is(op, fetched, 1)' <=> Is(op, f, 1)
  <2>1. ~(f.hit /\ text[f.PC].op = "beq")
    BY <1>3, QueryPc DEF Is
  <2>2. ~branch_predict_0(f) /\ ~branch_predict_0(fetched)'
    BY <2>1 DEF branch_predict_0, branch_taken, is_branch_0
  <2>. QED  BY <2>2 DEF Is
<1>. QED  BY <1>1, <1>2, <1>3 DEF is_jump, is_return

\* What the pair's return is told, if the stack has something.
LEMMA ReturnIsTold ==
  ASSUME NEW f, is_return(f), ras_counter # 0
  PROVE  NPC_out(f, IF Is("jalr", f, 0) THEN 0 ELSE 1)
           = IF Fresh(AskedNPC(f)) THEN ras_stack[tosp] ELSE last_out_pc
BY DEF NPC_out, is_return, ras_valid, PC_return, Fresh

LEMMA HeldInvStep ==
  ASSUME NEW f \in Query, NEW w0, NEW w1, NEW r0, NEW r1,
         Clocked(f, w0, w1, r0, r1)
  PROVE  HeldInv'
<1>1. /\ fetched' = f /\ UNCHANGED text
      /\ RasStep(is_jump(f), is_return(f), AskedNPC(f))
      /\ answer' = IF ~is_return(f) THEN 0
                   ELSE NPC_out(f, IF Is("jalr", f, 0) THEN 0 ELSE 1)
  BY DEF Clocked
<1>2. last_query_pc' = AskedNPC(fetched)'
  BY <1>1, QueryStays DEF RasStep
<1>3. ASSUME (~Is("beq", fetched, 0) /\ ~is_jump(fetched) /\ ras_counter # 0)'
      PROVE  answer' = (IF is_return(fetched) THEN last_out_pc ELSE 0)'
  <2>1. /\ ~is_jump(f) /\ ras_counter' # 0
        /\ is_return(fetched)' <=> is_return(f)
    BY <1>1, <1>3, QueryStays
  <2>2. CASE ~is_return(f)
    BY <1>1, <2>1, <2>2
  <2>3. CASE is_return(f) /\ Fresh(AskedNPC(f)) /\ ras_counter # 0
    <3>1. Pop
      BY <1>1, <2>1, <2>3 DEF RasStep
    <3>2. last_out_pc' = ras_stack[tosp]
      BY <3>1 DEF Pop
    <3>. QED  BY <1>1, <2>1, <2>3, <3>2, ReturnIsTold
  <2>4. CASE is_return(f) /\ ~(Fresh(AskedNPC(f)) /\ ras_counter # 0)
    <3>1. UNCHANGED <<ras_counter, last_out_pc>>
      BY <1>1, <2>1, <2>4 DEF RasStep
    <3>2. ras_counter # 0 /\ ~Fresh(AskedNPC(f))
      BY <2>1, <2>4, <3>1
    <3>. QED  BY <1>1, <2>1, <2>4, <3>1, <3>2, ReturnIsTold
  <2>. QED  BY <2>2, <2>3, <2>4
<1>. QED  BY <1>1, <1>2, <1>3 DEF HeldInv

LEMMA HeldAgain ==
  ASSUME HeldInv, fetched.hit, NEW w0, NEW w1, NEW r0, NEW r1,
         Clocked(fetched, w0, w1, r0, r1), ~Is("beq", fetched, 0)
  PROVE  /\ UNCHANGED <<ras_stack, ras_counter, tosp>>
         /\ ~is_jump(fetched) /\ ras_counter # 0 => answer' = answer
<1>1. ~Fresh(AskedNPC(fetched))
  BY DEF HeldInv, Fresh
<1>2. UNCHANGED <<ras_stack, ras_counter, tosp>>
  BY <1>1 DEF Clocked, RasStep
<1>3. ASSUME ~is_jump(fetched), ras_counter # 0 PROVE answer' = answer
  BY <1>1, <1>3, ReturnIsTold DEF HeldInv, Clocked
<1>. QED  BY <1>2, <1>3

\* While the back end refuses a pair, the return stack neither moves nor gives
\* its return the return address of the caller.
THEOREM HeldFetchKeepsStack == NpcSpec => HeldFetchIsAnsweredAlike
<1> DEFINE Next == UnitsReport \/ BranchesRetire
<1>1. NpcInit => HeldInv
  BY NpcAssumption DEF NpcInit, HeldInv, Query, Pc
<1>2. HeldInv /\ [Next]_npcVars => HeldInv'
  <2>1. CASE HeldInv /\ Next
    BY <2>1, HeldInvStep DEF UnitsReport, BranchesRetire
  <2>2. CASE HeldInv /\ UNCHANGED npcVars
    BY <2>2 DEF npcVars, rasVars, btbVars, dirpVars, HeldInv, Is, is_jump,
       is_return, AskedNPC, branch_predict_0, branch_taken, is_branch_0, hit
  <2>. QED  BY <2>1, <2>2
<1> DEFINE Alike ==
      fetched.hit /\ fetched' = fetched =>
        LET f == fetched
        IN  (\A slot \in {0, 1} : ~Is("beq", f, slot)) =>
              /\ UNCHANGED <<ras_stack, ras_counter, tosp>>
              /\ ~is_jump(f) /\ ras_counter # 0 => answer' = answer
<1>3. HeldInv /\ [Next]_npcVars => [Alike]_npcVars
  <2> SUFFICES ASSUME HeldInv, Next, fetched.hit, fetched' = fetched,
                      ~Is("beq", fetched, 0)
               PROVE  /\ UNCHANGED <<ras_stack, ras_counter, tosp>>
                      /\ ~is_jump(fetched) /\ ras_counter # 0 => answer' = answer
    OBVIOUS
  <2>1. PICK f \in Query : \E w0, w1, r0, r1 : Clocked(f, w0, w1, r0, r1)
    BY DEF UnitsReport, BranchesRetire
  <2>2. f = fetched
    BY <2>1 DEF Clocked
  <2>. QED  BY <2>1, <2>2, HeldAgain
<1>. QED  BY <1>1, <1>2, <1>3, PTL DEF NpcSpec, HeldFetchIsAnsweredAlike

HIDE RasAssumption DEF RasIdx

-----------------------------------------------------------------------------
(* THE CHOICE AMONG RESULTS.                                               *)

LEMMA UnitsAre ==
  /\ Fu \subseteq Nat /\ HALF_0 \subseteq Fu
  /\ FU_LS \cap (FU_ALU \cup FU_MULT \cup FU_BEQ) = {}
  /\ FU_BEQ \cap (FU_ALU \cup FU_MULT) = {}
  /\ FU_ALU \cap FU_MULT = {}
BY SelectionAssumption DEF SelectionAssumption, Fu

\* A tree grants a place that asks, and the one the counter points at if it
\* asks.
LEMMA Rps2Is ==
  ASSUME NEW req \in SUBSET (0 .. 1), req # {}, NEW bit \in 0 .. 1
  PROVE  /\ rps2(req, bit) \in req
         /\ bit \in req => rps2(req, bit) = bit
<1>1. CASE bit \in req
  BY <1>1 DEF rps2
<1>2. CASE bit \notin req
  <2>1. PICK p \in req : p \in 0 .. 1
    OBVIOUS
  <2>2. p = 1 - bit
    BY <1>2, <2>1
  <2>. QED  BY <1>2, <2>1, <2>2 DEF rps2
<1>. QED  BY <1>1, <1>2

LEMMA Rps4Is ==
  ASSUME NEW req \in SUBSET (0 .. 3), req # {}, NEW c \in 0 .. 3
  PROVE  /\ rps4(req, c) \in req
         /\ c \in req => rps4(req, c) = c
<1> DEFINE tops == {p \div 2 : p \in req}
           top == rps2(tops, c \div 2)
           lows == {p % 2 : p \in {q \in req : q \div 2 = top}}
           low == rps2(lows, c % 2)
<1>1. \A p \in 0 .. 3 : p \div 2 \in 0 .. 1 /\ p % 2 \in 0 .. 1 /\ p = 2 * (p \div 2) + (p % 2)
  OBVIOUS
<1>2. tops \in SUBSET (0 .. 1) /\ tops # {}
  BY <1>1
<1>3. top \in tops /\ (c \div 2 \in tops => top = c \div 2)
  <2> HIDE DEF tops
  <2>. QED  BY <1>1, <1>2, Rps2Is
<1> HIDE DEF top
<1>4. lows \in SUBSET (0 .. 1) /\ lows # {}
  BY <1>1, <1>3
<1>5. low \in lows /\ (c % 2 \in lows => low = c % 2)
  <2> HIDE DEF lows
  <2>. QED  BY <1>1, <1>4, Rps2Is
<1> HIDE DEF low
<1>6. rps4(req, c) = 2 * top + low
  BY DEF rps4, top, low
<1>7. PICK q \in req : q \div 2 = top /\ q % 2 = low
  BY <1>5
<1>8. 2 * top + low = q
  BY <1>1, <1>7
<1>9. ASSUME c \in req PROVE 2 * top + low = c
  <2>1. top = c \div 2
    BY <1>3, <1>9
  <2>2. low = c % 2
    BY <1>5, <1>9, <2>1
  <2>. QED  BY <1>1, <2>1, <2>2
<1>. QED  BY <1>6, <1>7, <1>8, <1>9

\* The trees, one for each category and bus: their units, and their places.
Categories == {FU_ALU, FU_LS, FU_MULT, FU_BEQ}
Places(C) == IF C = FU_ALU THEN 4 ELSE 2
Tree(C, b) == C \cap OfBus(b)
Points(C, c) == IF C = FU_ALU THEN c ELSE c % 2

LEMMA PlacesAre ==
  ASSUME NEW C \in Categories, NEW b \in {0, 1}
  PROVE  /\ Tree(C, b) \in SUBSET Nat
         /\ \A f \in Tree(C, b) :
              PlaceOf(f, Tree(C, b)) \in 0 .. Places(C) - 1
         /\ \A f, g \in Tree(C, b) :
              PlaceOf(f, Tree(C, b)) = PlaceOf(g, Tree(C, b)) => f = g
<1> DEFINE T == Tree(C, b)
<1>1. C \subseteq Fu
  BY DEF Categories, Fu
<1>2. T \in SUBSET Nat /\ T \subseteq Fu /\ T \in SUBSET Int
  <2>1. T \subseteq Fu
    BY <1>1 DEF Tree
  <2>2. Fu \subseteq Nat
    BY UnitsAre
  <2>3. \A x \in Nat : x \in Int
    OBVIOUS
  <2> HIDE DEF T
  <2>. QED  BY <2>1, <2>2, <2>3
<1>3. IsFiniteSet(T)
  <2>1. IsFiniteSet(Fu)
    BY UnitsAre, FuSelectorAssumption DEF FuSelectorAssumption
  <2>. QED  BY <1>2, <2>1, FS_Subset
<1>4. Cardinality(T) =< Places(C)
  BY FuSelectorAssumption DEF FuSelectorAssumption, Tree, Places, Categories
<1>5. \A f : PlaceOf(f, T) = CountBelow(T, f)
  BY DEF PlaceOf, CountBelow
<1> HIDE DEF T
<1>6. Cardinality(T) \in Nat
  BY <1>3, FS_CardinalityType
<1>7. ASSUME NEW f \in T PROVE PlaceOf(f, T) \in 0 .. Places(C) - 1
  <2>1. f \in Int
    BY <1>2
  <2>2. CountBelow(T, f) \in Nat /\ CountBelow(T, f) < Cardinality(T)
    BY <1>2, <1>3, <2>1, CountBelowType, CountBelowElement
  <2>. QED  BY <1>4, <1>5, <1>6, <2>2 DEF Places
<1>8. ASSUME NEW f \in T, NEW g \in T, PlaceOf(f, T) = PlaceOf(g, T) PROVE f = g
  BY <1>2, <1>3, <1>5, <1>8, CountBelowInjective
<1>. QED  BY <1>2, <1>7, <1>8 DEF T

LEMMA OneTreeEach ==
  ASSUME NEW f \in Fu
  PROVE  /\ \E C \in Categories, b \in {0, 1} : f \in Tree(C, b)
         /\ \A C, D \in Categories : f \in C /\ f \in D => C = D
         /\ \A b, d \in {0, 1} : f \in OfBus(b) /\ f \in OfBus(d) => b = d
<1>1. PICK C \in Categories : f \in C
  BY DEF Categories, Fu
<1>2. \E b \in {0, 1} : f \in OfBus(b)
  BY DEF OfBus
<1>3. \A D, E \in Categories : f \in D /\ f \in E => D = E
  BY UnitsAre DEF Categories
<1>4. \A b, d \in {0, 1} : f \in OfBus(b) /\ f \in OfBus(d) => b = d
  BY DEF OfBus
<1>. QED  BY <1>1, <1>2, <1>3, <1>4 DEF Tree

\* The category is that of the most urgent units.
LEMMA UrgentIs ==
  ASSUME NEW req \in SUBSET Fu, req # {}
  PROVE  /\ cat_select(req) \in Categories
         /\ req \cap cat_select(req) # {}
         /\ Urgent(req) = req \cap cat_select(req)
BY DEF cat_select, Categories, Urgent, Fu

\* A bus grants a unit of the most urgent category that asks, and the one the
\* counter points at if that one asks.
LEMMA GrantIs ==
  ASSUME NEW b \in {0, 1}, NEW S \in SUBSET Fu,
         S \cap OfBus(b) # {}, NEW c \in 0 .. 3
  PROVE  LET C == cat_select(S \cap OfBus(b))
         IN  /\ fu_num(b, S, c) \in S \cap Tree(C, b)
             /\ \A f \in S \cap Tree(C, b) :
                  PlaceOf(f, Tree(C, b)) = Points(C, c) => fu_num(b, S, c) = f
<1> DEFINE req == S \cap OfBus(b)
           C == cat_select(req)
           T == Tree(C, b)
           places == {PlaceOf(f, T) : f \in req \cap T}
           gnt == IF C = FU_ALU THEN rps4(places, c) ELSE rps2(places, c % 2)
<1>1. C \in Categories /\ req \cap C # {}
  BY UrgentIs
<1>2. /\ req \cap T = S \cap T /\ S \cap T # {}
      /\ fu_num(b, S, c) = CHOOSE f \in T : PlaceOf(f, T) = gnt
  BY <1>1 DEF fu_num, Tree
<1> HIDE DEF C, req
<1>3. /\ \A f \in T : PlaceOf(f, T) \in 0 .. Places(C) - 1
      /\ \A f, g \in T : PlaceOf(f, T) = PlaceOf(g, T) => f = g
  BY <1>1, PlacesAre
<1> HIDE DEF T
<1>4. places \in SUBSET (0 .. Places(C) - 1) /\ places # {}
  BY <1>2, <1>3
<1>5. Points(C, c) \in 0 .. Places(C) - 1
  BY DEF Points, Places
<1>6. gnt \in places /\ (Points(C, c) \in places => gnt = Points(C, c))
  <2> HIDE DEF places
  <2>1. CASE C = FU_ALU
    BY <2>1, <1>4, Rps4Is DEF Places, Points
  <2>2. CASE C # FU_ALU
    BY <2>2, <1>4, Rps2Is DEF Places, Points
  <2>. QED  BY <2>1, <2>2
<1> HIDE DEF gnt
<1>7. PICK g \in S \cap T : PlaceOf(g, T) = gnt
  BY <1>2, <1>6
<1>8. fu_num(b, S, c) = g
  BY <1>2, <1>3, <1>7
<1>9. ASSUME NEW f \in S \cap T, PlaceOf(f, T) = Points(C, c) PROVE f = g
  BY <1>2, <1>3, <1>6, <1>7, <1>9
<1>. QED  BY <1>7, <1>8, <1>9 DEF T, C, req

-----------------------------------------------------------------------------
(* A unit is passed over while the counter goes round once.                *)

\* How many cycles ago the counter was just past place s of n places.
Behind(n, s, c) == (c - s + n - 1) % n

\* A unit has been passed over at most since the counter pointed at it.
SelectorInv ==
  /\ cnt \in 0 .. 3
  /\ fu_result_valid \subseteq Fu
  /\ waited \in [Fu -> Nat]
  /\ \A C \in Categories, b \in {0, 1} : \A f \in Tree(C, b) :
       waited[f] =< Behind(Places(C), PlaceOf(f, Tree(C, b)), cnt)

LEMMA BehindIs ==
  ASSUME NEW C \in Categories, NEW c \in 0 .. 3,
         NEW s \in 0 .. Places(C) - 1
  PROVE  /\ Behind(Places(C), s, c) \in 0 .. Places(C) - 1
         /\ Points(C, c) # s =>
              Behind(Places(C), s, c) + 1
                = Behind(Places(C), s, (c + 1) % 4)
<1>1. CASE C = FU_ALU
  <2>1. s \in {0, 1, 2, 3} /\ c \in {0, 1, 2, 3}
    BY <1>1 DEF Places
  <2>. QED  BY <1>1, <2>1 DEF Places, Points, Behind
<1>2. CASE C # FU_ALU
  <2>1. s \in {0, 1} /\ c \in {0, 1, 2, 3}
    BY <1>2 DEF Places
  <2>. QED  BY <1>2, <2>1 DEF Places, Points, Behind
<1>. QED  BY <1>1, <1>2

LEMMA PassedOverIs ==
  ASSUME SelectorInv, NEW C \in Categories, NEW b \in {0, 1},
         NEW f \in Tree(C, b), PassedOver(f)
  PROVE  PlaceOf(f, Tree(C, b)) # Points(C, cnt)
<1>1. f \in Fu /\ f \in C /\ f \in OfBus(b)
  BY DEF Tree, Categories, Fu
<1>2. /\ f \in fu_result_valid /\ f \notin Winners
      /\ C = cat_select(fu_result_valid \cap OfBus(b))
  <2>1. PICK d \in {0, 1} :
          /\ f \in OfBus(d) /\ f \in fu_result_valid /\ f \notin Winners
          /\ f \in cat_select(fu_result_valid \cap OfBus(d))
    BY DEF PassedOver
  <2>2. d = b
    BY <1>1, <2>1, OneTreeEach
  <2>3. cat_select(fu_result_valid \cap OfBus(b)) \in Categories
    BY <1>1, <2>1, UrgentIs DEF SelectorInv, cat_select, Categories
  <2>. QED  BY <1>1, <2>1, <2>2, <2>3, OneTreeEach
<1>3. fu_num(b, fu_result_valid, cnt) # f
  BY <1>1, <1>2 DEF Winners, selection
<1>. QED  BY <1>1, <1>2, <1>3, GrantIs DEF SelectorInv

LEMMA SelectorInitInv == SelectorInit => SelectorInv
<1> SUFFICES ASSUME SelectorInit PROVE SelectorInv
  OBVIOUS
<1>1. ASSUME NEW C \in Categories, NEW b \in {0, 1}, NEW f \in Tree(C, b)
      PROVE  waited[f] =< Behind(Places(C), PlaceOf(f, Tree(C, b)), cnt)
  <2>1. f \in Fu
    BY DEF Tree, Categories, Fu
  <2>2. Behind(Places(C), PlaceOf(f, Tree(C, b)), 0) \in 0 .. Places(C) - 1
    BY PlacesAre, BehindIs
  <2>3. \A x \in 0 .. Places(C) - 1 : 0 =< x
    BY DEF Places
  <2>. QED  BY <2>1, <2>2, <2>3 DEF SelectorInit
<1>. QED  BY <1>1 DEF SelectorInit, SelectorInv

LEMMA SelectorStepInv ==
  SelectorInv /\ [SelectorCycle]_selectorVars => SelectorInv'
<1> SUFFICES ASSUME SelectorInv, [SelectorCycle]_selectorVars
             PROVE  SelectorInv'
  OBVIOUS
<1>1. CASE SelectorCycle
  <2>1. cnt \in 0 .. 3 /\ cnt' = (cnt + 1) % 4 /\ cnt' \in 0 .. 3
    BY <1>1 DEF SelectorCycle, Counts, SelectorInv
  <2>2. fu_result_valid' \subseteq Fu
    BY <1>1 DEF SelectorCycle, SelectorInv
  <2>3. /\ waited' = [f \in Fu |-> IF PassedOver(f) THEN waited[f] + 1 ELSE 0]
        /\ waited' \in [Fu -> Nat]
    BY <1>1 DEF SelectorCycle, SelectorInv
  <2>4. ASSUME NEW C \in Categories, NEW b \in {0, 1}, NEW f \in Tree(C, b)
        PROVE  waited'[f] =< Behind(Places(C), PlaceOf(f, Tree(C, b)), cnt')
    <3> DEFINE s == PlaceOf(f, Tree(C, b))
               now == Behind(Places(C), s, cnt)
               next == Behind(Places(C), s, cnt')
    <3>1. f \in Fu
      BY DEF Tree, Categories, Fu
    <3>2. s \in 0 .. Places(C) - 1
      BY PlacesAre
    <3>3. waited[f] \in Nat /\ waited[f] =< now
      BY <3>1 DEF SelectorInv
    <3> HIDE DEF s
    <3>4. /\ now \in 0 .. Places(C) - 1 /\ next \in 0 .. Places(C) - 1
          /\ Points(C, cnt) # s => now + 1 = next
      BY <2>1, <3>2, BehindIs
    <3>5. now \in Nat /\ next \in Nat
      BY <3>4 DEF Places
    <3>6. CASE PassedOver(f)
      <4>1. Points(C, cnt) # s
        BY <3>6, PassedOverIs DEF s
      <4> HIDE DEF now, next
      <4>2. waited'[f] = waited[f] + 1
        BY <2>3, <3>1, <3>6
      <4>3. waited'[f] =< next
        BY <3>3, <3>4, <3>5, <4>1, <4>2
      <4>. QED  BY <4>3 DEF next, s
    <3>7. CASE ~PassedOver(f)
      <4> HIDE DEF now, next
      <4>1. waited'[f] = 0
        BY <2>3, <3>1, <3>7
      <4>2. waited'[f] =< next
        BY <3>5, <4>1
      <4>. QED  BY <4>2 DEF next, s
    <3>. QED  BY <3>6, <3>7
  <2>. QED  BY <2>1, <2>2, <2>3, <2>4 DEF SelectorInv, PlaceOf, Tree, OfBus
<1>2. CASE UNCHANGED selectorVars
  BY <1>2 DEF selectorVars, SelectorInv
<1>. QED  BY <1>1, <1>2

LEMMA InvImpliesPromised == SelectorInv => ChoosesAsPromised
<1> SUFFICES ASSUME SelectorInv PROVE ChoosesAsPromised
  OBVIOUS
<1>1. ASSUME NEW b \in {0, 1}
      PROVE  selection(b, fu_result_valid, cnt)
               \in One(Urgent(fu_result_valid \cap OfBus(b)))
  <2> DEFINE req == fu_result_valid \cap OfBus(b)
  <2>1. CASE req = {}
    <3>1. Urgent(req) = {}
      BY <2>1 DEF Urgent
    <3>. QED  BY <2>1, <3>1 DEF selection, One
  <2>2. CASE req # {}
    <3>1. Urgent(req) = req \cap cat_select(req)
      BY <2>2, UrgentIs DEF SelectorInv
    <3>2. fu_num(b, fu_result_valid, cnt) \in Urgent(req)
      BY <2>2, <3>1, GrantIs DEF SelectorInv, Tree
    <3> HIDE DEF req
    <3>3. selection(b, fu_result_valid, cnt)
            = {fu_num(b, fu_result_valid, cnt)}
      BY <2>2 DEF selection, req
    <3>4. Urgent(req) # {}
      BY <3>2
    <3>5. selection(b, fu_result_valid, cnt) \in One(Urgent(req))
      BY <3>2, <3>3, <3>4 DEF One
    <3>. QED  BY <3>5 DEF req
  <2>. QED  BY <2>1, <2>2
<1>2. /\ fu_result_valid \cap OfBus(0) = fu_result_valid \cap HALF_0
      /\ fu_result_valid \cap OfBus(1) = fu_result_valid \ HALF_0
  BY DEF OfBus, SelectorInv
<1>3. /\ selection(0, fu_result_valid, cnt)
           \in One(Urgent(fu_result_valid \cap HALF_0))
      /\ selection(1, fu_result_valid, cnt)
           \in One(Urgent(fu_result_valid \ HALF_0))
  BY <1>1, <1>2
<1>. QED  BY <1>3 DEF ChoosesAsPromised, Grants

LEMMA InvImpliesBriefly == SelectorInv => PassedOverBriefly
<1> SUFFICES ASSUME SelectorInv, NEW f \in Fu
             PROVE  waited[f] < IF f \in FU_ALU THEN 4 ELSE 2
  BY DEF PassedOverBriefly
<1>1. PICK C \in Categories, b \in {0, 1} : f \in Tree(C, b)
  BY OneTreeEach
<1> DEFINE s == PlaceOf(f, Tree(C, b))
<1>2. s \in 0 .. Places(C) - 1
  BY <1>1, PlacesAre
<1>3. waited[f] \in Nat /\ waited[f] =< Behind(Places(C), s, cnt)
  BY <1>1 DEF SelectorInv
<1>4. cnt \in 0 .. 3
  BY DEF SelectorInv
<1> HIDE DEF s
<1>5. Behind(Places(C), s, cnt) \in 0 .. Places(C) - 1
  BY <1>2, <1>4, BehindIs
<1>6. Places(C) = IF f \in FU_ALU THEN 4 ELSE 2
  <2>1. f \in C
    BY <1>1 DEF Tree
  <2>2. f \in FU_ALU => C = FU_ALU
    BY <2>1, OneTreeEach DEF Categories
  <2>. QED  BY <2>1, <2>2 DEF Places
<1> DEFINE past == Behind(Places(C), s, cnt)
           n == Places(C)
<1> HIDE DEF past
<1>7. n \in Nat /\ past \in 0 .. n - 1 /\ waited[f] =< past
  BY <1>3, <1>5 DEF past, Places
<1> HIDE DEF n
<1>8. waited[f] < n
  BY <1>3, <1>7
<1>. QED  BY <1>6, <1>8 DEF n

\* Whatever units ask and whenever, fu_selector_2.sv chooses what Selection
\* promises: what is proved of the core for every such choice holds with the
\* circuit.
THEOREM SelectorKeepsPromise == SelectorSpec => []ChoosesAsPromised
<1>1. SelectorInit => SelectorInv
  BY SelectorInitInv
<1>2. SelectorInv /\ [SelectorCycle]_selectorVars => SelectorInv'
  BY SelectorStepInv
<1>3. SelectorInv => ChoosesAsPromised
  BY InvImpliesPromised
<1>. QED  BY <1>1, <1>2, <1>3, PTL DEF SelectorSpec

\* No unit is passed over by its own category for a whole turn of its tree:
\* fewer than four times for an ALU, than two for any other.
THEOREM SelectorIsFair == SelectorSpec => []PassedOverBriefly
<1>1. SelectorInit => SelectorInv
  BY SelectorInitInv
<1>2. SelectorInv /\ [SelectorCycle]_selectorVars => SelectorInv'
  BY SelectorStepInv
<1>3. SelectorInv => PassedOverBriefly
  BY InvImpliesBriefly
<1>. QED  BY <1>1, <1>2, <1>3, PTL DEF SelectorSpec

-----------------------------------------------------------------------------
(* THE MULTIPLIER.                                                         *)

-----------------------------------------------------------------------------
(* What it adds up.                                                        *)

USE MultiplierAssumption

Operand == 0 .. Half - 1
Wide == 0 .. Full - 1

MultTypeOK ==
  /\ working \in [loaded : BOOLEAN, func : Func, selected : BOOLEAN,
                  rs_value : Operand \X Operand, rs_value_valid : BOOLEAN]
  /\ mlu \in [mcand_in : Wide, mplier_in : Wide, product_in : Wide,
              step_counter : 0 .. NUM_STAGE, valid : BOOLEAN]

\* The bits of the multiplier that are left are those of the stages that are
\* left.
StagesLeft ==
  working.rs_value_valid /\ ~working.selected =>
    mlu.mplier_in < 2^(NUM_BITS * (NUM_STAGE - mlu.step_counter))

ValidIsLast == mlu.valid => mlu.step_counter = NUM_STAGE

MultInv == MultTypeOK /\ SumIsProduct /\ StagesLeft /\ ValidIsLast

LEMMA WidthIs ==
  /\ Half \in Nat \ {0} /\ Full \in Nat \ {0} /\ Full = Half * Half
  /\ Half =< Full
  /\ NUM_BITS \in Nat /\ 2^NUM_BITS \in Nat \ {0}
  /\ 2^(NUM_BITS * NUM_STAGE) = Full
<1>1. Half \in Nat \ {0}
  BY PowerIs DEF Half
<1>2. Full = Half * Half
  BY DEF Full
<1>3. Full \in Nat \ {0} /\ Half =< Full
  <2> DEFINE h == Half
  <2> HIDE DEF h
  <2>1. h \in Nat \ {0} => h * h \in Nat \ {0} /\ h =< h * h
    OBVIOUS
  <2>. QED  BY <1>1, <1>2, <2>1 DEF h
<1>4. NUM_BITS \in Nat /\ NUM_BITS * NUM_STAGE = 2 * XLEN
  <2>1. 2 * XLEN = NUM_STAGE * ((2 * XLEN) \div NUM_STAGE) + ((2 * XLEN) % NUM_STAGE)
    OBVIOUS
  <2>2. (2 * XLEN) \div NUM_STAGE \in Nat
    OBVIOUS
  <2>. QED  BY <2>1, <2>2 DEF NUM_BITS
<1>5. 2^NUM_BITS \in Nat \ {0}
  BY <1>4, PowerIs
<1>6. 2^(XLEN + XLEN) = 2^XLEN * 2^XLEN
  BY PowerSum
<1>7. NUM_BITS * NUM_STAGE = XLEN + XLEN
  BY <1>4
<1>. QED  BY <1>1, <1>2, <1>3, <1>4, <1>5, <1>6, <1>7 DEF Half

\* Sign extension adds a multiple of the width of a product.
LEMMA SignIs ==
  ASSUME NEW v \in Operand
  PROVE  /\ SignExtended(v) \in Wide /\ Signed(v) \in Int
         /\ \E d \in {0, 1} : SignExtended(v) = Signed(v) + Full * d
<1> DEFINE h == Half
           f == Full
           t == Half \div 2
<1>1. h \in Nat \ {0} /\ f \in Nat \ {0} /\ h =< f /\ v \in 0 .. h - 1
  BY WidthIs DEF Operand
<1>2. t \in Int
  BY <1>1
<1>3. /\ SignExtended(v) = IF v >= t THEN v + f - h ELSE v
      /\ Signed(v) = IF v >= t THEN v - h ELSE v
  BY DEF SignExtended, Signed
<1>4. Wide = 0 .. f - 1
  BY DEF Wide
<1> HIDE DEF h, f, t
<1>5. CASE v >= t
  <2>1. SignExtended(v) = Signed(v) + f * 1
    BY <1>1, <1>3, <1>5
  <2>. QED  BY <1>1, <1>3, <1>4, <1>5, <2>1 DEF f
<1>6. CASE ~(v >= t)
  <2>1. SignExtended(v) = Signed(v) + f * 0
    BY <1>1, <1>3, <1>6
  <2>. QED  BY <1>1, <1>3, <1>4, <1>6, <2>1 DEF f
<1>. QED  BY <1>5, <1>6

\* A stage adds one partial product, and takes it off what is left.
SumStays(F, B, p, m, c) ==
  (((p + (m % B) * c) % F) + (m \div B) * ((c * B) % F)) % F = (p + m * c) % F

LEMMA StageKeeps ==
  ASSUME NEW F \in Nat \ {0}, NEW B \in Nat \ {0},
         NEW p \in Nat, NEW m \in Nat, NEW c \in Nat
  PROVE  SumStays(F, B, p, m, c)
<1> DEFINE r == m % B
           n == m \div B
           x == p + r * c
           y == c * B
           p2 == x % F
           c2 == y % F
           q1 == x \div F
           q2 == y \div F
<1>1. n \in Int /\ r \in Int /\ m = B * n + r
  BY SplitIs
<1>2. x \in Int /\ y \in Int
  BY <1>1
<1>3. /\ p2 \in Int /\ q1 \in Int /\ x = F * q1 + p2
      /\ c2 \in Int /\ q2 \in Int /\ y = F * q2 + c2
  <2> HIDE DEF x, y
  <2>. QED  BY <1>2, SplitIs
<1>4. x = p + r * c /\ y = c * B
  OBVIOUS
<1> HIDE DEF r, n, x, y, p2, c2, q1, q2
<1>5. n * y = (B * n) * c
  BY <1>1, <1>4
<1>6. m * c = (B * n) * c + r * c
  BY <1>1
<1>7. n * y = F * (n * q2) + n * c2
  BY <1>1, <1>3
<1>8. F * (-(q1 + n * q2)) = -(F * q1) - F * (n * q2)
  BY <1>1, <1>3
<1>9. p2 + n * c2 = (p + m * c) + F * (-(q1 + n * q2))
  <2> DEFINE a == (B * n) * c
             b == r * c
             d == F * (n * q2)
             e == n * c2
             f == F * q1
             g == F * (-(q1 + n * q2))
             h == m * c
             z == n * y
  <2>1. /\ a \in Int /\ b \in Int /\ d \in Int /\ e \in Int /\ f \in Int /\ g \in Int
        /\ h \in Int /\ z \in Int
    BY <1>1, <1>3, <1>2
  <2>2. /\ x = p + b /\ x = f + p2 /\ z = a /\ h = a + b /\ z = d + e /\ g = -f - d
    BY <1>3, <1>4, <1>5, <1>6, <1>7, <1>8
  <2> HIDE DEF a, b, d, e, f, g, h, z
  <2>3. p2 + e = (p + h) + g
    BY <1>3, <2>1, <2>2
  <2>. QED  BY <2>3 DEF e, g, h
<1>10. p + m * c \in Int /\ -(q1 + n * q2) \in Int
  BY <1>1, <1>3
<1>11. ((p + m * c) + F * (-(q1 + n * q2))) % F = (p + m * c) % F
  BY <1>10, SameRemainder
<1>. QED  BY <1>9, <1>11 DEF SumStays, r, n, x, y, p2, c2

\* All that a stage does, with w the width of what is left behind it.
StageOK(F, B, p, m, c, w) ==
  LET p2 == (p + (m % B) * c) % F
      m2 == m \div B
      c2 == (c * B) % F
  IN  /\ p2 \in 0 .. F - 1 /\ m2 \in 0 .. F - 1 /\ c2 \in 0 .. F - 1
      /\ m2 < w
      /\ (p2 + m2 * c2) % F = (p + m * c) % F

LEMMA StageIs ==
  ASSUME NEW F \in Nat \ {0}, NEW B \in Nat \ {0}, NEW w \in Nat,
         NEW p \in 0 .. F - 1, NEW m \in 0 .. F - 1, NEW c \in 0 .. F - 1,
         m < B * w
  PROVE  StageOK(F, B, p, m, c, w)
<1> DEFINE p2 == (p + (m % B) * c) % F
           m2 == m \div B
           c2 == (c * B) % F
<1>1. p \in Nat /\ m \in Nat /\ c \in Nat
  OBVIOUS
<1>2. m2 \in Nat /\ m = B * m2 + (m % B) /\ m % B \in 0 .. B - 1
  <2>1. m \in Int /\ m >= 0
    BY <1>1
  <2>2. /\ m \div B \in Int /\ m % B \in 0 .. B - 1 /\ m = B * (m \div B) + (m % B)
        /\ m >= 0 => m \div B >= 0
    BY <2>1, SplitIs, Zenon
  <2>. QED  BY <2>1, <2>2
<1>3. p2 \in 0 .. F - 1 /\ c2 \in 0 .. F - 1
  <2>1. (m % B) * c \in Int /\ c * B \in Int
    BY <1>1, <1>2
  <2>2. p + (m % B) * c \in Int
    BY <1>1, <2>1
  <2>. QED  BY <2>1, <2>2, SplitIs
<1>4. (p2 + m2 * c2) % F = (p + m * c) % F
  <2>1. SumStays(F, B, p, m, c)
    BY <1>1, StageKeeps
  <2>. QED  BY <2>1 DEF SumStays
<1> HIDE DEF m2
<1>5. m2 =< m
  <2>1. B * m2 >= m2
    BY <1>2
  <2>. QED  BY <1>1, <1>2, <2>1
<1>6. m2 < w
  <2>1. ASSUME m2 >= w PROVE FALSE
    <3>1. B * m2 >= B * w
      BY <1>2, <2>1
    <3>2. B * m2 \in Int /\ B * w \in Int
      BY <1>2
    <3>. QED  BY <1>1, <1>2, <3>1, <3>2
  <2>. QED  BY <1>2, <2>1
<1>7. m2 \in 0 .. F - 1
  BY <1>2, <1>5
<1>. QED  BY <1>3, <1>4, <1>6, <1>7 DEF StageOK, m2

\* What a factor of the width too many adds to a product goes out of it.
Congruent(x, a, F) == \E d \in Int : x = a + F * d

LEMMA FactorsKeep ==
  ASSUME NEW F \in Nat \ {0}, NEW a \in Int, NEW b \in Int, NEW x, NEW y,
         Congruent(x, a, F), Congruent(y, b, F)
  PROVE  (x * y) % F = (a * b) % F
<1>0. PICK d \in Int, e \in Int : x = a + F * d /\ y = b + F * e
  BY DEF Congruent
<1> DEFINE k == a * e + d * b + d * (F * e)
<1>1. (a + F * d) * (b + F * e) = a * b + F * k
  <2>1. (a + F * d) * (b + F * e) = a * (b + F * e) + (F * d) * (b + F * e)
    OBVIOUS
  <2>2. a * (b + F * e) = a * b + F * (a * e)
    OBVIOUS
  <2>3. (F * d) * (b + F * e) = F * (d * b) + F * (d * (F * e))
    OBVIOUS
  <2>4. F * k = F * (a * e) + F * (d * b) + F * (d * (F * e))
    OBVIOUS
  <2> DEFINE s == F * (a * e)
             t == F * (d * b)
             u == F * (d * (F * e))
  <2>5. s \in Int /\ t \in Int /\ u \in Int /\ a * b \in Int
    OBVIOUS
  <2> HIDE DEF k
  <2>. QED  BY <2>1, <2>2, <2>3, <2>4, <2>5
<1>2. k \in Int /\ a * b \in Int
  OBVIOUS
<1> HIDE DEF k
<1>3. (a * b + F * k) % F = (a * b) % F
  BY <1>2, SameRemainder
<1>. QED  BY <1>0, <1>1, <1>3

LEMMA Commutes == ASSUME NEW x \in Int, NEW y \in Int  PROVE 0 + x * y = y * x
OBVIOUS

\* What the multiplier is loaded with makes the product of the instruction.
LEMMA LoadIs ==
  ASSUME MultTypeOK
  PROVE  LET c == mcand(working.func, working.rs_value[1])
             m == mplier(working.func, working.rs_value[2])
         IN  /\ c \in Wide /\ m \in Wide
             /\ Product \in Int
             /\ (0 + m * c) % Full = Product % Full
<1> DEFINE a == working.rs_value[1]
           b == working.rs_value[2]
           c == mcand(working.func, a)
           m == mplier(working.func, b)
<1>1. a \in Operand /\ b \in Operand /\ working.func \in Func
  BY DEF MultTypeOK
<1>2. Operand \subseteq Wide /\ Wide \subseteq Int
  <2>1. Half =< Full /\ Half \in Nat /\ Full \in Nat
    BY WidthIs
  <2>. QED  BY <2>1 DEF Operand, Wide
<1>3. /\ SignExtended(a) \in Wide /\ Signed(a) \in Int
      /\ SignExtended(b) \in Wide /\ Signed(b) \in Int
  BY <1>1, SignIs
<1>6. Full \in Nat \ {0}
  BY WidthIs
<1>4. /\ Congruent(SignExtended(a), Signed(a), Full)
      /\ Congruent(SignExtended(b), Signed(b), Full)
  BY <1>1, SignIs, {0, 1} \subseteq Int DEF Congruent
<1> HIDE DEF a, b
<1>7. a \in Int /\ b \in Int
  BY <1>1, <1>2
<1>8. Congruent(b, b, Full)
  <2>1. b = b + Full * 0
    BY <1>6, <1>7
  <2>. QED  BY <2>1 DEF Congruent
<1>9. CASE working.func = "MULHU"
  <2>1. c = a /\ m = b /\ Product = a * b
    BY <1>9 DEF mcand, mplier, Product, a, b
  <2>2. 0 + m * c = Product
    BY <1>7, <2>1
  <2>. QED  BY <1>1, <1>2, <1>7, <2>1, <2>2 DEF a, b
<1>10. CASE working.func = "MULHSU"
  <2>1. c = SignExtended(a) /\ m = b /\ Product = Signed(a) * b
    BY <1>10 DEF mcand, mplier, Product, a, b
  <2>2. (c * m) % Full = Product % Full
    <3>1. (SignExtended(a) * b) % Full = (Signed(a) * b) % Full
      BY <1>3, <1>4, <1>6, <1>7, <1>8, FactorsKeep
    <3>. QED  BY <3>1, <2>1
  <2>3. 0 + m * c = c * m
    BY <1>2, <1>3, <1>7, <2>1, Commutes
  <2>4. Product \in Int
    BY <1>3, <1>7, <2>1
  <2>. QED  BY <1>1, <1>2, <1>3, <2>1, <2>2, <2>3, <2>4 DEF a, b
<1>11. CASE working.func \in {"MUL", "MULH"}
  <2>1. c = SignExtended(a) /\ m = SignExtended(b) /\ Product = Signed(a) * Signed(b)
    BY <1>11 DEF mcand, mplier, Product, a, b
  <2>2. (c * m) % Full = Product % Full
    <3>1. (SignExtended(a) * SignExtended(b)) % Full = (Signed(a) * Signed(b)) % Full
      BY <1>3, <1>4, <1>6, FactorsKeep
    <3>. QED  BY <3>1, <2>1
  <2>3. 0 + m * c = c * m
    BY <1>2, <1>3, <2>1, Commutes
  <2>4. Product \in Int
    BY <1>3, <2>1
  <2>. QED  BY <1>1, <1>2, <1>3, <2>1, <2>2, <2>3, <2>4 DEF a, b
<1>. QED  BY <1>1, <1>9, <1>10, <1>11 DEF Func, a, b

LEMMA MultInitInv == MultInit => MultInv
<1> SUFFICES ASSUME MultInit PROVE MultInv
  OBVIOUS
<1>1. 0 \in Operand /\ 0 \in Wide
  BY WidthIs DEF Operand, Wide
<1>2. MultTypeOK
  BY <1>1 DEF MultInit, IdleWorking, Reset, MultTypeOK, Func
<1>3. ~working.rs_value_valid /\ ~mlu.valid
  BY DEF MultInit, IdleWorking, Reset
<1>. QED  BY <1>2, <1>3 DEF MultInv, SumIsProduct, StagesLeft, ValidIsLast

\* What the multiplier does in a cycle, of its own.
LEMMA NextMluIs ==
  ASSUME MultInv, mlu' = NextMlu
  PROVE  /\ mlu' \in [mcand_in : Wide, mplier_in : Wide, product_in : Wide,
                      step_counter : 0 .. NUM_STAGE, valid : BOOLEAN]
         /\ ValidIsLast'
         /\ working.rs_value_valid =>
              /\ (mlu'.product_in + mlu'.mplier_in * mlu'.mcand_in) % Full
                   = Product % Full
              /\ mlu'.mplier_in < 2^(NUM_BITS * (NUM_STAGE - mlu'.step_counter))
<1> USE DEF MultInv
<1>0. 0 \in Wide /\ 0 \in 0 .. NUM_STAGE
  BY WidthIs DEF Wide
<1>1. CASE ~working.rs_value_valid
  <2>1. mlu' = Reset
    BY <1>1 DEF NextMlu
  <2>. QED  BY <1>0, <1>1, <2>1 DEF Reset, ValidIsLast
<1>2. CASE working.rs_value_valid /\ working.selected
  <2> DEFINE c == mcand(working.func, working.rs_value[1])
             m == mplier(working.func, working.rs_value[2])
  <2>1. c \in Wide /\ m \in Wide /\ (0 + m * c) % Full = Product % Full
    BY LoadIs
  <2>2. mlu' = [Reset EXCEPT !.mcand_in = c, !.mplier_in = m]
    BY <1>2 DEF NextMlu
  <2> HIDE DEF c, m
  <2>3. /\ mlu'.mcand_in = c /\ mlu'.mplier_in = m /\ mlu'.product_in = 0
        /\ mlu'.step_counter = 0 /\ mlu'.valid = FALSE
        /\ mlu' \in [mcand_in : Wide, mplier_in : Wide, product_in : Wide,
                     step_counter : 0 .. NUM_STAGE, valid : BOOLEAN]
    BY <1>0, <2>1, <2>2 DEF Reset
  <2>4. m < 2^(NUM_BITS * (NUM_STAGE - 0))
    <3>1. NUM_STAGE - 0 = NUM_STAGE /\ 2^(NUM_BITS * NUM_STAGE) = Full
      BY WidthIs
    <3>2. m < Full
      BY <2>1, WidthIs DEF Wide
    <3>. QED  BY <3>1, <3>2
  <2>. QED  BY <2>1, <2>3, <2>4 DEF ValidIsLast
<1>3. CASE working.rs_value_valid /\ ~working.selected /\ mlu.step_counter = NUM_STAGE
  <2>1. mlu' = [mlu EXCEPT !.valid = TRUE]
    BY <1>3 DEF NextMlu
  <2>2. /\ mlu' \in [mcand_in : Wide, mplier_in : Wide, product_in : Wide,
                     step_counter : 0 .. NUM_STAGE, valid : BOOLEAN]
        /\ mlu'.mcand_in = mlu.mcand_in /\ mlu'.mplier_in = mlu.mplier_in
        /\ mlu'.product_in = mlu.product_in
        /\ mlu'.step_counter = mlu.step_counter
    BY <2>1 DEF MultTypeOK
  <2>. QED  BY <1>3, <2>2 DEF SumIsProduct, StagesLeft, ValidIsLast
<1>4. CASE working.rs_value_valid /\ ~working.selected /\ mlu.step_counter # NUM_STAGE
  <2> DEFINE B == 2^NUM_BITS
             p == mlu.product_in
             m == mlu.mplier_in
             c == mlu.mcand_in
             k == mlu.step_counter
             p2 == (p + (m % B) * c) % Full
             m2 == m \div B
             c2 == (c * B) % Full
  <2>0. /\ B \in Nat \ {0} /\ Full \in Nat \ {0}
        /\ p \in Wide /\ m \in Wide /\ c \in Wide /\ k \in 0 .. NUM_STAGE - 1
    BY <1>4, WidthIs DEF MultTypeOK
  <2>2. mlu' = [mlu EXCEPT !.product_in = p2, !.mplier_in = m2, !.mcand_in = c2,
                           !.step_counter = k + 1, !.valid = FALSE]
    BY <1>4 DEF NextMlu, mult_stage
  <2> HIDE DEF B, p, m, c, k
  <2> DEFINE left == NUM_STAGE - (k + 1)
             w == 2^(NUM_BITS * left)
  <2>8. left \in Nat /\ NUM_BITS * left \in Nat /\ w \in Nat
    <3>1. left \in Nat
      BY <2>0
    <3>2. NUM_BITS * left \in Nat
      BY <3>1, WidthIs
    <3>. QED  BY <3>1, <3>2, PowerIs
  <2>9. m < B * w
    <3>1. m < 2^(NUM_BITS * (NUM_STAGE - k))
      BY <1>4 DEF StagesLeft, m, k
    <3>2. NUM_BITS * (NUM_STAGE - k) = NUM_BITS + NUM_BITS * left
      BY <2>0, WidthIs
    <3>3. 2^(NUM_BITS + NUM_BITS * left) = B * w
      BY <2>8, WidthIs, PowerSum DEF B
    <3>. QED  BY <3>1, <3>2, <3>3
  <2> HIDE DEF w, left
  <2>10. StageOK(Full, B, p, m, c, w)
    BY <2>0, <2>8, <2>9, StageIs DEF Wide
  <2>13. /\ p2 \in Wide /\ m2 \in Wide /\ c2 \in Wide /\ m2 < w
         /\ (p2 + m2 * c2) % Full = (p + m * c) % Full
    BY <2>10 DEF StageOK, Wide
  <2> HIDE DEF p2, m2, c2
  <2>11. /\ mlu' \in [mcand_in : Wide, mplier_in : Wide, product_in : Wide,
                      step_counter : 0 .. NUM_STAGE, valid : BOOLEAN]
         /\ mlu'.product_in = p2 /\ mlu'.mplier_in = m2 /\ mlu'.mcand_in = c2
         /\ mlu'.step_counter = k + 1 /\ mlu'.valid = FALSE
    <3>1. k + 1 \in 0 .. NUM_STAGE
      BY <2>0
    <3>. QED  BY <2>2, <2>13, <3>1 DEF MultTypeOK
  <2>12. (p + m * c) % Full = Product % Full
    BY <1>4 DEF SumIsProduct, p, m, c
  <2>. QED  BY <2>11, <2>12, <2>13 DEF ValidIsLast, w, left
<1>. QED  BY <1>1, <1>2, <1>3, <1>4

LEMMA MultStepInv == MultInv /\ [MultNext]_multVars => MultInv'
<1> SUFFICES ASSUME MultInv, [MultNext]_multVars PROVE MultInv'
  OBVIOUS
<1>0. 0 \in Operand
  BY WidthIs DEF Operand
<1> DEFINE Register == [loaded : BOOLEAN, func : Func, selected : BOOLEAN,
                        rs_value : Operand \X Operand, rs_value_valid : BOOLEAN]
<1>1. /\ IdleWorking(FALSE) \in Register /\ IdleWorking(TRUE) \in Register
      /\ \A r \in Sent : r \in Register /\ r.selected
      /\ IdleWorking(FALSE).rs_value_valid = FALSE /\ IdleWorking(TRUE).rs_value_valid = FALSE
  <2>1. IdleWorking(FALSE) \in Register /\ IdleWorking(TRUE) \in Register
    BY <1>0 DEF IdleWorking, Func
  <2>2. ASSUME NEW func \in Func
        PROVE  Waiting(func) \in Register /\ Waiting(func).selected
    BY <1>0 DEF Waiting
  <2>3. ASSUME NEW func \in Func, NEW a \in Operand, NEW b \in Operand
        PROVE  Ready(func, a, b) \in Register /\ Ready(func, a, b).selected
    BY DEF Ready
  <2>4. IdleWorking(FALSE).rs_value_valid = FALSE /\ IdleWorking(TRUE).rs_value_valid = FALSE
    BY DEF IdleWorking
  <2> HIDE DEF Register
  <2>5. ASSUME NEW r \in Sent PROVE r \in Register /\ r.selected
    BY <2>2, <2>3, <2>5 DEF Sent, Operand
  <2>. QED  BY <2>1, <2>4, <2>5
<1>2. ASSUME working' \in Register, mlu' = NextMlu,
             working'.selected \/ ~working'.rs_value_valid
      PROVE  MultInv'
  BY <1>2, NextMluIs DEF MultInv, MultTypeOK, SumIsProduct, StagesLeft
<1>3. CASE Squash
  BY <1>1, <1>2, <1>3 DEF Squash
<1>4. CASE Granted
  BY <1>1, <1>2, <1>4 DEF Granted
<1>5. CASE Dispatched
  BY <1>1, <1>2, <1>5 DEF Dispatched
<1>6. CASE OperandsCome
  <2>1. working.func \in Func
    BY DEF MultInv, MultTypeOK
  <2>2. working' \in Sent /\ mlu' = NextMlu
    BY <1>6, <2>1 DEF OperandsCome, Sent
  <2>. QED  BY <1>1, <1>2, <2>2
<1>7. CASE Ticks
  <2>1. /\ working' \in Register /\ mlu' = NextMlu
        /\ working'.func = working.func /\ working'.rs_value = working.rs_value
        /\ working'.rs_value_valid = working.rs_value_valid
    BY <1>7 DEF Ticks, MultInv, MultTypeOK
  <2>2. Product' = Product
    BY <2>1 DEF Product
  <2>. QED
    BY <2>1, <2>2, NextMluIs DEF MultInv, MultTypeOK, SumIsProduct, StagesLeft
<1>8. CASE UNCHANGED multVars
  BY <1>8 DEF multVars, MultInv, MultTypeOK, SumIsProduct, StagesLeft, ValidIsLast,
              Product
<1>. QED  BY <1>3, <1>4, <1>5, <1>6, <1>7, <1>8 DEF MultNext

LEMMA InvImpliesMultiplier == MultInv => MultiplierInv
<1> SUFFICES ASSUME MultInv, result_valid
             PROVE  result = IF working.func = "MUL" THEN Product % Half
                             ELSE (Product % Full) \div Half
  BY DEF MultInv, MultiplierInv, OffersItsProduct
<1> DEFINE p == mlu.product_in
           m == mlu.mplier_in
           c == mlu.mcand_in
<1>1. /\ working.rs_value_valid /\ ~working.selected
      /\ mlu.step_counter = NUM_STAGE
      /\ p \in Wide /\ m \in Wide /\ c \in Wide
  BY DEF result_valid, MultInv, MultTypeOK, ValidIsLast
<1>2. (p + m * c) % Full = Product % Full /\ m < 2^(NUM_BITS * (NUM_STAGE - NUM_STAGE))
  BY <1>1 DEF MultInv, SumIsProduct, StagesLeft
<1>3. Half \in Nat \ {0} /\ Full \in Nat \ {0} /\ Full = Half * Half
  BY WidthIs
<1>4. m = 0
  <2>1. NUM_BITS * (NUM_STAGE - NUM_STAGE) = 0
    BY WidthIs
  <2>2. m < 1
    BY <1>2, <2>1, PowerZero
  <2>. QED  BY <1>1, <2>2 DEF Wide
<1>5. result = IF working.func = "MUL" THEN p % Half ELSE p \div Half
  BY DEF result
<1> HIDE DEF p, m, c
<1>6. p = Product % Full
  <2>1. p \in 0 .. Full - 1 /\ c \in Int
    BY <1>1 DEF Wide
  <2>2. p + m * c = p
    BY <1>4, <2>1
  <2>3. p % Full = p
    BY <1>3, <2>1
  <2>. QED  BY <1>2, <2>2, <2>3
<1>7. (Product % Full) % Half = Product % Half
  <2>1. Product \in Int
    BY LoadIs DEF MultInv
  <2>. QED  BY <1>3, <2>1, RemainderOfPart
<1>. QED  BY <1>5, <1>6, <1>7

\* The multiplier of fu_base_block.sv adds up the product of the instruction
\* that fu_mult.sv holds, and offers nothing else, for every width of the
\* operands and every number of stages that divides the product.
THEOREM MultiplierIsRight == MultSpec => []MultiplierInv
<1>1. MultSpec => []MultInv
  BY MultInitInv, MultStepInv, PTL DEF MultSpec
<1>. QED  BY <1>1, InvImpliesMultiplier, PTL
=============================================================================
