---------------------------- MODULE DCache_proofs ----------------------------
(***************************************************************************)
(* Proofs about the data cache, for every set of lines, every size of the  *)
(* victim cache and of the table of misses, and every number of tags.      *)
(*                                                                         *)
(* A state of the logic is Good when it is typed, every valid entry is     *)
(* where its line belongs, and a line is in one place.  Each function of   *)
(* the logic (Insert, Touch, Ask, Tabled, Sent) is shown to keep Good, and *)
(* the cycle is their composition.                                         *)
(***************************************************************************)
EXTENDS DCacheMem, Order_proofs

USE DCacheAssumption

\* In the steady cycles the cache holds data only.
Content == IF Steady THEN Data ELSE Data \cup {Instr}
BlockType == [valid : BOOLEAN, line : Line \cup {NoLine}, data : Content]
MissType == [valid : BOOLEAN, sent : BOOLEAN, tag : 0 .. NUM_MEM_TAGS,
             line : Line \cup {NoLine}, value : Data, op : {"load", "store"}]

\* What the logic of a cycle passes on from step to step.
WaysType == [Set -> BlockType \X BlockType]
VictimsType == [VictimIdx -> BlockType]
TableType == [MissIdx -> MissType]

State == [ways : WaysType, victim : VictimsType, head : VictimIdx,
          miss : TableType]

\* Valid entries are those of lines, and a way holds lines of its set.
Placed(c) ==
  /\ \A s \in Set, k \in 1 .. 2 :
       c.ways[s][k].valid => /\ c.ways[s][k].line \in Line
                             /\ SetOf[c.ways[s][k].line] = s
  /\ \A i \in VictimIdx : c.victim[i].valid => c.victim[i].line \in Line
  /\ \A i \in MissIdx : c.miss[i].valid => c.miss[i].line \in Line

Fetches(c, l) == {i \in MissIdx : /\ c.miss[i].valid /\ c.miss[i].line = l
                                  /\ c.miss[i].op = "load"}

\* OneCopy, of a state of the logic.
SingleAt(c, l) ==
  /\ ~(Way(c, l, 1) /\ Way(c, l, 2))
  /\ Way(c, l, 1) \/ Way(c, l, 2) => VictimsOf(c, l) = {}
  /\ Hit(c, l) => Fetches(c, l) = {}
  /\ \A i, j \in VictimsOf(c, l) : i = j
  /\ \A i, j \in Fetches(c, l) : i = j

Single(c) == \A l \in Line : SingleAt(c, l)

Good(c) == c \in State /\ Placed(c) /\ Single(c)

-----------------------------------------------------------------------------
LEMMA LowestOf ==
  ASSUME NEW n \in Nat, NEW S \in SUBSET (0 .. n), S # {}
  PROVE  Lowest(S) \in S
BY LeastOf DEF Lowest

LEMMA LowestMiss ==
  ASSUME NEW S \in SUBSET MissIdx, S # {} PROVE Lowest(S) \in S
<1>1. MISS_LINES - 1 \in Nat
  OBVIOUS
<1>. QED  BY <1>1, LowestOf DEF MissIdx

LEMMA LowestVictim ==
  ASSUME NEW S \in SUBSET VictimIdx, S # {} PROVE Lowest(S) \in S
<1>1. VICTIMS - 1 \in Nat
  OBVIOUS
<1>. QED  BY <1>1, LowestOf DEF VictimIdx

LEMMA ContentIs ==
  /\ Data \subseteq Content /\ Content \subseteq Data \cup {Instr}
  /\ 0 \in Content
BY DEF Content

LEMMA BlockIs ==
  ASSUME NEW l \in Line, NEW d \in Content
  PROVE  /\ Block(l, d) \in BlockType /\ Block(l, d).valid
         /\ Block(l, d).line = l
BY DEF Block, BlockType

-----------------------------------------------------------------------------
(* The state of the logic after an update, field by field.                 *)

Mk(w, v, h, m) == [ways |-> w, victim |-> v, head |-> h, miss |-> m]

LEMMA StateIs ==
  ASSUME NEW c \in State
  PROVE  /\ c = Mk(c.ways, c.victim, c.head, c.miss)
         /\ c.ways \in WaysType
         /\ c.victim \in VictimsType
         /\ c.head \in VictimIdx /\ c.miss \in TableType
BY DEF State, Mk

LEMMA MkIs ==
  ASSUME NEW w \in WaysType,
         NEW v \in VictimsType,
         NEW h \in VictimIdx, NEW m \in TableType
  PROVE  /\ Mk(w, v, h, m) \in State
         /\ Mk(w, v, h, m).ways = w /\ Mk(w, v, h, m).victim = v
         /\ Mk(w, v, h, m).head = h /\ Mk(w, v, h, m).miss = m
BY DEF State, Mk

\* The updates of the source, by name.
PutSet(w, s, x, y) == [w EXCEPT ![s] = <<x, y>>]
PutVictim(v, i, z) == [v EXCEPT ![i] = z]
WithFirst(c, s, x) == [c EXCEPT !.ways[s][1] = x]
WithSet(c, s, x, y) == [c EXCEPT !.ways[s] = <<x, y>>]
WithVictim(c, s, x, y, i, z, h) ==
  [c EXCEPT !.ways[s] = <<x, y>>, !.victim[i] = z, !.head = h]

LEMMA SetChanged ==
  ASSUME NEW w \in WaysType, NEW s \in Set,
         NEW x \in BlockType, NEW y \in BlockType
  PROVE  LET u == PutSet(w, s, x, y)
         IN  /\ u \in WaysType
             /\ u[s][1] = x /\ u[s][2] = y
             /\ \A t \in Set : t # s => u[t] = w[t]
BY DEF WaysType, PutSet

LEMMA VictimChanged ==
  ASSUME NEW v \in VictimsType, NEW i \in VictimIdx, NEW z \in BlockType
  PROVE  LET u == PutVictim(v, i, z)
         IN  /\ u \in VictimsType
             /\ u[i] = z
             /\ \A j \in VictimIdx : j # i => u[j] = v[j]
BY DEF VictimsType, PutVictim

LEMMA FirstUpdate ==
  ASSUME NEW c \in State, NEW s \in Set, NEW x
  PROVE  WithFirst(c, s, x) = Mk(PutSet(c.ways, s, x, c.ways[s][2]),
                                 c.victim, c.head, c.miss)
<1>1. PICK p \in BlockType, q \in BlockType : c.ways[s] = <<p, q>>
  BY DEF State, WaysType
<1>2. [c.ways[s] EXCEPT ![1] = x] = <<x, q>>
  BY <1>1
<1>3. ASSUME NEW w, NEW v, NEW h, NEW m
      PROVE  WithFirst(Mk(w, v, h, m), s, x)
               = Mk([w EXCEPT ![s] = [w[s] EXCEPT ![1] = x]], v, h, m)
  BY DEF Mk, WithFirst
<1>4. c = Mk(c.ways, c.victim, c.head, c.miss)
  BY StateIs
<1>5. WithFirst(c, s, x)
        = Mk([c.ways EXCEPT ![s] = [c.ways[s] EXCEPT ![1] = x]],
             c.victim, c.head, c.miss)
  BY <1>3, <1>4
<1>. QED  BY <1>1, <1>2, <1>5 DEF PutSet

LEMMA SetUpdate ==
  ASSUME NEW c \in State, NEW s \in Set, NEW x, NEW y
  PROVE  WithSet(c, s, x, y)
           = Mk(PutSet(c.ways, s, x, y), c.victim, c.head, c.miss)
<1>1. ASSUME NEW w, NEW v, NEW h, NEW m
      PROVE  WithSet(Mk(w, v, h, m), s, x, y)
               = Mk(PutSet(w, s, x, y), v, h, m)
  BY DEF Mk, PutSet, WithSet
<1>2. c = Mk(c.ways, c.victim, c.head, c.miss)
  BY StateIs
<1>. QED  BY <1>1, <1>2

LEMMA VictimUpdate ==
  ASSUME NEW c \in State, NEW s \in Set, NEW x, NEW y, NEW i \in VictimIdx,
         NEW z, NEW h
  PROVE  WithVictim(c, s, x, y, i, z, h)
           = Mk(PutSet(c.ways, s, x, y), PutVictim(c.victim, i, z), h, c.miss)
<1> DEFINE w == PutSet(c.ways, s, x, y)
           v == PutVictim(c.victim, i, z)
           c1 == Mk(w, c.victim, c.head, c.miss)
           c2 == Mk(w, v, c.head, c.miss)
           c3 == Mk(w, v, h, c.miss)
<1>1. [c EXCEPT !.ways[s] = <<x, y>>] = c1
  BY SetUpdate DEF WithSet
<1> HIDE DEF w
<1>2. [c1 EXCEPT !.victim[i] = z] = c2
  BY DEF Mk, PutVictim
<1> HIDE DEF v
<1>3. [c2 EXCEPT !.head = h] = c3
  BY DEF Mk
<1> HIDE DEF c1, c2, c3
<1>4. WithVictim(c, s, x, y, i, z, h) = c3
  BY <1>1, <1>2, <1>3 DEF WithVictim
<1>. QED  BY <1>4 DEF c3, w, v

\* Set s holds x and y, the others what they held.
Moved(c, r, s, x, y) ==
  /\ r.ways[s][1] = x /\ r.ways[s][2] = y
  /\ \A t \in Set : t # s => r.ways[t] = c.ways[t]

LEMMA MovedIs ==
  ASSUME NEW c \in State, NEW s \in Set, NEW x \in BlockType,
         NEW y \in BlockType, NEW v \in VictimsType, NEW h \in VictimIdx,
         NEW r, r = Mk(PutSet(c.ways, s, x, y), v, h, c.miss)
  PROVE  /\ r \in State /\ Moved(c, r, s, x, y)
         /\ r.victim = v /\ r.head = h /\ r.miss = c.miss
<1>1. c.ways \in WaysType /\ c.miss \in TableType
  BY StateIs
<1>2. PutSet(c.ways, s, x, y) \in WaysType
  BY <1>1, SetChanged
<1>3. /\ r \in State /\ r.ways = PutSet(c.ways, s, x, y)
      /\ r.victim = v /\ r.head = h /\ r.miss = c.miss
  BY <1>1, <1>2, MkIs
<1>4. Moved(c, r, s, x, y)
  BY <1>1, <1>3, SetChanged DEF Moved
<1>. QED  BY <1>3, <1>4

\* Where the lines are, in the terms of Single.
LEMMA WayIs ==
  ASSUME NEW c, NEW r, NEW s \in Set, NEW x, NEW y, Moved(c, r, s, x, y),
         NEW q \in Line
  PROVE  /\ SetOf[q] = s => /\ Way(r, q, 1) <=> x.valid /\ x.line = q
                            /\ Way(r, q, 2) <=> y.valid /\ y.line = q
         /\ SetOf[q] # s => /\ Way(r, q, 1) <=> Way(c, q, 1)
                            /\ Way(r, q, 2) <=> Way(c, q, 2)
BY DEF Way, Moved

LEMMA VictimsIs ==
  ASSUME NEW v \in VictimsType, NEW i \in VictimIdx,
         NEW z \in BlockType, NEW c, c.victim = v,
         NEW r, r.victim = PutVictim(v, i, z), NEW q \in Line
  PROVE  VictimsOf(r, q) = IF z.valid /\ z.line = q
                           THEN VictimsOf(c, q) \cup {i}
                           ELSE VictimsOf(c, q) \ {i}
BY DEF VictimsOf, VictimsType, PutVictim

LEMMA PlacedWays ==
  ASSUME NEW c \in State, Placed(c), NEW s \in Set,
         NEW x \in BlockType, NEW y \in BlockType, NEW r \in State,
         Moved(c, r, s, x, y),
         x.valid => x.line \in Line /\ SetOf[x.line] = s,
         y.valid => y.line \in Line /\ SetOf[y.line] = s,
         \A i \in VictimIdx : r.victim[i].valid => r.victim[i].line \in Line,
         r.miss = c.miss
  PROVE  Placed(r)
<1>1. ASSUME NEW t \in Set, NEW k \in 1 .. 2, r.ways[t][k].valid
      PROVE  r.ways[t][k].line \in Line /\ SetOf[r.ways[t][k].line] = t
  <2>1. k = 1 \/ k = 2
    OBVIOUS
  <2>. QED  BY <1>1, <2>1 DEF Placed, Moved
<1>. QED  BY <1>1 DEF Placed

\* The lines that the cache holds, with their content.
Blocks(c) ==
  {c.ways[s][k] : s \in Set, k \in 1 .. 2} \cup {c.victim[i] : i \in VictimIdx}

LEMMA MovedBlocks ==
  ASSUME NEW c \in State, NEW s \in Set, NEW x, NEW y, NEW r \in State, NEW b,
         Moved(c, r, s, x, y), x \in Blocks(c) \cup {b}, y \in Blocks(c) \cup {b},
         \A i \in VictimIdx : r.victim[i] \in Blocks(c)
  PROVE  Blocks(r) \subseteq Blocks(c) \cup {b}
<1>1. ASSUME NEW t \in Set, NEW k \in 1 .. 2
      PROVE  r.ways[t][k] \in Blocks(c) \cup {b}
  <2>1. CASE t = s
    <3>1. k = 1 \/ k = 2
      OBVIOUS
    <3>. QED  BY <2>1, <3>1 DEF Moved
  <2>2. CASE t # s
    BY <2>2 DEF Moved, Blocks
  <2>. QED  BY <2>1, <2>2
<1>. QED  BY <1>1 DEF Blocks

-----------------------------------------------------------------------------
(* The steps of the logic.                                                 *)

\* A line that is nowhere, and that nobody fetches, is put in.
LEMMA InsertGood ==
  ASSUME NEW c, Good(c), NEW l \in Line, NEW d \in Content,
         ~Hit(c, l), Fetches(c, l) = {}
  PROVE  /\ Good(Insert(c, l, d)) /\ Insert(c, l, d).miss = c.miss
         /\ Blocks(Insert(c, l, d)) \subseteq Blocks(c) \cup {Block(l, d)}
<1> DEFINE s == SetOf[l]
           r == Insert(c, l, d)
           b == Block(l, d)
<1>1. /\ s \in Set /\ c \in State /\ Placed(c) /\ Single(c)
      /\ b \in BlockType /\ b.valid /\ b.line = l
  BY BlockIs DEF Good
<1>2. PICK x \in BlockType, y \in BlockType : c.ways[s] = <<x, y>>
  BY <1>1 DEF State, WaysType
<1>3. c.ways[s][1] = x /\ c.ways[s][2] = y
  BY <1>2
<1>4. /\ x.valid => x.line \in Line /\ SetOf[x.line] = s
      /\ y.valid => y.line \in Line /\ SetOf[y.line] = s
  BY <1>1, <1>3 DEF Placed
<1>5. /\ c.ways \in WaysType
      /\ c.victim \in VictimsType
      /\ c.head \in VictimIdx /\ c.miss \in TableType
  BY <1>1, StateIs
<1>6. \A q \in Line : SetOf[q] = s => /\ Way(c, q, 1) <=> x.valid /\ x.line = q
                                      /\ Way(c, q, 2) <=> y.valid /\ y.line = q
  BY <1>2 DEF Way
<1>7. SetOf[l] = s
  OBVIOUS
<1>8. x \in Blocks(c) /\ y \in Blocks(c)
  BY <1>1, <1>3 DEF Blocks
<1>9. \A j \in VictimIdx : c.victim[j] \in Blocks(c)
  BY DEF Blocks
<1> HIDE DEF b, s
<1>10. CASE ~x.valid
  <2>1. r = WithFirst(c, s, b)
    BY <1>10, <1>3 DEF Insert, WithFirst, s, b
  <2>2. r = Mk(PutSet(c.ways, s, b, y), c.victim, c.head, c.miss)
    BY <1>1, <1>3, <2>1, FirstUpdate
  <2>3. /\ r \in State /\ Moved(c, r, s, b, y)
        /\ r.victim = c.victim /\ r.miss = c.miss
    BY <1>1, <1>5, <2>2, MovedIs
  <2> HIDE DEF r
  <2>4. Placed(r)
    BY <1>1, <1>4, <1>7, <2>3, PlacedWays DEF Placed
  <2>5. ASSUME NEW q \in Line
        PROVE  /\ Way(r, q, 1) <=> q = l \/ (SetOf[q] # s /\ Way(c, q, 1))
               /\ Way(r, q, 2) <=> Way(c, q, 2)
               /\ VictimsOf(r, q) = VictimsOf(c, q)
               /\ Fetches(r, q) = Fetches(c, q)
    <3>1. VictimsOf(r, q) = VictimsOf(c, q) /\ Fetches(r, q) = Fetches(c, q)
      BY <2>3 DEF VictimsOf, Fetches
    <3>2. CASE SetOf[q] = s
      <4>1. Way(r, q, 1) <=> b.valid /\ b.line = q
        BY <1>1, <2>3, <3>2, WayIs
      <4>2. Way(r, q, 2) <=> y.valid /\ y.line = q
        BY <1>1, <2>3, <3>2, WayIs
      <4>3. (q = l) <=> Way(r, q, 1)
        BY <1>1, <4>1
      <4>4. Way(r, q, 2) <=> Way(c, q, 2)
        BY <1>6, <3>2, <4>2
      <4>. QED  BY <3>1, <3>2, <4>3, <4>4
    <3>3. CASE SetOf[q] # s
      BY <1>1, <1>7, <2>3, <3>1, <3>3, WayIs
    <3>. QED  BY <3>2, <3>3
  <2>6. Single(r)
    <3>1. ASSUME NEW q \in Line, q = l PROVE SingleAt(r, q)
      BY <1>1, <2>5, <3>1 DEF SingleAt, Hit
    <3>2. ASSUME NEW q \in Line, q # l PROVE SingleAt(r, q)
      <4>1. (Way(r, q, 1) => Way(c, q, 1)) /\ (Way(r, q, 2) <=> Way(c, q, 2))
        BY <2>5, <3>2
      <4>2. VictimsOf(r, q) = VictimsOf(c, q) /\ Fetches(r, q) = Fetches(c, q)
        BY <2>5
      <4>3. SingleAt(c, q)
        BY <1>1 DEF Single
      <4>. QED  BY <4>1, <4>2, <4>3 DEF SingleAt, Hit
    <3>. QED  BY <3>1, <3>2 DEF Single
  <2>7. Blocks(r) \subseteq Blocks(c) \cup {b}
    BY <1>1, <1>8, <1>9, <2>3, MovedBlocks
  <2>. QED  BY <2>3, <2>4, <2>6, <2>7 DEF Good, r, b
<1>11. CASE x.valid /\ ~y.valid
  <2>1. r = WithSet(c, s, b, x)
    BY <1>3, <1>11 DEF Insert, WithSet, s, b
  <2>2. r = Mk(PutSet(c.ways, s, b, x), c.victim, c.head, c.miss)
    BY <1>1, <2>1, SetUpdate
  <2>3. /\ r \in State /\ Moved(c, r, s, b, x)
        /\ r.victim = c.victim /\ r.miss = c.miss
    BY <1>1, <1>5, <2>2, MovedIs
  <2> HIDE DEF r
  <2>4. Placed(r)
    BY <1>1, <1>4, <1>7, <2>3, PlacedWays DEF Placed
  <2>5. ASSUME NEW q \in Line
        PROVE  /\ Way(r, q, 1) <=> q = l \/ (SetOf[q] # s /\ Way(c, q, 1))
               /\ Way(r, q, 2) <=> IF SetOf[q] = s THEN Way(c, q, 1)
                                   ELSE Way(c, q, 2)
               /\ VictimsOf(r, q) = VictimsOf(c, q)
               /\ Fetches(r, q) = Fetches(c, q)
    <3>1. VictimsOf(r, q) = VictimsOf(c, q) /\ Fetches(r, q) = Fetches(c, q)
      BY <2>3 DEF VictimsOf, Fetches
    <3>2. CASE SetOf[q] = s
      <4>1. Way(r, q, 1) <=> b.valid /\ b.line = q
        BY <1>1, <2>3, <3>2, WayIs
      <4>2. Way(r, q, 2) <=> x.valid /\ x.line = q
        BY <1>1, <2>3, <3>2, WayIs
      <4>3. (q = l) <=> Way(r, q, 1)
        BY <1>1, <4>1
      <4>4. Way(r, q, 2) <=> Way(c, q, 1)
        BY <1>6, <3>2, <4>2
      <4>. QED  BY <3>1, <3>2, <4>3, <4>4
    <3>3. CASE SetOf[q] # s
      BY <1>1, <1>7, <2>3, <3>1, <3>3, WayIs
    <3>. QED  BY <3>2, <3>3
  <2>6. Single(r)
    <3>1. ASSUME NEW q \in Line, q = l PROVE SingleAt(r, q)
      BY <1>1, <1>7, <2>5, <3>1 DEF SingleAt, Hit
    <3>2. ASSUME NEW q \in Line, q # l PROVE SingleAt(r, q)
      <4>1. /\ ~(Way(r, q, 1) /\ Way(r, q, 2))
            /\ Way(r, q, 1) \/ Way(r, q, 2) => Way(c, q, 1) \/ Way(c, q, 2)
        BY <1>1, <2>5, <3>2 DEF Single, SingleAt
      <4>2. VictimsOf(r, q) = VictimsOf(c, q) /\ Fetches(r, q) = Fetches(c, q)
        BY <2>5
      <4>3. SingleAt(c, q)
        BY <1>1 DEF Single
      <4>. QED  BY <4>1, <4>2, <4>3 DEF SingleAt, Hit
    <3>. QED  BY <3>1, <3>2 DEF Single
  <2>7. Blocks(r) \subseteq Blocks(c) \cup {b}
    BY <1>1, <1>8, <1>9, <2>3, MovedBlocks
  <2>. QED  BY <2>3, <2>4, <2>6, <2>7 DEF Good, r, b
<1>12. CASE x.valid /\ y.valid
  <2> DEFINE h == c.head
             v == PutVictim(c.victim, h, y)
             g == (h + 1) % VICTIMS
  <2>1. r = WithVictim(c, s, b, x, h, y, g)
    BY <1>3, <1>12 DEF Insert, WithVictim, s, b
  <2>2. r = Mk(PutSet(c.ways, s, b, x), v, g, c.miss)
    BY <1>1, <1>5, <2>1, VictimUpdate
  <2>3. v \in VictimsType
    BY <1>5, VictimChanged
  <2>4. g \in VictimIdx
    BY <1>5 DEF VictimIdx
  <2>5. v \in VictimsType /\ g \in VictimIdx
    BY <2>3, <2>4
  <2> HIDE DEF v, g
  <2>6. /\ r \in State /\ Moved(c, r, s, b, x)
        /\ r.victim = v /\ r.miss = c.miss
    BY <1>1, <2>2, <2>5, MovedIs
  <2> HIDE DEF r
  <2>7. Placed(r)
    <3>1. v[h] = y /\ \A i \in VictimIdx : i # h => v[i] = c.victim[i]
      BY <1>5, VictimChanged DEF v
    <3>2. \A i \in VictimIdx : c.victim[i].valid => c.victim[i].line \in Line
      BY <1>1 DEF Placed
    <3>3. \A i \in VictimIdx : r.victim[i].valid => r.victim[i].line \in Line
      BY <1>4, <2>6, <3>1, <3>2
    <3>. QED  BY <1>1, <1>4, <1>7, <2>6, <3>3, PlacedWays
  <2>8. ASSUME NEW q \in Line
        PROVE  /\ Way(r, q, 1) <=> q = l \/ (SetOf[q] # s /\ Way(c, q, 1))
               /\ Way(r, q, 2) <=> IF SetOf[q] = s THEN Way(c, q, 1)
                                   ELSE Way(c, q, 2)
               /\ VictimsOf(r, q) = IF SetOf[q] = s /\ Way(c, q, 2)
                                    THEN VictimsOf(c, q) \cup {h}
                                    ELSE VictimsOf(c, q) \ {h}
               /\ Fetches(r, q) = Fetches(c, q)
    <3>1. VictimsOf(r, q) = IF y.line = q THEN VictimsOf(c, q) \cup {h}
                            ELSE VictimsOf(c, q) \ {h}
      BY <1>5, <1>12, <2>6, VictimsIs DEF v
    <3>2. Fetches(r, q) = Fetches(c, q)
      BY <2>6 DEF Fetches
    <3>3. CASE SetOf[q] = s
      <4>1. Way(r, q, 1) <=> b.valid /\ b.line = q
        BY <1>1, <2>6, <3>3, WayIs
      <4>2. Way(r, q, 2) <=> x.valid /\ x.line = q
        BY <1>1, <2>6, <3>3, WayIs
      <4>3. (q = l) <=> Way(r, q, 1)
        BY <1>1, <4>1
      <4>4. Way(r, q, 2) <=> Way(c, q, 1)
        BY <1>6, <3>3, <4>2
      <4>5. (y.line = q) <=> Way(c, q, 2)
        BY <1>6, <1>12, <3>3
      <4>. QED  BY <3>1, <3>3, <3>2, <4>3, <4>4, <4>5
    <3>4. CASE SetOf[q] # s
      <4>1. y.line # q
        BY <1>4, <1>12, <3>4
      <4>2. q # l
        BY <1>7, <3>4
      <4>3. (Way(r, q, 1) <=> Way(c, q, 1)) /\ (Way(r, q, 2) <=> Way(c, q, 2))
        BY <1>1, <2>6, <3>4, WayIs
      <4>. QED  BY <3>1, <3>4, <3>2, <4>1, <4>2, <4>3
    <3>. QED  BY <3>3, <3>4
  <2>9. Single(r)
    <3>1. ASSUME NEW q \in Line, q = l PROVE SingleAt(r, q)
      BY <1>1, <1>7, <2>8, <3>1 DEF SingleAt, Hit
    <3>2. ASSUME NEW q \in Line, q # l, ~(SetOf[q] = s /\ Way(c, q, 2))
          PROVE  SingleAt(r, q)
      <4>1. /\ ~(Way(r, q, 1) /\ Way(r, q, 2))
            /\ Way(r, q, 1) \/ Way(r, q, 2) => Way(c, q, 1) \/ Way(c, q, 2)
        BY <1>1, <2>8, <3>2 DEF Single, SingleAt
      <4>2. /\ VictimsOf(r, q) \subseteq VictimsOf(c, q)
            /\ Fetches(r, q) = Fetches(c, q)
        BY <2>8, <3>2
      <4>3. SingleAt(c, q)
        BY <1>1 DEF Single
      <4>. QED  BY <4>1, <4>2, <4>3 DEF SingleAt, Hit
    <3>3. ASSUME NEW q \in Line, q # l, SetOf[q] = s, Way(c, q, 2)
          PROVE  SingleAt(r, q)
      <4>1. SingleAt(c, q)
        BY <1>1 DEF Single
      <4>2. /\ ~Way(c, q, 1) /\ VictimsOf(c, q) = {} /\ Fetches(c, q) = {}
        BY <3>3, <4>1 DEF SingleAt, Hit
      <4>3. /\ ~Way(r, q, 1) /\ ~Way(r, q, 2)
            /\ VictimsOf(r, q) = {h} /\ Fetches(r, q) = {}
        BY <2>8, <3>3, <4>2
      <4>. QED  BY <4>3 DEF SingleAt, Hit
    <3>. QED  BY <3>1, <3>2, <3>3 DEF Single
  <2>10. \A j \in VictimIdx : r.victim[j] \in Blocks(c)
    <3>1. v[h] = y /\ \A j \in VictimIdx : j # h => v[j] = c.victim[j]
      BY <1>5, VictimChanged DEF v
    <3>. QED  BY <1>8, <1>9, <2>6, <3>1
  <2>11. Blocks(r) \subseteq Blocks(c) \cup {b}
    BY <1>1, <1>8, <1>9, <2>6, <2>10, MovedBlocks
  <2>. QED  BY <2>6, <2>7, <2>9, <2>11 DEF Good, r, b
<1>. QED  BY <1>10, <1>11, <1>12 DEF BlockType

\* Every entry of the table is written as a whole.
PutMiss(m, i, e) == [m EXCEPT ![i] = e]
WithMiss(c, i, e) == [c EXCEPT !.miss[i] = e]

\* No request is marked as sent but those that were.
Kept(c, r) ==
  \A i \in MissIdx :
    r.miss[i].valid /\ r.miss[i].sent => r.miss[i] = c.miss[i]

LEMMA MissUpdate ==
  ASSUME NEW c \in State, NEW i \in MissIdx, NEW e \in MissType
  PROVE  LET r == WithMiss(c, i, e)
         IN  /\ r \in State /\ r.miss[i] = e
             /\ \A j \in MissIdx : j # i => r.miss[j] = c.miss[j]
             /\ r.ways = c.ways /\ r.victim = c.victim /\ r.head = c.head
<1> DEFINE m == PutMiss(c.miss, i, e)
<1>1. /\ c.ways \in WaysType /\ c.victim \in VictimsType
      /\ c.head \in VictimIdx /\ c.miss \in TableType
  BY StateIs
<1>2. /\ m \in TableType /\ m[i] = e
      /\ \A j \in MissIdx : j # i => m[j] = c.miss[j]
  BY <1>1 DEF PutMiss, TableType
<1>3. WithMiss(c, i, e) = Mk(c.ways, c.victim, c.head, m)
  BY DEF WithMiss, PutMiss, State, Mk
<1> HIDE DEF m
<1>. QED  BY <1>1, <1>2, <1>3, MkIs

\* An entry may be emptied, made a store, or made the fetch of a line that is
\* nowhere and that nobody else fetches.
LEMMA EntryGood ==
  ASSUME NEW c, Good(c), NEW i \in MissIdx, NEW e \in MissType,
         e.valid => e.line \in Line,
         e.valid /\ e.op = "load" =>
           ~Hit(c, e.line) /\ Fetches(c, e.line) = {}
  PROVE  LET r == WithMiss(c, i, e)
         IN  /\ Good(r)
             /\ \A q \in Line :
                  /\ Hit(r, q) <=> Hit(c, q)
                  /\ ~(e.valid /\ e.op = "load") =>
                       Fetches(r, q) = Fetches(c, q) \ {i}
             /\ r.miss[i] = e
             /\ \A j \in MissIdx : j # i => r.miss[j] = c.miss[j]
             /\ ~(e.valid /\ e.sent) => Kept(c, r)
             /\ Blocks(r) = Blocks(c)
<1> DEFINE r == WithMiss(c, i, e)
<1>1. c \in State /\ Placed(c) /\ Single(c)
  BY DEF Good
<1>2. /\ r \in State /\ r.miss[i] = e
      /\ \A j \in MissIdx : j # i => r.miss[j] = c.miss[j]
      /\ r.ways = c.ways /\ r.victim = c.victim /\ r.head = c.head
  BY <1>1, MissUpdate
<1> HIDE DEF r
<1>3. Placed(r)
  BY <1>1, <1>2 DEF Placed
<1>4. ASSUME NEW q \in Line
      PROVE  /\ Way(r, q, 1) <=> Way(c, q, 1)
             /\ Way(r, q, 2) <=> Way(c, q, 2)
             /\ VictimsOf(r, q) = VictimsOf(c, q)
  BY <1>2 DEF Way, VictimsOf
<1>5. ASSUME NEW q \in Line, e.valid, e.line = q, e.op = "load"
      PROVE  Fetches(r, q) = {i}
  BY <1>2, <1>5 DEF Fetches
<1>6. ASSUME NEW q \in Line, ~(e.valid /\ e.line = q /\ e.op = "load")
      PROVE  Fetches(r, q) = Fetches(c, q) \ {i}
  BY <1>2, <1>6 DEF Fetches
<1>7. ASSUME NEW q \in Line PROVE SingleAt(r, q)
  <2>1. SingleAt(c, q)
    BY <1>1 DEF Single
  <2>2. CASE e.valid /\ e.line = q /\ e.op = "load"
    BY <1>4, <1>5, <2>1, <2>2 DEF SingleAt, Hit
  <2>3. CASE ~(e.valid /\ e.line = q /\ e.op = "load")
    BY <1>4, <1>6, <2>1, <2>3 DEF SingleAt, Hit
  <2>. QED  BY <2>2, <2>3
<1>8. ~(e.valid /\ e.sent) => Kept(c, r)
  BY <1>2 DEF Kept
<1>9. Blocks(r) = Blocks(c)
  BY <1>2 DEF Blocks
<1>. QED  BY <1>2, <1>3, <1>4, <1>6, <1>7, <1>8, <1>9 DEF Good, Single, Hit, r

\* A line that is missed is asked for once.
LEMMA AskGood ==
  ASSUME NEW c, Good(c), NEW l \in Line, ~Hit(c, l)
  PROVE  Good(Ask(c, l)) /\ Kept(c, Ask(c, l))
<1>1. CASE Fetching(c, l) \/ Free(c) = {}
  BY <1>1 DEF Ask, Kept
<1>2. CASE ~Fetching(c, l) /\ Free(c) # {}
  <2> DEFINE i == Lowest(Free(c))
             e == Miss(l, 0, "load")
  <2>1. i \in MissIdx
    BY <1>2, LowestMiss DEF Free
  <2>2. /\ e \in MissType /\ e.valid /\ e.line = l /\ e.op = "load"
        /\ ~e.sent
    BY DEF Miss, MissType
  <2>3. Fetches(c, l) = {}
    BY <1>2 DEF Fetches, Fetching
  <2>4. Ask(c, l) = WithMiss(c, i, e)
    BY <1>2 DEF Ask, WithMiss
  <2> HIDE DEF i, e
  <2>. QED  BY <2>1, <2>2, <2>3, <2>4, EntryGood
<1>. QED  BY <1>1, <1>2

\* The store of the cycle is of a line, of data.
StoreType ==
  {NoStore}
  \cup {[valid |-> TRUE, line |-> l, value |-> v] : l \in Line, v \in Data}
LoadType == {NoLoad} \cup {[valid |-> TRUE, line |-> l] : l \in Line}

LEMMA TabledGood ==
  ASSUME NEW c, Good(c), lsq_store_dc \in StoreType, lsq_store_dc.valid
  PROVE  Good(Tabled(c)) /\ Kept(c, Tabled(c))
<1> DEFINE l == lsq_store_dc.line
           v == lsq_store_dc.value
<1>1. l \in Line /\ v \in Data
  <2>1. lsq_store_dc # NoStore
    BY DEF NoStore
  <2>. QED  BY <2>1 DEF StoreType
<1>2. c \in State /\ Placed(c) /\ c.miss \in TableType
  BY StateIs DEF Good
<1>3. CASE Merges(c) # {}
  <2> DEFINE i == Lowest(Merges(c))
             e == [c.miss[i] EXCEPT !.value = v]
  <2>1. i \in MissIdx /\ i \in Merges(c)
    BY <1>3, LowestMiss DEF Merges
  <2>2. /\ c.miss[i] \in MissType /\ ~c.miss[i].sent
        /\ c.miss[i].op = "store" /\ c.miss[i].line = l
    BY <1>2, <2>1 DEF Merges, TableType
  <2>3. e \in MissType /\ e.line = l /\ e.op = "store" /\ ~e.sent
    BY <1>1, <2>2 DEF MissType
  <2>4. Tabled(c) = WithMiss(c, i, e)
    <3>1. Tabled(c) = [c EXCEPT !.miss[i].value = v]
      BY <1>3 DEF Tabled
    <3>. QED  BY <3>1 DEF WithMiss
  <2> HIDE DEF i, e
  <2>. QED  BY <1>1, <2>1, <2>3, <2>4, EntryGood
<1>4. CASE Merges(c) = {} /\ Free(c) # {}
  <2> DEFINE i == Lowest(Free(c))
             e == Miss(l, v, "store")
  <2>1. i \in MissIdx
    BY <1>4, LowestMiss DEF Free
  <2>2. e \in MissType /\ e.line = l /\ e.op = "store" /\ ~e.sent
    BY <1>1 DEF Miss, MissType
  <2>3. Tabled(c) = WithMiss(c, i, e)
    BY <1>4 DEF Tabled, WithMiss
  <2> HIDE DEF i, e
  <2>. QED  BY <1>1, <2>1, <2>2, <2>3, EntryGood
<1>. QED  BY <1>3, <1>4 DEF Tabled, Kept

\* A line that is somewhere moves to the first way.
LEMMA TouchGood ==
  ASSUME NEW c, Good(c), NEW l \in Line, NEW d \in Content, Hit(c, l)
  PROVE  /\ Good(Touch(c, l, d)) /\ Touch(c, l, d).miss = c.miss
         /\ Blocks(Touch(c, l, d)) \subseteq Blocks(c) \cup {Block(l, d)}
         /\ Touch(c, l, d).ways[SetOf[l]][1] = Block(l, d)
<1> DEFINE s == SetOf[l]
           r == Touch(c, l, d)
           b == Block(l, d)
           i == Lowest(VictimsOf(c, l))
<1>1. /\ s \in Set /\ c \in State /\ Placed(c) /\ Single(c)
      /\ b \in BlockType /\ b.valid /\ b.line = l /\ SetOf[l] = s
  BY BlockIs DEF Good
<1>2. PICK x \in BlockType, y \in BlockType : c.ways[s] = <<x, y>>
  BY <1>1 DEF State, WaysType
<1>3. c.ways[s][1] = x /\ c.ways[s][2] = y
  BY <1>2
<1>4. /\ x.valid => x.line \in Line /\ SetOf[x.line] = s
      /\ y.valid => y.line \in Line /\ SetOf[y.line] = s
  BY <1>1, <1>3 DEF Placed
<1>5. /\ c.ways \in WaysType
      /\ c.victim \in VictimsType
      /\ c.head \in VictimIdx /\ c.miss \in TableType
  BY <1>1, StateIs
<1>6. \A q \in Line : SetOf[q] = s => /\ Way(c, q, 1) <=> x.valid /\ x.line = q
                                      /\ Way(c, q, 2) <=> y.valid /\ y.line = q
  BY <1>2 DEF Way
<1>7. SingleAt(c, l)
  BY <1>1 DEF Single
<1>8. \A j \in VictimIdx : c.victim[j].valid => c.victim[j].line \in Line
  BY <1>1 DEF Placed
<1>9. x \in Blocks(c) /\ y \in Blocks(c)
  BY <1>1, <1>3 DEF Blocks
<1>10. \A j \in VictimIdx : c.victim[j] \in Blocks(c)
  BY DEF Blocks
<1> HIDE DEF b, s
<1>11. CASE Way(c, l, 1)
  <2>1. r = WithFirst(c, s, b)
    BY <1>11 DEF Touch, WithFirst, s, b
  <2>2. r = Mk(PutSet(c.ways, s, b, y), c.victim, c.head, c.miss)
    BY <1>1, <1>3, <2>1, FirstUpdate
  <2>3. /\ r \in State /\ Moved(c, r, s, b, y)
        /\ r.victim = c.victim /\ r.miss = c.miss
    BY <1>1, <1>5, <2>2, MovedIs
  <2> HIDE DEF r
  <2>4. Placed(r)
    BY <1>1, <1>4, <1>8, <2>3, PlacedWays
  <2>5. x.valid /\ x.line = l
    BY <1>1, <1>6, <1>11
  <2>6. ASSUME NEW q \in Line PROVE SingleAt(r, q)
    <3>1. VictimsOf(r, q) = VictimsOf(c, q) /\ Fetches(r, q) = Fetches(c, q)
      BY <2>3 DEF VictimsOf, Fetches
    <3>2. (Way(r, q, 1) <=> Way(c, q, 1)) /\ (Way(r, q, 2) <=> Way(c, q, 2))
      <4>1. CASE SetOf[q] = s
        BY <1>1, <1>6, <2>3, <2>5, <4>1, WayIs
      <4>2. CASE SetOf[q] # s
        BY <1>1, <2>3, <4>2, WayIs
      <4>. QED  BY <4>1, <4>2
    <3>3. SingleAt(c, q)
      BY <1>1 DEF Single
    <3>. QED  BY <3>1, <3>2, <3>3 DEF SingleAt, Hit
  <2>7. Blocks(r) \subseteq Blocks(c) \cup {b}
    BY <1>1, <1>9, <1>10, <2>3, MovedBlocks
  <2>. QED  BY <2>3, <2>4, <2>6, <2>7 DEF Good, Single, Moved, r, b, s
<1>12. CASE ~Way(c, l, 1) /\ Way(c, l, 2)
  <2>1. r = [c EXCEPT !.ways[s] = <<b, @[1]>>]
    BY <1>12 DEF Touch, s, b
  <2>2. r = WithSet(c, s, b, x)
    BY <1>3, <2>1 DEF WithSet
  <2>3. r = Mk(PutSet(c.ways, s, b, x), c.victim, c.head, c.miss)
    BY <1>1, <2>2, SetUpdate
  <2>4. /\ r \in State /\ Moved(c, r, s, b, x)
        /\ r.victim = c.victim /\ r.miss = c.miss
    BY <1>1, <1>5, <2>3, MovedIs
  <2> HIDE DEF r
  <2>5. Placed(r)
    BY <1>1, <1>4, <1>8, <2>4, PlacedWays
  <2>6. y.valid /\ y.line = l
    BY <1>1, <1>6, <1>12
  <2>7. ASSUME NEW q \in Line PROVE SingleAt(r, q)
    <3>1. VictimsOf(r, q) = VictimsOf(c, q) /\ Fetches(r, q) = Fetches(c, q)
      BY <2>4 DEF VictimsOf, Fetches
    <3>2. SingleAt(c, q)
      BY <1>1 DEF Single
    <3>3. CASE SetOf[q] = s
      <4>1. (Way(r, q, 1) <=> Way(c, q, 2)) /\ (Way(r, q, 2) <=> Way(c, q, 1))
        BY <1>1, <1>6, <2>4, <2>6, <3>3, WayIs
      <4>. QED  BY <3>1, <3>2, <4>1 DEF SingleAt, Hit
    <3>4. CASE SetOf[q] # s
      <4>1. (Way(r, q, 1) <=> Way(c, q, 1)) /\ (Way(r, q, 2) <=> Way(c, q, 2))
        BY <1>1, <2>4, <3>4, WayIs
      <4>. QED  BY <3>1, <3>2, <4>1 DEF SingleAt, Hit
    <3>. QED  BY <3>3, <3>4
  <2>8. Blocks(r) \subseteq Blocks(c) \cup {b}
    BY <1>1, <1>9, <1>10, <2>4, MovedBlocks
  <2>. QED  BY <2>4, <2>5, <2>7, <2>8 DEF Good, Single, Moved, r, b, s
<1>13. CASE ~Way(c, l, 1) /\ ~Way(c, l, 2)
  <2> DEFINE v == PutVictim(c.victim, i, y)
             g == IF y.valid THEN (i + 1) % VICTIMS ELSE i
  <2>1. /\ i \in VictimIdx /\ VictimsOf(c, l) = {i}
        /\ Fetches(c, l) = {}
    <3>1. i \in VictimsOf(c, l)
      BY <1>13, LowestVictim DEF Hit, VictimsOf
    <3>. QED  BY <1>7, <3>1 DEF SingleAt, VictimsOf
  <2>2. r = WithVictim(c, s, b, x, i, y, g)
    <3>1. r = [c EXCEPT !.ways[s] = <<b, @[1]>>, !.victim[i] = c.ways[s][2],
                        !.head = IF c.ways[s][2].valid THEN (i + 1) % VICTIMS
                                 ELSE i]
      BY <1>13 DEF Touch, s, b
    <3>. QED  BY <1>3, <3>1 DEF WithVictim
  <2> HIDE DEF i
  <2>3. v \in VictimsType
    BY <1>5, <2>1, VictimChanged
  <2>4. g \in VictimIdx
    BY <2>1 DEF VictimIdx
  <2>5. v \in VictimsType /\ g \in VictimIdx
    BY <2>3, <2>4
  <2>6. r = Mk(PutSet(c.ways, s, b, x), v, g, c.miss)
    BY <1>1, <2>1, <2>2, VictimUpdate
  <2>7. v[i] = y /\ \A j \in VictimIdx : j # i => v[j] = c.victim[j]
    BY <1>5, <2>1, VictimChanged DEF v
  <2> HIDE DEF g
  <2>8. v = PutVictim(c.victim, i, y)
    OBVIOUS
  <2> HIDE DEF v
  <2>9. /\ r \in State /\ Moved(c, r, s, b, x)
        /\ r.victim = v /\ r.miss = c.miss
    BY <1>1, <2>5, <2>6, MovedIs
  <2> HIDE DEF r
  <2>10. Placed(r)
    <3>1. \A j \in VictimIdx : r.victim[j].valid => r.victim[j].line \in Line
      BY <1>4, <1>8, <2>9, <2>7
    <3>. QED  BY <1>1, <1>4, <2>9, <3>1, PlacedWays
  <2>11. ASSUME NEW q \in Line
        PROVE  /\ VictimsOf(r, q) = IF y.valid /\ y.line = q
                                    THEN VictimsOf(c, q) \cup {i}
                                    ELSE VictimsOf(c, q) \ {i}
               /\ Fetches(r, q) = Fetches(c, q)
    <3>1. Fetches(r, q) = Fetches(c, q)
      BY <2>9 DEF Fetches
    <3>. QED  BY <1>5, <2>1, <2>9, <2>8, <3>1, VictimsIs
  <2>12. ASSUME NEW q \in Line PROVE SingleAt(r, q)
    <3>1. SingleAt(c, q)
      BY <1>1 DEF Single
    <3>2. CASE q = l
      <4>1. Way(r, q, 1) /\ ~Way(r, q, 2)
        BY <1>1, <1>6, <1>13, <2>9, <3>2, WayIs
      <4>2. VictimsOf(r, q) = {}
        BY <1>1, <1>6, <1>13, <2>1, <2>11, <3>2
      <4>. QED  BY <2>1, <2>11, <3>2, <4>1, <4>2 DEF SingleAt
    <3>3. CASE q # l /\ SetOf[q] = s
      <4>1. /\ Way(r, q, 1) <=> b.valid /\ b.line = q
            /\ Way(r, q, 2) <=> x.valid /\ x.line = q
        BY <1>1, <2>9, <3>3, WayIs
      <4>2. ~Way(r, q, 1) /\ (Way(r, q, 2) <=> Way(c, q, 1))
        BY <1>1, <1>6, <3>3, <4>1
      <4>3. VictimsOf(r, q) = IF Way(c, q, 2) THEN VictimsOf(c, q) \cup {i}
                              ELSE VictimsOf(c, q) \ {i}
        BY <1>6, <2>11, <3>3
      <4>4. Fetches(r, q) = Fetches(c, q)
        BY <2>11
      <4>5. CASE Way(c, q, 2)
        BY <3>1, <4>2, <4>3, <4>4, <4>5 DEF SingleAt, Hit
      <4>6. CASE ~Way(c, q, 2)
        BY <3>1, <4>2, <4>3, <4>4, <4>6 DEF SingleAt, Hit
      <4>. QED  BY <4>5, <4>6
    <3>4. CASE SetOf[q] # s
      <4>1. (Way(r, q, 1) <=> Way(c, q, 1)) /\ (Way(r, q, 2) <=> Way(c, q, 2))
        BY <1>1, <2>9, <3>4, WayIs
      <4>2. ~(y.valid /\ y.line = q)
        BY <1>4, <3>4
      <4>3. /\ VictimsOf(r, q) \subseteq VictimsOf(c, q)
            /\ Fetches(r, q) = Fetches(c, q)
        BY <2>11, <4>2
      <4>. QED  BY <3>1, <4>1, <4>3 DEF SingleAt, Hit
    <3>. QED  BY <3>2, <3>3, <3>4
  <2>13. \A j \in VictimIdx : r.victim[j] \in Blocks(c)
    BY <1>9, <1>10, <2>7, <2>9
  <2>14. Blocks(r) \subseteq Blocks(c) \cup {b}
    BY <1>1, <1>9, <1>10, <2>9, <2>13, MovedBlocks
  <2>. QED  BY <2>9, <2>10, <2>12, <2>14 DEF Good, Single, Moved, r, b, s
<1>. QED  BY <1>11, <1>12, <1>13

LEMMA DataOfIs ==
  ASSUME NEW c, Good(c), NEW l \in Line, Hit(c, l)
  PROVE  DataOf(c, l) \in Content
<1>1. c.ways \in WaysType /\ c.victim \in VictimsType /\ SetOf[l] \in Set
  BY StateIs DEF Good
<1>2. \A k \in 1 .. 2 : c.ways[SetOf[l]][k].data \in Content
  BY <1>1 DEF WaysType, BlockType
<1>3. CASE VictimsOf(c, l) # {}
  <2>1. Lowest(VictimsOf(c, l)) \in VictimIdx
    BY <1>3, LowestVictim DEF VictimsOf
  <2>2. c.victim[Lowest(VictimsOf(c, l))].data \in Content
    BY <1>1, <2>1 DEF VictimsType, BlockType
  <2>. QED  BY <1>2, <2>2 DEF DataOf
<1>4. CASE VictimsOf(c, l) = {}
  BY <1>2, <1>4 DEF DataOf, Hit
<1>. QED  BY <1>3, <1>4

-----------------------------------------------------------------------------
(* A cycle.                                                                *)

\* What the registers of the cache hold.
Cache == Mk(ways, victim, victim_head, miss_entries)

\* What the bus shows, and what is under way.
Received == Data \cup {Instr}
BusType == [tag : 0 .. NUM_MEM_TAGS, data : Received]
TransactionType ==
  [tag : MemTag, op : {"load", "store", "ifetch"}, line : Line \cup {NoLine},
   data : Received]

LEMMA DroppedGood ==
  ASSUME Good(Cache)
  PROVE  /\ Good(Mk(ways, victim, victim_head, Dropped))
         /\ \A i \in MissIdx : Dropped[i].valid =>
              /\ Dropped[i] = miss_entries[i]
              /\ Dropped[i].sent => Dropped[i].op = "load"
<1> DEFINE c == Cache
           r == Mk(ways, victim, victim_head, Dropped)
<1>1. c \in State /\ Placed(c) /\ Single(c)
  BY DEF Good
<1>2. /\ c.ways = ways /\ c.victim = victim
      /\ c.head = victim_head /\ c.miss = miss_entries
  BY DEF Cache, Mk
<1>3. /\ ways \in WaysType /\ victim \in VictimsType
      /\ victim_head \in VictimIdx /\ miss_entries \in TableType
  BY <1>1, <1>2, StateIs
<1>4. NoMiss \in MissType /\ ~NoMiss.valid
  BY DEF NoMiss, MissType
<1>5. ASSUME NEW i \in MissIdx
      PROVE  /\ miss_entries[i] \in MissType
             /\ Dropped[i] \in MissType
             /\ Dropped[i].valid /\ Dropped[i].sent => Dropped[i].op = "load"
             /\ Dropped[i].valid => Dropped[i] = miss_entries[i]
  <2>1. miss_entries[i] \in MissType
    BY <1>3 DEF TableType
  <2>2. /\ miss_entries[i].valid \in BOOLEAN
        /\ miss_entries[i].sent \in BOOLEAN
        /\ miss_entries[i].op \in {"load", "store"}
    BY <2>1 DEF MissType
  <2>. QED  BY <1>4, <2>1, <2>2 DEF Dropped
<1>6. Dropped \in TableType
  <2>1. DOMAIN Dropped = MissIdx /\ Dropped = [i \in MissIdx |-> Dropped[i]]
    BY DEF Dropped
  <2>. QED  BY <1>5, <2>1 DEF TableType
<1>7. /\ r \in State /\ r.ways = c.ways /\ r.victim = c.victim
      /\ r.head = c.head /\ r.miss = Dropped
  BY <1>2, <1>3, <1>6, MkIs
<1> HIDE DEF c, r
<1>8. Placed(r)
  BY <1>1, <1>2, <1>5, <1>7 DEF Placed
<1>9. ASSUME NEW q \in Line PROVE SingleAt(r, q)
  <2>1. SingleAt(c, q)
    BY <1>1 DEF Single
  <2>2. /\ Way(r, q, 1) <=> Way(c, q, 1)
        /\ Way(r, q, 2) <=> Way(c, q, 2)
        /\ VictimsOf(r, q) = VictimsOf(c, q)
    BY <1>7 DEF Way, VictimsOf
  <2>3. Fetches(r, q) \subseteq Fetches(c, q)
    BY <1>2, <1>5, <1>7 DEF Fetches
  <2>. QED  BY <2>1, <2>2, <2>3 DEF SingleAt, Hit
<1>. QED  BY <1>5, <1>7, <1>8, <1>9 DEF Good, Single, r

LEMMA FillGood ==
  ASSUME Good(Cache), NEW b \in BusType,
         Returned(b) # {} => b.data \in Content
  PROVE  /\ Good(Fill(b))
         /\ \A j \in MissIdx :
              LET e == Fill(b).miss[j]
              IN  e.valid => /\ e = Dropped[j]
                             /\ j # Lowest(Returned(b)) \/ Returned(b) = {}
         /\ \A j \in MissIdx :
              Dropped[j].valid /\ ~Dropped[j].sent =>
                Fill(b).miss[j] = Dropped[j]
         /\ \A x \in Blocks(Fill(b)) :
              \/ x \in Blocks(Cache)
              \/ /\ Returned(b) # {}
                 /\ x = Block(Dropped[Lowest(Returned(b))].line, b.data)
<1> DEFINE c == Mk(ways, victim, victim_head, Dropped)
           i == Lowest(Returned(b))
           e == [Dropped[i] EXCEPT !.valid = FALSE]
           l == Dropped[i].line
           r == WithMiss(c, i, e)
<1>1. Good(c) /\ c.miss = Dropped
  BY DroppedGood DEF Mk
<1>2. Blocks(c) = Blocks(Cache)
  BY DEF Blocks, Cache, Mk
<1>3. CASE Returned(b) = {}
  BY <1>1, <1>3, <1>2 DEF Fill, Mk
<1>4. CASE Returned(b) # {}
  <2>1. i \in MissIdx /\ i \in Returned(b)
    BY <1>4, LowestMiss DEF Returned
  <2>2. /\ Dropped[i].valid /\ Dropped[i].op = "load"
        /\ Dropped[i] \in MissType
    <3>1. Dropped[i].valid /\ Dropped[i].sent
      BY <2>1 DEF Returned
    <3>2. c \in State
      BY <1>1 DEF Good
    <3>3. Dropped \in TableType
      BY <1>1, <3>2, StateIs
    <3>. QED  BY <2>1, <3>1, <3>3, DroppedGood DEF TableType
  <2>3. e \in MissType /\ e.valid = FALSE
    BY <2>2 DEF MissType
  <2>4. Fill(b) = Insert(r, l, b.data)
    <3>1. Fill(b) = Insert([c EXCEPT !.miss[i].valid = FALSE], l, b.data)
      BY <1>4 DEF Fill, Mk
    <3>2. [c EXCEPT !.miss[i].valid = FALSE] = r
      BY <1>1 DEF WithMiss
    <3>. QED  BY <3>1, <3>2
  <2> HIDE DEF c, e, i
  <2>5. l \in Line
    BY <1>1, <2>1, <2>2 DEF Good, Placed
  <2>6. i \in Fetches(c, l)
    BY <1>1, <2>1, <2>2 DEF Fetches
  <2>7. ~Hit(c, l) /\ Fetches(c, l) = {i}
    <3>1. SingleAt(c, l)
      BY <1>1, <2>5 DEF Good, Single
    <3>. QED  BY <2>6, <3>1 DEF SingleAt, Fetches
  <2>8. /\ Good(r) /\ ~Hit(r, l) /\ Fetches(r, l) = {}
        /\ ~r.miss[i].valid /\ Blocks(r) = Blocks(c)
        /\ \A j \in MissIdx : j # i => r.miss[j] = c.miss[j]
    BY <1>1, <2>1, <2>3, <2>5, <2>7, EntryGood
  <2> HIDE DEF r, l
  <2>9. /\ Good(Fill(b)) /\ Fill(b).miss = r.miss
        /\ Blocks(Fill(b)) \subseteq Blocks(r) \cup {Block(l, b.data)}
    BY <1>4, <2>4, <2>5, <2>8, InsertGood
  <2>10. \A j \in MissIdx : Dropped[j].valid /\ ~Dropped[j].sent =>
                               Fill(b).miss[j] = Dropped[j]
    BY <1>1, <2>1, <2>8, <2>9 DEF Returned
  <2>. QED  BY <1>1, <1>4, <1>2, <2>8, <2>9, <2>10 DEF i, l
<1>. QED  BY <1>3, <1>4

LEMMA SettledGood ==
  ASSUME Good(Cache), lsq_load_dc \in LoadType, lsq_store_dc \in StoreType,
         NEW b \in BusType, Returned(b) # {} => b.data \in Content
  PROVE  Good(Settled(b)) /\ Kept(Fill(b), Settled(b))
<1>1. Good(Fill(b))
  BY FillGood
<1>2. ASSUME NEW c, Good(c) PROVE Good(AfterLoad(c)) /\ Kept(c, AfterLoad(c))
  <2>1. CASE ~lsq_load_dc.valid
    BY <1>2, <2>1 DEF AfterLoad, Kept
  <2>2. CASE lsq_load_dc.valid
    <3>1. lsq_load_dc.line \in Line
      <4>1. lsq_load_dc # NoLoad
        BY <2>2 DEF NoLoad
      <4>. QED  BY <4>1 DEF LoadType
    <3>2. CASE Hit(c, lsq_load_dc.line)
      BY <1>2, <2>2, <3>1, <3>2, DataOfIs, TouchGood DEF AfterLoad, Kept
    <3>3. CASE ~Hit(c, lsq_load_dc.line)
      BY <1>2, <2>2, <3>1, <3>3, AskGood DEF AfterLoad
    <3>. QED  BY <3>2, <3>3
  <2>. QED  BY <2>1, <2>2
<1>3. ASSUME NEW c, Good(c)
      PROVE  Good(AfterStore(c, b)) /\ Kept(c, AfterStore(c, b))
  <2>1. CASE ~StoreLooksUp(b)
    BY <1>3, <2>1 DEF AfterStore, Kept
  <2>2. CASE StoreLooksUp(b)
    <3>1. /\ lsq_store_dc.valid /\ lsq_store_dc.line \in Line
          /\ lsq_store_dc.value \in Content
      <4>1. lsq_store_dc.valid
        BY <2>2 DEF StoreLooksUp
      <4>2. lsq_store_dc # NoStore
        BY <4>1 DEF NoStore
      <4>. QED  BY <4>1, <4>2, ContentIs DEF StoreType
    <3>2. CASE Hit(c, lsq_store_dc.line)
      <4> DEFINE t == Touch(c, lsq_store_dc.line, lsq_store_dc.value)
      <4>1. Good(t) /\ t.miss = c.miss
        BY <1>3, <3>1, <3>2, TouchGood
      <4>2. AfterStore(c, b) = Tabled(t)
        BY <2>2, <3>2 DEF AfterStore
      <4> HIDE DEF t
      <4>3. Good(Tabled(t)) /\ Kept(t, Tabled(t))
        BY <3>1, <4>1, TabledGood
      <4>. QED  BY <4>1, <4>2, <4>3 DEF Kept
    <3>3. CASE ~Hit(c, lsq_store_dc.line)
      BY <1>3, <2>2, <3>1, <3>3, AskGood DEF AfterStore
    <3>. QED  BY <3>2, <3>3
  <2>. QED  BY <2>1, <2>2
<1> DEFINE f == Fill(b)
           g == AfterLoad(f)
           h == AfterStore(g, b)
<1>4. Settled(b) = h
  BY DEF Settled
<1>5. Good(f)
  BY <1>1
<1> HIDE DEF f
<1>6. Good(g) /\ Kept(f, g)
  BY <1>2, <1>5
<1> HIDE DEF g
<1>7. Good(h) /\ Kept(g, h)
  BY <1>3, <1>6
<1> HIDE DEF h
<1>8. Kept(f, h)
  BY <1>6, <1>7 DEF Kept
<1>. QED  BY <1>4, <1>7, <1>8 DEF f

\* What the rest of the system hands to the cache.
Around ==
  /\ memory \in [Line -> Data]
  /\ in_flight \in Seq(TransactionType)
  /\ bus \in BusType
  /\ lsq_load_dc \in LoadType
  /\ lsq_store_dc \in StoreType

\* Every transaction has a tag of its own, and a load brings data.
Tags ==
  /\ \A j, k \in DOMAIN in_flight :
       in_flight[j].tag = in_flight[k].tag => j = k
  /\ \A k \in DOMAIN in_flight :
       in_flight[k].op = "load" => in_flight[k].data \in Data

\* The inductive invariant.
Inv ==
  /\ Good(Cache) /\ Around /\ Tags
  /\ Steady => SentMeansInFlight

LEMMA SingleIsOneCopy ==
  ASSUME Good(Cache)
  PROVE  OneCopy
<1>1. /\ Cache.ways = ways /\ Cache.victim = victim
      /\ Cache.miss = miss_entries /\ Single(Cache)
  BY DEF Cache, Mk, Good
<1>2. SUFFICES ASSUME NEW l \in Line, NEW x \in Copies(l), NEW y \in Copies(l)
               PROVE  x = y
  BY DEF OneCopy
<1>3. SingleAt(Cache, l)
  BY <1>1 DEF Single
<1>4. ASSUME NEW z \in Copies(l)
      PROVE  \/ z = <<"way", 1>> /\ Way(Cache, l, 1)
             \/ z = <<"way", 2>> /\ Way(Cache, l, 2)
             \/ \E i \in VictimsOf(Cache, l) : z = <<"victim", i>>
             \/ \E i \in Fetches(Cache, l) : z = <<"miss", i>>
  BY <1>1, <1>4 DEF Copies, Way, VictimsOf, Fetches
<1>5. VictimsOf(Cache, l) # {} => Hit(Cache, l)
  BY DEF Hit
<1>6. Way(Cache, l, 1) \/ Way(Cache, l, 2) => Hit(Cache, l)
  BY DEF Hit
<1> HIDE DEF Cache
<1>. QED  BY <1>3, <1>4, <1>5, <1>6 DEF SingleAt

LEMMA InitGood == DCacheInit => Inv
<1> SUFFICES ASSUME DCacheInit PROVE Inv
  OBVIOUS
<1>1. NoBlock \in BlockType /\ ~NoBlock.valid
  BY ContentIs DEF NoBlock, BlockType
<1>2. NoMiss \in MissType /\ ~NoMiss.valid
  BY DEF NoMiss, MissType
<1>3. /\ ways \in WaysType
      /\ \A s \in Set, k \in 1 .. 2 : ~ways[s][k].valid
  BY <1>1 DEF DCacheInit, WaysType
<1>4. /\ victim \in VictimsType /\ miss_entries \in TableType
      /\ \A i \in VictimIdx : ~victim[i].valid
      /\ \A i \in MissIdx : ~miss_entries[i].valid
  BY <1>1, <1>2 DEF DCacheInit, VictimsType, TableType
<1>5. victim_head \in VictimIdx
  BY DEF DCacheInit, VictimIdx
<1>6. /\ Cache \in State /\ Cache.ways = ways /\ Cache.victim = victim
      /\ Cache.miss = miss_entries
  BY <1>3, <1>4, <1>5, MkIs DEF Cache
<1> HIDE DEF Cache
<1>7. Placed(Cache)
  BY <1>3, <1>4, <1>6 DEF Placed
<1>8. ASSUME NEW l \in Line PROVE SingleAt(Cache, l)
  <2>1. SetOf[l] \in Set
    OBVIOUS
  <2>. QED
    BY <1>3, <1>4, <1>6, <2>1 DEF SingleAt, Way, VictimsOf, Fetches, Hit
<1>9. Around
  BY DEF DCacheInit, Around, BusType, NoBus, LoadType, StoreType, Received
<1>10. Tags
  BY DEF DCacheInit, Tags
<1>11. SentMeansInFlight
  BY <1>4 DEF SentMeansInFlight
<1>. QED  BY <1>6, <1>7, <1>8, <1>9, <1>10, <1>11 DEF Inv, Good, Single

\* The memory keeps its types.
LEMMA ToMemIs ==
  ASSUME NEW c, Good(c), NEW ifetch \in BOOLEAN
  PROVE  LET req == ToMem(c, ifetch)
         IN  \/ /\ req.op \in {"load", "store"} /\ req.line \in Line
                /\ req.value \in Data
             \/ /\ req.op \in {"ifetch", "none"} /\ req.line = NoLine
<1>1. CASE Offered(c) # {}
  <2> DEFINE i == Lowest(Offered(c))
             e == c.miss[i]
  <2>1. Offered(c) \subseteq {j \in MissIdx : c.miss[j].valid}
    <3>1. \A op \in {"load", "store"} :
            /\ Unsent(c, op) \subseteq {j \in MissIdx : c.miss[j].valid}
            /\ Unsent(c, op) # {} => Lowest(Unsent(c, op)) \in Unsent(c, op)
      BY LowestMiss DEF Unsent
    <3>. QED  BY <3>1 DEF Offered
  <2>2. i \in MissIdx /\ c.miss[i].valid
    BY <1>1, <2>1, LowestMiss
  <2>3. c \in State /\ Placed(c)
    BY DEF Good
  <2>4. e \in MissType /\ e.line \in Line
    BY <2>2, <2>3, StateIs DEF TableType, Placed
  <2>5. ToMem(c, ifetch) = [op |-> e.op, line |-> e.line, value |-> e.value]
    BY <1>1 DEF ToMem
  <2>. QED  BY <2>4, <2>5 DEF MissType
<1>2. CASE Offered(c) = {}
  BY <1>2 DEF ToMem, Nothing
<1>. QED  BY <1>1, <1>2

LEMMA ResponseIs ==
  ASSUME NEW req PROVE Response(req) \in 0 .. NUM_MEM_TAGS
<1>1. CASE req.op = "none" \/ FreeTags = {}
  BY <1>1 DEF Response
<1>2. CASE ~(req.op = "none" \/ FreeTags = {})
  <2>1. FreeTags \subseteq 1 .. NUM_MEM_TAGS
    BY DEF FreeTags, MemTag
  <2>2. Lowest(FreeTags) \in FreeTags
    BY <1>2, <2>1, LowestOf
  <2>3. Response(req) = Lowest(FreeTags)
    BY <1>2 DEF Response
  <2>4. Response(req) \in 1 .. NUM_MEM_TAGS
    BY <2>1, <2>2, <2>3
  <2>. QED  BY <2>4
<1>. QED  BY <1>1, <1>2

\* The entry on offer takes the response.
LEMMA SentGood ==
  ASSUME NEW c, Good(c), NEW resp \in 0 .. NUM_MEM_TAGS
  PROVE  Good(Mk(c.ways, c.victim, c.head, Sent(c, resp)))
<1> DEFINE m == Sent(c, resp)
           r == Mk(c.ways, c.victim, c.head, m)
<1>1. c \in State /\ Placed(c) /\ Single(c)
  BY DEF Good
<1>2. /\ c.ways \in WaysType /\ c.victim \in VictimsType
      /\ c.head \in VictimIdx /\ c.miss \in TableType
  BY <1>1, StateIs
<1>3. ASSUME NEW i \in MissIdx
      PROVE  /\ m[i] \in MissType /\ m[i].valid = c.miss[i].valid
             /\ m[i].line = c.miss[i].line /\ m[i].op = c.miss[i].op
  <2>1. c.miss[i] \in MissType
    BY <1>2 DEF TableType
  <2>. QED  BY <2>1 DEF Sent, MissType
<1>4. m \in TableType
  <2>1. m = [i \in MissIdx |-> m[i]]
    BY DEF Sent
  <2>. QED  BY <1>3, <2>1 DEF TableType
<1>5. /\ r \in State /\ r.ways = c.ways /\ r.victim = c.victim
      /\ r.miss = m
  BY <1>2, <1>4, MkIs
<1> HIDE DEF m, r
<1>6. Placed(r)
  BY <1>1, <1>3, <1>5 DEF Placed
<1>7. ASSUME NEW q \in Line PROVE SingleAt(r, q)
  <2>1. SingleAt(c, q)
    BY <1>1 DEF Single
  <2>2. /\ Way(r, q, 1) <=> Way(c, q, 1)
        /\ Way(r, q, 2) <=> Way(c, q, 2)
        /\ VictimsOf(r, q) = VictimsOf(c, q)
    BY <1>5 DEF Way, VictimsOf
  <2>3. Fetches(r, q) = Fetches(c, q)
    BY <1>3, <1>5 DEF Fetches
  <2>. QED  BY <2>1, <2>2, <2>3 DEF SingleAt, Hit
<1>. QED  BY <1>5, <1>6, <1>7 DEF Good, Single, r, m

\* The line that the bus shows is that of one fetch, and of the only one.
LEMMA ReturnedIs ==
  ASSUME Inv, Steady, NEW ends \in {FALSE, in_flight # <<>>},
         NEW i \in Returned(NextBus(ends))
  PROVE  /\ ends /\ Head(in_flight).op = "load"
         /\ Head(in_flight).tag = Dropped[i].tag
         /\ Head(in_flight).line = Dropped[i].line
<1> DEFINE b == NextBus(ends)
<1>1. /\ i \in MissIdx /\ b.tag # 0 /\ Dropped[i].tag = b.tag
      /\ Dropped[i].valid /\ Dropped[i].sent
  BY DEF Returned
<1>2. Dropped[i] = miss_entries[i] /\ Dropped[i].op = "load"
  BY <1>1, DroppedGood DEF Inv
<1>3. ends /\ b.tag = Head(in_flight).tag /\ in_flight # <<>>
  BY <1>1 DEF NextBus, NoBus
<1>4. PICK k \in DOMAIN in_flight :
        /\ in_flight[k].tag = Dropped[i].tag /\ in_flight[k].op = "load"
        /\ in_flight[k].line = Dropped[i].line
  BY <1>1, <1>2 DEF Inv, SentMeansInFlight
<1>5. in_flight \in Seq(TransactionType)
  BY DEF Inv, Around
<1>6. 1 \in DOMAIN in_flight /\ in_flight[1] = Head(in_flight)
  BY <1>3, <1>5
<1>7. k = 1
  BY <1>1, <1>3, <1>4, <1>6 DEF Inv, Tags
<1>. QED  BY <1>1, <1>3, <1>4, <1>6, <1>7

LEMMA DataReturned ==
  ASSUME Inv, NEW ends \in {FALSE, in_flight # <<>>}
  PROVE  /\ NextBus(ends) \in BusType
         /\ Returned(NextBus(ends)) # {} => NextBus(ends).data \in Content
<1> DEFINE b == NextBus(ends)
<1>1. in_flight \in Seq(TransactionType)
  BY DEF Inv, Around
<1>2. b \in BusType
  <2>1. NoBus \in BusType
    BY DEF NoBus, BusType, Received
  <2>2. CASE ends /\ Head(in_flight).op # "store"
    <3>1. in_flight # <<>>
      BY <2>2
    <3>2. Head(in_flight) \in TransactionType
      BY <1>1, <3>1
    <3>. QED  BY <2>2, <3>2 DEF NextBus, BusType, TransactionType, MemTag
  <2>3. CASE ~(ends /\ Head(in_flight).op # "store")
    BY <2>1, <2>3 DEF NextBus
  <2>. QED  BY <2>2, <2>3
<1>3. CASE ~Steady
  BY <1>2, <1>3 DEF BusType, Received, Content
<1>4. CASE Steady
  <2>1. SUFFICES ASSUME NEW i \in Returned(b) PROVE b.data \in Data
    BY <1>2, <1>4, ContentIs
  <2>2. ends /\ Head(in_flight).op = "load"
    BY <1>4, ReturnedIs
  <2>3. b.data = Head(in_flight).data
    BY <2>2 DEF NextBus
  <2>4. in_flight # <<>>
    BY <2>2
  <2>5. 1 \in DOMAIN in_flight /\ Head(in_flight) = in_flight[1]
    BY <1>1, <2>4
  <2>. QED  BY <2>2, <2>3, <2>5 DEF Inv, Tags
<1>. QED  BY <1>3, <1>4

\* The request that the memory accepts is of a line and of data.
LEMMA RequestIs ==
  ASSUME Inv, NEW ifetch \in BOOLEAN, NEW ends \in {FALSE, in_flight # <<>>},
         Steady => ToMem(Settled(NextBus(ends)), ifetch)
                     = ToMem(Settled(bus), ifetch)
  PROVE  LET req == ToMem(Settled(bus), ifetch)
         IN  \/ /\ req.op \in {"load", "store"} /\ req.line \in Line
                /\ req.value \in Data
             \/ req.op \in {"ifetch", "none"} /\ req.line = NoLine
<1>1. CASE Steady
  <2>1. Good(Settled(NextBus(ends)))
    BY DataReturned, SettledGood DEF Inv, Around
  <2>. QED  BY <1>1, <2>1, ToMemIs
<1>2. CASE ~Steady
  <2>1. bus \in BusType /\ bus.data \in Content
    BY <1>2 DEF Inv, Around, BusType, Received, Content
  <2>2. Good(Settled(bus))
    BY <2>1, SettledGood DEF Inv, Around
  <2>. QED  BY <2>2, ToMemIs
<1>. QED  BY <1>1, <1>2

LEMMA MemoryGood ==
  ASSUME Inv, NEW req, NEW ends \in {FALSE, in_flight # <<>>},
         \/ /\ req.op \in {"load", "store"} /\ req.line \in Line
            /\ req.value \in Data
         \/ req.op \in {"ifetch", "none"} /\ req.line = NoLine,
         MemoryStep(req, ends)
  PROVE  /\ memory' \in [Line -> Data]
         /\ in_flight' \in Seq(TransactionType)
         /\ bus' \in BusType
         /\ Tags'
         /\ \A k \in DOMAIN in_flight : k # 1 \/ ~ends =>
              \E j \in DOMAIN in_flight' : in_flight'[j] = in_flight[k]
         /\ Response(req) # 0 =>
              \E j \in DOMAIN in_flight' : in_flight'[j] = Transaction(req)
         /\ \A k \in DOMAIN in_flight' :
              \/ Response(req) # 0 /\ in_flight'[k] = Transaction(req)
              \/ \E j \in DOMAIN in_flight : /\ j # 1 \/ ~ends
                                            /\ in_flight'[k] = in_flight[j]
         /\ Response(req) # 0 => /\ Response(req) \in FreeTags
                                 /\ Transaction(req).tag = Response(req)
<1> DEFINE left == IF ends THEN Tail(in_flight) ELSE in_flight
           off == IF ends THEN 1 ELSE 0
           resp == Response(req)
           new == Transaction(req)
<1>1. /\ in_flight \in Seq(TransactionType) /\ memory \in [Line -> Data]
      /\ Tags /\ (ends => in_flight # <<>>)
  BY DEF Inv, Around
<1>2. resp \in 0 .. NUM_MEM_TAGS
  BY ResponseIs
<1>3. resp # 0 => resp \in FreeTags /\ req.op # "none"
  <2>1. FreeTags \subseteq 0 .. NUM_MEM_TAGS
    BY DEF FreeTags, MemTag
  <2>2. FreeTags # {} => Lowest(FreeTags) \in FreeTags
    BY <2>1, LowestOf
  <2>. QED  BY <2>2 DEF Response
<1>4. resp # 0 => /\ new \in TransactionType /\ new.tag = resp
                  /\ new.op = "load" => new.data \in Data
  <2>1. ASSUME resp # 0
        PROVE  /\ (IF req.op = "load" THEN memory[req.line] ELSE Instr)
                    \in Received
               /\ req.op = "load" => memory[req.line] \in Data
    BY <1>1 DEF Received
  <2>2. resp # 0 => resp \in MemTag
    BY <1>3 DEF FreeTags
  <2>. QED  BY <1>3, <2>1, <2>2 DEF Transaction, TransactionType
<1>5. /\ left \in Seq(TransactionType) /\ Len(left) = Len(in_flight) - off
      /\ \A k \in 1 .. Len(left) : left[k] = in_flight[k + off]
  BY <1>1
<1>6. /\ in_flight' = IF resp = 0 THEN left ELSE Append(left, new)
      /\ memory' = IF resp # 0 /\ req.op = "store"
                   THEN [memory EXCEPT ![req.line] = req.value] ELSE memory
      /\ bus' = NextBus(ends)
  BY DEF MemoryStep
<1> HIDE DEF left, new, resp
<1>7. memory' \in [Line -> Data]
  BY <1>1, <1>6
<1>8. bus' \in BusType
  <2>1. NextBus(ends) \in BusType
    BY DataReturned
  <2>. QED  BY <1>6, <2>1
<1>9. in_flight' \in Seq(TransactionType)
  BY <1>4, <1>5, <1>6
<1>10. \A k \in 1 .. Len(left) : left[k].tag # resp \/ resp = 0
  <2>1. SUFFICES ASSUME NEW k \in 1 .. Len(left), resp # 0
                 PROVE  left[k].tag # resp
    OBVIOUS
  <2>2. k + off \in DOMAIN in_flight
    BY <1>1, <1>5
  <2>3. in_flight[k + off].tag \notin FreeTags
    BY <2>2 DEF FreeTags
  <2>. QED  BY <1>3, <1>5, <2>1, <2>3
<1>11. /\ DOMAIN in_flight' = 1 .. Len(in_flight')
       /\ Len(in_flight') = IF resp = 0 THEN Len(left) ELSE Len(left) + 1
       /\ \A k \in 1 .. Len(left) : in_flight'[k] = left[k]
       /\ resp # 0 => in_flight'[Len(left) + 1] = new
  BY <1>4, <1>5, <1>6
<1>12. Tags'
  <2>1. ASSUME NEW j \in 1 .. Len(left), NEW k \in 1 .. Len(left),
               left[j].tag = left[k].tag
        PROVE  j = k
    <3>1. j + off \in DOMAIN in_flight /\ k + off \in DOMAIN in_flight
      BY <1>1, <1>5
    <3>2. j + off = k + off
      BY <1>1, <1>5, <2>1, <3>1 DEF Tags
    <3>. QED  BY <3>2
  <2>2. ASSUME NEW k \in 1 .. Len(left), left[k].op = "load"
        PROVE  left[k].data \in Data
    <3>1. k + off \in DOMAIN in_flight
      BY <1>1, <1>5
    <3>. QED  BY <1>1, <1>5, <2>2, <3>1 DEF Tags
  <2>3. Len(left) \in Nat
    BY <1>5
  <2>4. ASSUME NEW j \in DOMAIN in_flight', NEW k \in DOMAIN in_flight',
               in_flight'[j].tag = in_flight'[k].tag
        PROVE  j = k
    BY <1>4, <1>10, <1>11, <2>1, <2>3, <2>4
  <2>5. ASSUME NEW k \in DOMAIN in_flight', in_flight'[k].op = "load"
        PROVE  in_flight'[k].data \in Data
    BY <1>4, <1>11, <2>2, <2>3, <2>5
  <2>. QED  BY <2>4, <2>5 DEF Tags
<1>13. ASSUME NEW k \in DOMAIN in_flight, k # 1 \/ ~ends
       PROVE  \E j \in DOMAIN in_flight' : in_flight'[j] = in_flight[k]
  <2>1. /\ k - off \in 1 .. Len(left) /\ (k - off) + off = k
        /\ Len(left) \in Nat
    BY <1>1, <1>5, <1>13
  <2>2. in_flight'[k - off] = in_flight[k] /\ k - off \in DOMAIN in_flight'
    BY <1>5, <1>11, <2>1
  <2>. QED  BY <2>2
<1>14. resp # 0 => \E j \in DOMAIN in_flight' : in_flight'[j] = new
  <2>1. Len(left) \in Nat
    BY <1>5
  <2>. QED  BY <1>11, <2>1
<1>15. ASSUME NEW k \in DOMAIN in_flight'
       PROVE  \/ resp # 0 /\ in_flight'[k] = new
              \/ \E j \in DOMAIN in_flight : /\ j # 1 \/ ~ends
                                            /\ in_flight'[k] = in_flight[j]
  <2>1. CASE k \in 1 .. Len(left)
    <3>1. k + off \in DOMAIN in_flight /\ (k + off # 1 \/ ~ends)
      BY <1>1, <1>5, <2>1
    <3>. QED  BY <1>5, <1>11, <2>1, <3>1
  <2>2. CASE k \notin 1 .. Len(left)
    <3>1. Len(left) \in Nat
      BY <1>5
    <3>. QED  BY <1>11, <2>2, <3>1
  <2>. QED  BY <2>1, <2>2
<1>. QED  BY <1>3, <1>4, <1>7, <1>8, <1>9, <1>12, <1>13, <1>14, <1>15
          DEF resp, new

\* What the registers of the cache, and the queue's requests, become.
LEMMA CycleIs ==
  ASSUME DCacheCycle
  PROVE  \E ifetch \in BOOLEAN, ends \in {FALSE, in_flight # <<>>} :
           LET req == ToMem(Settled(bus), ifetch)
               c == Settled(NextBus(ends))
           IN  /\ Steady => ToMem(c, ifetch) = req
               /\ MemoryStep(req, ends)
               /\ Cache' = Mk(c.ways, c.victim, c.head,
                              Sent(c, Response(req)))
               /\ miss_entries' = Sent(c, Response(req))
               /\ NextLoad(Answered(NextBus(ends)))
               /\ NextStore(Acknowledged(NextBus(ends),
                                         Sent(c, Response(req))))
BY DEF DCacheCycle, Cache, Mk

\* The entry on offer is the request.
LEMMA OfferedIs ==
  ASSUME NEW c, NEW i \in MissIdx, i \in Offered(c), NEW ifetch
  PROVE  ToMem(c, ifetch) = [op |-> c.miss[i].op, line |-> c.miss[i].line,
                             value |-> c.miss[i].value]
<1>1. Offered(c) = {i}
  <2>1. \E x : Offered(c) = {x}
    BY DEF Offered
  <2>. QED  BY <2>1
<1>2. Lowest(Offered(c)) = i
  BY <1>1, LowestMiss
<1>. QED  BY <1>1, <1>2 DEF ToMem

\* Every fetch that is marked as sent is under way.
LEMMA SentStays ==
  ASSUME Inv, Steady, NEW ifetch \in BOOLEAN,
         NEW ends \in {FALSE, in_flight # <<>>}, NEW req, NEW c,
         c = Settled(NextBus(ends)), ToMem(c, ifetch) = req,
         MemoryStep(req, ends), miss_entries' = Sent(c, Response(req)),
         \A k \in DOMAIN in_flight : k # 1 \/ ~ends =>
           \E j \in DOMAIN in_flight' : in_flight'[j] = in_flight[k],
         Response(req) # 0 =>
           \E j \in DOMAIN in_flight' : in_flight'[j] = Transaction(req)
  PROVE  SentMeansInFlight'
<1> DEFINE b == NextBus(ends)
<1>1. /\ Good(Cache) /\ lsq_load_dc \in LoadType /\ lsq_store_dc \in StoreType
      /\ b \in BusType /\ (Returned(b) # {} => b.data \in Content)
  BY DataReturned DEF Inv, Around
<1>2. Good(c) /\ Kept(Fill(b), c)
  BY <1>1, SettledGood
<1>3. SUFFICES ASSUME NEW i \in MissIdx, miss_entries'[i].valid,
                      miss_entries'[i].sent, miss_entries'[i].op = "load"
               PROVE  \E k \in DOMAIN in_flight' :
                        /\ in_flight'[k].tag = miss_entries'[i].tag
                        /\ in_flight'[k].op = "load"
                        /\ in_flight'[k].line = miss_entries'[i].line
  BY DEF SentMeansInFlight
<1>4. c.miss \in TableType /\ c.miss[i] \in MissType
  BY <1>2, StateIs DEF Good, TableType
<1>5. CASE i \in Offered(c)
  <2>1. miss_entries'[i] = [c.miss[i] EXCEPT !.sent = Response(req) # 0,
                                             !.tag = Response(req)]
    BY <1>5 DEF Sent
  <2>2. /\ Response(req) # 0 /\ miss_entries'[i].tag = Response(req)
        /\ miss_entries'[i].line = c.miss[i].line /\ c.miss[i].op = "load"
    BY <1>3, <1>4, <2>1 DEF MissType
  <2>3. req.op = "load" /\ req.line = c.miss[i].line
    BY <1>5, <2>2, OfferedIs
  <2>4. /\ Transaction(req).tag = Response(req)
        /\ Transaction(req).op = "load"
        /\ Transaction(req).line = c.miss[i].line
    BY <2>3 DEF Transaction
  <2>. QED  BY <2>2, <2>4
<1>6. CASE i \notin Offered(c)
  <2>1. miss_entries'[i] = c.miss[i]
    BY <1>6 DEF Sent
  <2>2. /\ c.miss[i] = Dropped[i] /\ Dropped[i].valid /\ Dropped[i].sent
        /\ i # Lowest(Returned(b)) \/ Returned(b) = {}
    <3>1. c.miss[i] = Fill(b).miss[i]
      BY <1>2, <1>3, <2>1 DEF Kept
    <3>. QED  BY <1>1, <1>3, <2>1, <3>1, FillGood
  <2>3. Dropped[i] = miss_entries[i] /\ Dropped[i].op = "load"
    BY <1>1, <2>2, DroppedGood
  <2>4. PICK k \in DOMAIN in_flight :
          /\ in_flight[k].tag = Dropped[i].tag /\ in_flight[k].op = "load"
          /\ in_flight[k].line = Dropped[i].line
    BY <2>2, <2>3 DEF Inv, SentMeansInFlight
  <2>5. k # 1 \/ ~ends
    <3>1. SUFFICES ASSUME k = 1, ends PROVE FALSE
      OBVIOUS
    <3>2. in_flight \in Seq(TransactionType) /\ in_flight # <<>>
      BY <3>1 DEF Inv, Around
    <3>3. Head(in_flight) = in_flight[1] /\ in_flight[1] \in TransactionType
      BY <3>2
    <3>4. b.tag = Dropped[i].tag /\ b.tag # 0
      BY <2>4, <3>1, <3>3 DEF NextBus, TransactionType, MemTag
    <3>5. i \in Returned(b)
      BY <2>2, <3>4 DEF Returned
    <3> DEFINE j == Lowest(Returned(b))
    <3>6. j \in Returned(b) /\ j # i
      BY <2>2, <3>5, LowestMiss DEF Returned
    <3>7. Dropped[j].line = Dropped[i].line
      BY <3>5, <3>6, ReturnedIs
    <3>8. /\ j \in MissIdx /\ Dropped[j].valid /\ Dropped[j].sent
      BY <3>6 DEF Returned
    <3>9. Dropped[j].op = "load"
      BY <1>1, <3>8, DroppedGood
    <3> DEFINE d == Mk(ways, victim, victim_head, Dropped)
               l == Dropped[i].line
    <3>10. Good(d) /\ d.miss = Dropped
      BY <1>1, DroppedGood DEF Mk
    <3> HIDE DEF d, j
    <3>11. l \in Line
      BY <2>2, <3>10 DEF Good, Placed
    <3>12. i \in Fetches(d, l) /\ j \in Fetches(d, l)
      BY <2>2, <2>3, <3>7, <3>8, <3>9, <3>10 DEF Fetches
    <3>13. i = j
      BY <3>10, <3>11, <3>12 DEF Good, Single, SingleAt
    <3>. QED  BY <3>6, <3>13
  <2>6. PICK m \in DOMAIN in_flight' : in_flight'[m] = in_flight[k]
    BY <2>5
  <2>. QED  BY <2>1, <2>2, <2>4, <2>6
<1>. QED  BY <1>5, <1>6

LEMMA CycleGood == Inv /\ [DCacheCycle]_dcacheVars => Inv'
<1> SUFFICES ASSUME Inv, [DCacheCycle]_dcacheVars PROVE Inv'
  OBVIOUS
<1>1. CASE UNCHANGED dcacheVars
  <2>1. Cache' = Cache
    BY <1>1 DEF dcacheVars, Cache, Mk
  <2>2. Good(Cache)'
    BY <1>1, <2>1 DEF dcacheVars, Inv
  <2>3. Around' /\ Tags' /\ (Steady => SentMeansInFlight')
    BY <1>1 DEF dcacheVars, Inv, Around, Tags, SentMeansInFlight
  <2>. QED  BY <2>2, <2>3 DEF Inv
<1>2. CASE DCacheCycle
  <2>1. PICK ifetch \in BOOLEAN, ends \in {FALSE, in_flight # <<>>} :
          LET req == ToMem(Settled(bus), ifetch)
              c == Settled(NextBus(ends))
          IN  /\ Steady => ToMem(c, ifetch) = req
              /\ MemoryStep(req, ends)
              /\ Cache' = Mk(c.ways, c.victim, c.head, Sent(c, Response(req)))
              /\ miss_entries' = Sent(c, Response(req))
              /\ NextLoad(Answered(NextBus(ends)))
              /\ NextStore(Acknowledged(NextBus(ends),
                                        Sent(c, Response(req))))
    BY <1>2, CycleIs
  <2> DEFINE req == ToMem(Settled(bus), ifetch)
             c == Settled(NextBus(ends))
             answered == Answered(NextBus(ends))
             acked == Acknowledged(NextBus(ends), Sent(c, Response(req)))
  <2>2. /\ lsq_load_dc \in LoadType /\ lsq_store_dc \in StoreType
        /\ NextLoad(answered) /\ NextStore(acked)
    BY <2>1 DEF Inv, Around
  <2>3. Good(c)
    BY DataReturned, SettledGood DEF Inv, Around
  <2>4. \/ /\ req.op \in {"load", "store"} /\ req.line \in Line
           /\ req.value \in Data
        \/ req.op \in {"ifetch", "none"} /\ req.line = NoLine
    BY <2>1, RequestIs
  <2>5. /\ Cache' = Mk(c.ways, c.victim, c.head, Sent(c, Response(req)))
        /\ miss_entries' = Sent(c, Response(req))
        /\ MemoryStep(req, ends)
        /\ Steady => ToMem(c, ifetch) = req
    BY <2>1
  <2> HIDE DEF req, c, acked, answered
  <2>6. Good(Cache)'
    <3>1. Response(req) \in 0 .. NUM_MEM_TAGS
      BY ResponseIs
    <3>2. Good(Cache')
      BY <2>3, <2>5, <3>1, SentGood
    <3>. QED  BY <3>2 DEF Good, Placed, Single, SingleAt, Hit, Way, VictimsOf,
                Fetches, State, WaysType, VictimsType, TableType
  <2>7. /\ memory' \in [Line -> Data] /\ in_flight' \in Seq(TransactionType)
        /\ bus' \in BusType /\ Tags'
        /\ \A k \in DOMAIN in_flight : k # 1 \/ ~ends =>
             \E j \in DOMAIN in_flight' : in_flight'[j] = in_flight[k]
        /\ Response(req) # 0 =>
             \E j \in DOMAIN in_flight' : in_flight'[j] = Transaction(req)
    BY <2>4, <2>5, MemoryGood
  <2>8. Steady => SentMeansInFlight'
    BY <2>5, <2>7, SentStays DEF c
  <2>9. lsq_load_dc' \in LoadType
    <3>1. \/ lsq_load_dc' = NoLoad
          \/ lsq_load_dc' = lsq_load_dc
          \/ \E l \in Line : lsq_load_dc' = [valid |-> TRUE, line |-> l]
      BY <2>2 DEF NextLoad
    <3>. QED  BY <2>2, <3>1 DEF LoadType
  <2>10. lsq_store_dc' \in StoreType
    <3>1. \/ lsq_store_dc' = NoStore
          \/ lsq_store_dc' = lsq_store_dc
          \/ \E l \in Stored, v \in Data :
               lsq_store_dc' = [valid |-> TRUE, line |-> l, value |-> v]
      <4>1. CASE lsq_store_dc.valid
        BY <2>2, <4>1 DEF NextStore
      <4>2. CASE ~lsq_store_dc.valid
        BY <2>2, <4>2 DEF NextStore
      <4>. QED  BY <4>1, <4>2
    <3>. QED  BY <2>2, <3>1 DEF StoreType
  <2>11. Around'
    BY <2>7, <2>9, <2>10
       DEF Around, BusType, TransactionType, LoadType, StoreType, Received
  <2>. QED  BY <2>6, <2>7, <2>8, <2>11 DEF Inv
<1>. QED  BY <1>1, <1>2

LEMMA InvHolds == DCacheSpec => []Inv
BY InitGood, CycleGood, PTL DEF DCacheSpec

\* A line has one copy in dcache_l2.sv: the cache fetches no line that it
\* holds, and fetches no line twice.  This is so in every cycle, whatever the
\* memory accepted.
THEOREM DCacheOneCopy == DCacheSpec => []OneCopy
<1>1. Inv => OneCopy
  BY SingleIsOneCopy DEF Inv
<1>. QED  BY InvHolds, <1>1, PTL

\* No more transactions are under way than there are tags.
LEMMA FewInFlight ==
  ASSUME Inv PROVE Len(in_flight) <= NUM_MEM_TAGS
<1>1. in_flight \in Seq(TransactionType)
  BY DEF Inv, Around
<1>2. SUFFICES ASSUME Len(in_flight) > NUM_MEM_TAGS PROVE FALSE
  BY <1>1
<1> DEFINE S == 1 .. Len(in_flight)
           T == 1 .. NUM_MEM_TAGS
           f == [k \in S |-> in_flight[k].tag]
<1>3. f \in [S -> T]
  <2>1. ASSUME NEW k \in S PROVE in_flight[k].tag \in T
    <3>1. in_flight[k] \in TransactionType
      BY <1>1
    <3>. QED  BY <3>1 DEF TransactionType, MemTag
  <2> HIDE DEF S, T
  <2>. QED  BY <2>1
<1>4. /\ IsFiniteSet(S) /\ Cardinality(S) = Len(in_flight)
      /\ IsFiniteSet(T) /\ Cardinality(T) = NUM_MEM_TAGS
  <2>1. Len(in_flight) \in Nat /\ Len(in_flight) >= 1
    BY <1>1, <1>2
  <2>2. /\ IsFiniteSet(S)
        /\ Cardinality(S) = IF 1 > Len(in_flight) THEN 0
                            ELSE Len(in_flight) - 1 + 1
    BY <2>1, FS_Interval
  <2>3. /\ IsFiniteSet(T)
        /\ Cardinality(T) = IF 1 > NUM_MEM_TAGS THEN 0
                            ELSE NUM_MEM_TAGS - 1 + 1
    BY FS_Interval
  <2>. QED  BY <2>1, <2>2, <2>3
<1>5. PICK x \in S, y \in S : x # y /\ f[x] = f[y]
  <2>1. Cardinality(T) < Cardinality(S)
    BY <1>1, <1>2, <1>4
  <2> HIDE DEF S, T, f
  <2>. QED  BY <1>3, <1>4, <2>1, FS_PigeonHole
<1>. QED  BY <1>1, <1>5 DEF Inv, Tags

\* In the cycles in which the memory accepts the request that miss_entries
\* records, the cache is typed (text never gets into it), a line has one copy,
\* and every fetch marked as sent is under way under its tag.
THEOREM DCacheCorrect ==
  Steady => (DCacheSpec => []DCacheInv /\ []SentMeansInFlight)
<1> SUFFICES ASSUME Steady
             PROVE  DCacheSpec => []DCacheInv /\ []SentMeansInFlight
  OBVIOUS
<1>1. ASSUME Inv PROVE DCacheInv /\ SentMeansInFlight
  <2>1. /\ Good(Cache) /\ memory \in [Line -> Data]
        /\ Content = Data
    BY <1>1 DEF Inv, Around, Content
  <2>2. /\ ways \in WaysType /\ victim \in VictimsType
        /\ victim_head \in VictimIdx /\ miss_entries \in TableType
    BY <2>1, StateIs DEF Good, Cache, Mk
  <2>3. DCacheTypeOK
    <3>1. \A s \in Set, k \in 1 .. 2 : ways[s][k].data \in Data
      BY <2>1, <2>2 DEF WaysType, BlockType
    <3>2. \A i \in VictimIdx : victim[i].data \in Data
      BY <2>1, <2>2 DEF VictimsType, BlockType
    <3>3. \A i \in MissIdx : miss_entries[i].tag \in 0 .. NUM_MEM_TAGS
      BY <2>2 DEF TableType, MissType
    <3>. QED  BY <1>1, <2>1, <2>2, <3>1, <3>2, <3>3, FewInFlight
              DEF DCacheTypeOK
  <2>. QED  BY <1>1, <2>1, <2>3, SingleIsOneCopy DEF DCacheInv, Inv
<1>. QED  BY InvHolds, <1>1, PTL

-----------------------------------------------------------------------------
(* The request stands through the cycle.  An offer of the first half comes *)
(* from an entry that waits, or from the request of the queue that is      *)
(* looked up; what the second half fills makes room and holds nothing that *)
(* the looked up lines miss.                                               *)

\* The entries that wait to be sent.
Waiting(c) == {i \in MissIdx : c.miss[i].valid /\ ~c.miss[i].sent}

LEMMA OfferedWaits ==
  ASSUME NEW c, Good(c) PROVE Offered(c) # {} <=> Waiting(c) # {}
<1>1. \A i \in MissIdx : c.miss[i].op \in {"load", "store"}
  <2>1. c.miss \in TableType
    BY StateIs DEF Good
  <2>. QED  BY <2>1 DEF TableType, MissType
<1>2. Waiting(c) = Unsent(c, "store") \cup Unsent(c, "load")
  BY <1>1 DEF Waiting, Unsent
<1>. QED  BY <1>2 DEF Offered

\* A line is asked for when nobody fetches it and there is room.
LEMMA AskWaits ==
  ASSUME NEW c, Good(c), NEW l \in Line
  PROVE  /\ Waiting(Ask(c, l)) # {} <=>
              \/ Waiting(c) # {}
              \/ ~Fetching(c, l) /\ Free(c) # {}
         /\ Waiting(Ask(c, l)) = {} => Ask(c, l) = c
<1>1. CASE Fetching(c, l) \/ Free(c) = {}
  BY <1>1 DEF Ask
<1>2. CASE ~Fetching(c, l) /\ Free(c) # {}
  <2> DEFINE i == Lowest(Free(c))
             e == Miss(l, 0, "load")
             r == WithMiss(c, i, e)
  <2>1. i \in MissIdx
    BY <1>2, LowestMiss DEF Free
  <2>2. e \in MissType /\ e.valid /\ ~e.sent
    BY DEF Miss, MissType
  <2>3. Ask(c, l) = r
    BY <1>2 DEF Ask, WithMiss
  <2> HIDE DEF e, i
  <2>4. r.miss[i] = e
    BY <2>1, <2>2, MissUpdate DEF Good
  <2> HIDE DEF r
  <2>5. i \in Waiting(r)
    BY <2>1, <2>2, <2>4 DEF Waiting
  <2>. QED  BY <1>2, <2>3, <2>5
<1>. QED  BY <1>1, <1>2

\* A store goes into the table if there is room.
LEMMA TabledWaits ==
  ASSUME NEW c, Good(c), lsq_store_dc \in StoreType, lsq_store_dc.valid
  PROVE  Waiting(Tabled(c)) # {} <=> Waiting(c) # {} \/ Free(c) # {}
<1> DEFINE l == lsq_store_dc.line
           v == lsq_store_dc.value
<1>1. l \in Line /\ v \in Data
  <2>1. lsq_store_dc # NoStore
    BY DEF NoStore
  <2>. QED  BY <2>1 DEF StoreType
<1>2. c \in State /\ c.miss \in TableType
  BY StateIs DEF Good
<1>3. CASE Merges(c) # {}
  <2> DEFINE i == Lowest(Merges(c))
             e == [c.miss[i] EXCEPT !.value = v]
             r == WithMiss(c, i, e)
  <2>1. i \in MissIdx /\ c.miss[i].valid /\ ~c.miss[i].sent
    <3>1. i \in Merges(c)
      BY <1>3, LowestMiss DEF Merges
    <3>. QED  BY <3>1 DEF Merges
  <2>2. c.miss[i] \in MissType
    BY <1>2, <2>1 DEF TableType
  <2>3. e \in MissType /\ e.valid /\ ~e.sent
    BY <1>1, <2>1, <2>2 DEF MissType
  <2>4. Tabled(c) = r
    BY <1>3 DEF Tabled, WithMiss
  <2>5. i \in Waiting(c)
    BY <2>1 DEF Waiting
  <2> HIDE DEF e, i
  <2>6. r.miss[i] = e
    BY <1>2, <2>1, <2>3, MissUpdate
  <2> HIDE DEF r
  <2>7. i \in Waiting(r)
    BY <2>1, <2>3, <2>6 DEF Waiting
  <2>. QED  BY <2>4, <2>5, <2>7
<1>4. CASE Merges(c) = {} /\ Free(c) # {}
  <2> DEFINE i == Lowest(Free(c))
             e == Miss(l, v, "store")
             r == WithMiss(c, i, e)
  <2>1. i \in MissIdx
    BY <1>4, LowestMiss DEF Free
  <2>2. e \in MissType /\ e.valid /\ ~e.sent
    BY <1>1 DEF Miss, MissType
  <2>3. Tabled(c) = r
    BY <1>4 DEF Tabled, WithMiss
  <2> HIDE DEF e, i
  <2>4. r.miss[i] = e
    BY <1>2, <2>1, <2>2, MissUpdate
  <2> HIDE DEF r
  <2>5. i \in Waiting(r)
    BY <2>1, <2>2, <2>4 DEF Waiting
  <2>. QED  BY <1>4, <2>3, <2>5
<1>5. CASE Merges(c) = {} /\ Free(c) = {}
  BY <1>5 DEF Tabled
<1>. QED  BY <1>3, <1>4, <1>5

\* What the load of the cycle adds.
LoadAsks(c) ==
  /\ lsq_load_dc.valid /\ ~Hit(c, lsq_load_dc.line)
  /\ ~Fetching(c, lsq_load_dc.line) /\ Free(c) # {}

LEMMA LoadWaits ==
  ASSUME NEW c, Good(c), lsq_load_dc \in LoadType
  PROVE  /\ Good(AfterLoad(c))
         /\ Waiting(AfterLoad(c)) # {} <=> Waiting(c) # {} \/ LoadAsks(c)
         /\ Waiting(AfterLoad(c)) = {} => AfterLoad(c).miss = c.miss
<1>1. CASE ~lsq_load_dc.valid
  BY <1>1 DEF AfterLoad, LoadAsks
<1>2. CASE lsq_load_dc.valid
  <2> DEFINE l == lsq_load_dc.line
             d == DataOf(c, l)
  <2>1. l \in Line
    <3>1. lsq_load_dc # NoLoad
      BY <1>2 DEF NoLoad
    <3>. QED  BY <3>1 DEF LoadType
  <2> HIDE DEF l
  <2>2. CASE Hit(c, l)
    <3>1. d \in Content
      BY <2>1, <2>2, DataOfIs
    <3>2. AfterLoad(c) = Touch(c, l, d)
      BY <1>2, <2>2 DEF AfterLoad, l
    <3> HIDE DEF d
    <3>3. Good(Touch(c, l, d)) /\ Touch(c, l, d).miss = c.miss
      BY <2>1, <2>2, <3>1, TouchGood
    <3>. QED  BY <2>2, <3>2, <3>3 DEF Waiting, LoadAsks, l
  <2>3. CASE ~Hit(c, l)
    <3>1. AfterLoad(c) = Ask(c, l)
      BY <1>2, <2>3 DEF AfterLoad, l
    <3>2. Good(Ask(c, l))
      BY <2>1, <2>3, AskGood
    <3>. QED  BY <1>2, <2>1, <2>3, <3>1, <3>2, AskWaits DEF LoadAsks, l
  <2>. QED  BY <2>2, <2>3
<1>. QED  BY <1>1, <1>2

\* What the store of the cycle adds, whether or not it hits: a line that
\* the cache holds is not being fetched.
StoreAdds(c) == ~Fetching(c, lsq_store_dc.line) /\ Free(c) # {}

LEMMA StoreWaits ==
  ASSUME NEW c, Good(c), lsq_store_dc \in StoreType, NEW b
  PROVE  Waiting(AfterStore(c, b)) # {} <=>
           Waiting(c) # {} \/ (StoreLooksUp(b) /\ StoreAdds(c))
<1>1. CASE ~StoreLooksUp(b)
  BY <1>1 DEF AfterStore
<1>2. CASE StoreLooksUp(b)
  <2> DEFINE l == lsq_store_dc.line
             v == lsq_store_dc.value
             t == Touch(c, l, v)
  <2>1. lsq_store_dc.valid /\ l \in Line /\ v \in Content
    <3>1. lsq_store_dc.valid
      BY <1>2 DEF StoreLooksUp
    <3>2. lsq_store_dc # NoStore
      BY <3>1 DEF NoStore
    <3>. QED  BY <3>1, <3>2, ContentIs DEF StoreType
  <2> HIDE DEF l, v
  <2>2. CASE Hit(c, l)
    <3>1. AfterStore(c, b) = Tabled(t)
      BY <1>2, <2>2 DEF AfterStore, l, v
    <3>2. Good(t) /\ t.miss = c.miss
      BY <2>1, <2>2, TouchGood
    <3> HIDE DEF t
    <3>3. Waiting(Tabled(t)) # {} <=> Waiting(t) # {} \/ Free(t) # {}
      BY <2>1, <3>2, TabledWaits
    <3>4. Waiting(t) = Waiting(c) /\ Free(t) = Free(c)
      BY <3>2 DEF Waiting, Free
    <3>5. ~Fetching(c, l)
      BY <2>1, <2>2 DEF Good, Single, SingleAt, Fetches, Fetching
    <3>. QED  BY <1>2, <3>1, <3>3, <3>4, <3>5 DEF StoreAdds, l
  <2>3. CASE ~Hit(c, l)
    <3>1. AfterStore(c, b) = Ask(c, l)
      BY <1>2, <2>3 DEF AfterStore, l
    <3>. QED  BY <1>2, <2>1, <3>1, AskWaits DEF StoreAdds, l
  <2>. QED  BY <2>2, <2>3
<1>. QED  BY <1>1, <1>2

LEMMA SettledWaits ==
  ASSUME NEW b, Good(Fill(b)), lsq_load_dc \in LoadType,
         lsq_store_dc \in StoreType
  PROVE  Waiting(Settled(b)) # {} <=>
           \/ Waiting(Fill(b)) # {}
           \/ LoadAsks(Fill(b))
           \/ StoreLooksUp(b) /\ StoreAdds(Fill(b))
<1> DEFINE f == Fill(b)
           g == AfterLoad(f)
<1>1. Settled(b) = AfterStore(g, b)
  BY DEF Settled
<1> HIDE DEF f
<1>2. /\ Good(g)
      /\ Waiting(g) # {} <=> Waiting(f) # {} \/ LoadAsks(f)
      /\ Waiting(g) = {} => g.miss = f.miss
  BY LoadWaits DEF f
<1> HIDE DEF g
<1>3. Waiting(AfterStore(g, b)) # {} <=>
        Waiting(g) # {} \/ (StoreLooksUp(b) /\ StoreAdds(g))
  BY <1>2, StoreWaits
<1>4. Waiting(g) = {} => (StoreAdds(g) <=> StoreAdds(f))
  BY <1>2 DEF StoreAdds, Fetching, Free
<1>. QED  BY <1>1, <1>2, <1>3, <1>4 DEF f

\* A line is hit when one of the valid blocks is its own.
LEMMA HitIs ==
  ASSUME NEW c, Good(c), NEW q \in Line
  PROVE  Hit(c, q) <=> \E x \in Blocks(c) : x.valid /\ x.line = q
<1>1. c \in State /\ Placed(c) /\ SetOf[q] \in Set
  BY DEF Good
<1>2. ASSUME Hit(c, q) PROVE \E x \in Blocks(c) : x.valid /\ x.line = q
  BY <1>1, <1>2 DEF Hit, Way, VictimsOf, Blocks
<1>3. ASSUME NEW x \in Blocks(c), x.valid, x.line = q PROVE Hit(c, q)
  <2>1. CASE \E i \in VictimIdx : x = c.victim[i]
    BY <1>3, <2>1 DEF Hit, VictimsOf
  <2>2. CASE \E s \in Set, k \in 1 .. 2 : x = c.ways[s][k]
    <3>1. PICK s \in Set, k \in 1 .. 2 : x = c.ways[s][k]
      BY <2>2
    <3>2. SetOf[q] = s
      BY <1>1, <1>3, <3>1 DEF Placed
    <3>3. k = 1 \/ k = 2
      OBVIOUS
    <3>. QED  BY <1>3, <3>1, <3>2, <3>3 DEF Hit, Way
  <2>. QED  BY <1>3, <2>1, <2>2 DEF Blocks
<1>. QED  BY <1>2, <1>3

\* The line that comes in was being fetched; the fill leaves every other line
\* as unheld, every waiting entry where it is, and no less room.
LEMMA FillOpens ==
  ASSUME Good(Cache), NEW b \in BusType,
         Returned(b) # {} => b.data \in Content,
         NEW f, f = Mk(ways, victim, victim_head, Dropped)
  PROVE  /\ Waiting(f) # {} => Waiting(Fill(b)) # {}
         /\ Free(f) \subseteq Free(Fill(b))
         /\ \A q \in Line : /\ Fetching(Fill(b), q) => Fetching(f, q)
                            /\ q \in FilledLine(b) => Fetching(f, q)
                            /\ Hit(Fill(b), q) => Hit(f, q) \/ Fetching(f, q)
<1> DEFINE r == Fill(b)
           i == Lowest(Returned(b))
<1>1. /\ Good(f) /\ f.miss = Dropped /\ Blocks(f) = Blocks(Cache)
  BY DroppedGood DEF Mk, Blocks, Cache
<1>2. /\ Good(r)
      /\ \A j \in MissIdx : r.miss[j].valid => r.miss[j] = Dropped[j]
      /\ \A j \in MissIdx : Dropped[j].valid /\ ~Dropped[j].sent =>
                              r.miss[j] = Dropped[j]
      /\ \A x \in Blocks(r) :
           \/ x \in Blocks(Cache)
           \/ Returned(b) # {} /\ x = Block(Dropped[i].line, b.data)
  BY FillGood
<1> HIDE DEF r
<1>3. Waiting(f) \subseteq Waiting(r)
  BY <1>1, <1>2 DEF Waiting
<1>4. Free(f) \subseteq Free(r)
  BY <1>1, <1>2 DEF Free
<1>5. Returned(b) # {} => /\ i \in MissIdx /\ Dropped[i].valid
                          /\ Dropped[i].op = "load"
  <2>1. Returned(b) # {} => i \in Returned(b)
    BY LowestMiss DEF Returned
  <2>. QED  BY <2>1, DroppedGood DEF Returned
<1> HIDE DEF i
<1>6. ASSUME NEW q \in Line, Fetching(r, q) PROVE Fetching(f, q)
  BY <1>1, <1>2, <1>6 DEF Fetching
<1>7. ASSUME NEW q \in Line, Returned(b) # {}, Dropped[i].line = q
      PROVE  Fetching(f, q)
  BY <1>1, <1>5, <1>7 DEF Fetching
<1>8. ASSUME NEW q \in Line, Hit(r, q) PROVE Hit(f, q) \/ Fetching(f, q)
  <2>1. PICK x \in Blocks(r) : x.valid /\ x.line = q
    BY <1>2, <1>8, HitIs
  <2>2. CASE x \in Blocks(Cache)
    BY <1>1, <2>1, <2>2, HitIs
  <2>3. CASE Returned(b) # {} /\ x = Block(Dropped[i].line, b.data)
    BY <1>7, <2>1, <2>3 DEF Block
  <2>. QED  BY <1>2, <2>2, <2>3
<1>9. ASSUME NEW q \in Line, q \in FilledLine(b) PROVE Fetching(f, q)
  BY <1>7, <1>9 DEF FilledLine, i
<1>. QED  BY <1>3, <1>4, <1>6, <1>8, <1>9 DEF r

\* A transaction that is on the bus is no longer under way, and its tag has
\* gone to no other.
BusGone ==
  bus.tag # 0 => \A k \in DOMAIN in_flight : in_flight[k].tag # bus.tag

LEMMA BusGoneStep ==
  ASSUME Inv, BusGone, [DCacheCycle]_dcacheVars PROVE BusGone'
<1>1. CASE UNCHANGED dcacheVars
  BY <1>1 DEF dcacheVars, BusGone
<1>2. CASE DCacheCycle
  <2>1. PICK ifetch \in BOOLEAN, ends \in {FALSE, in_flight # <<>>} :
          LET req == ToMem(Settled(bus), ifetch)
              c == Settled(NextBus(ends))
          IN  /\ Steady => ToMem(c, ifetch) = req
              /\ MemoryStep(req, ends)
    BY <1>2, CycleIs
  <2> DEFINE req == ToMem(Settled(bus), ifetch)
  <2>2. \/ /\ req.op \in {"load", "store"} /\ req.line \in Line
           /\ req.value \in Data
        \/ req.op \in {"ifetch", "none"} /\ req.line = NoLine
    BY <2>1, RequestIs
  <2>3. MemoryStep(req, ends)
    BY <2>1
  <2> HIDE DEF req
  <2>4. /\ \A k \in DOMAIN in_flight' :
             \/ Response(req) # 0 /\ in_flight'[k] = Transaction(req)
             \/ \E j \in DOMAIN in_flight : /\ j # 1 \/ ~ends
                                            /\ in_flight'[k] = in_flight[j]
        /\ Response(req) # 0 => /\ Response(req) \in FreeTags
                                /\ Transaction(req).tag = Response(req)
    BY <2>2, <2>3, MemoryGood
  <2>5. bus' = NextBus(ends)
    BY <2>3 DEF MemoryStep
  <2>6. SUFFICES ASSUME bus'.tag # 0, NEW k \in DOMAIN in_flight'
                 PROVE  in_flight'[k].tag # bus'.tag
    BY DEF BusGone
  <2>7. ends /\ bus'.tag = Head(in_flight).tag /\ in_flight # <<>>
    BY <2>5, <2>6 DEF NextBus, NoBus
  <2>8. in_flight \in Seq(TransactionType)
    BY DEF Inv, Around
  <2>9. 1 \in DOMAIN in_flight /\ in_flight[1] = Head(in_flight)
    BY <2>7, <2>8
  <2>10. CASE Response(req) # 0 /\ in_flight'[k] = Transaction(req)
    <3>1. in_flight[1].tag \notin FreeTags
      BY <2>9 DEF FreeTags
    <3>. QED  BY <2>4, <2>7, <2>9, <2>10, <3>1
  <2>11. CASE \E j \in DOMAIN in_flight : /\ j # 1 \/ ~ends
                                          /\ in_flight'[k] = in_flight[j]
    BY <2>7, <2>9, <2>11 DEF Inv, Tags
  <2>. QED  BY <2>4, <2>6, <2>10, <2>11
<1>. QED  BY <1>1, <1>2

LEMMA InvStands ==
  ASSUME Inv, BusGone, Steady PROVE RequestStands
<1>1. SUFFICES ASSUME Offered(Settled(bus)) # {},
                      NEW ends \in {FALSE, in_flight # <<>>}
               PROVE  Offered(Settled(NextBus(ends))) # {}
  BY DEF RequestStands
<1> DEFINE b == NextBus(ends)
           f == Mk(ways, victim, victim_head, Dropped)
<1>2. /\ Good(Cache) /\ lsq_load_dc \in LoadType /\ lsq_store_dc \in StoreType
      /\ b \in BusType /\ (Returned(b) # {} => b.data \in Content)
      /\ bus \in BusType
  BY DataReturned DEF Inv, Around
<1>3. Returned(bus) = {}
  <2>1. SUFFICES ASSUME NEW i \in Returned(bus) PROVE FALSE
    OBVIOUS
  <2>2. /\ i \in MissIdx /\ bus.tag # 0 /\ Dropped[i].tag = bus.tag
        /\ Dropped[i].valid /\ Dropped[i].sent
    BY <2>1 DEF Returned
  <2>3. Dropped[i] = miss_entries[i] /\ Dropped[i].op = "load"
    BY <1>2, <2>2, DroppedGood
  <2>. QED  BY <2>2, <2>3 DEF Inv, SentMeansInFlight, BusGone
<1>4. Fill(bus) = f /\ FilledLine(bus) = {}
  BY <1>3 DEF Fill, FilledLine, Mk
<1>5. Good(f)
  BY <1>2, DroppedGood
<1>6. Good(Fill(b)) /\ Good(Settled(b)) /\ Good(Settled(bus))
  BY <1>2, <1>3, FillGood, SettledGood
<1>7. /\ Waiting(f) # {} => Waiting(Fill(b)) # {}
      /\ Free(f) \subseteq Free(Fill(b))
      /\ \A q \in Line : /\ Fetching(Fill(b), q) => Fetching(f, q)
                         /\ q \in FilledLine(b) => Fetching(f, q)
                         /\ Hit(Fill(b), q) => Hit(f, q) \/ Fetching(f, q)
  BY <1>2, FillOpens
<1> HIDE DEF f, b
<1>8. Waiting(Settled(bus)) # {}
  BY <1>1, <1>6, OfferedWaits
<1>9. \/ Waiting(f) # {}
      \/ LoadAsks(f)
      \/ StoreLooksUp(bus) /\ StoreAdds(f)
  BY <1>2, <1>4, <1>5, <1>8, SettledWaits
<1>10. Waiting(Settled(b)) # {} <=>
         \/ Waiting(Fill(b)) # {}
         \/ LoadAsks(Fill(b))
         \/ StoreLooksUp(b) /\ StoreAdds(Fill(b))
  BY <1>2, <1>6, SettledWaits
<1>11. CASE LoadAsks(f)
  <2>1. lsq_load_dc.line \in Line
    <3>1. lsq_load_dc # NoLoad
      BY <1>11 DEF LoadAsks, NoLoad
    <3>. QED  BY <1>2, <3>1 DEF LoadType
  <2>2. LoadAsks(Fill(b))
    BY <1>7, <1>11, <2>1 DEF LoadAsks
  <2>. QED  BY <1>6, <1>10, <2>2, OfferedWaits DEF b
<1>12. CASE StoreLooksUp(bus) /\ StoreAdds(f)
  <2>1. lsq_store_dc.valid /\ lsq_store_dc.line \in Line
    <3>1. lsq_store_dc.valid
      BY <1>12 DEF StoreLooksUp
    <3>2. lsq_store_dc # NoStore
      BY <3>1 DEF NoStore
    <3>. QED  BY <1>2, <3>1, <3>2 DEF StoreType
  <2>2. StoreLooksUp(b) /\ StoreAdds(Fill(b))
    BY <1>7, <1>12, <2>1 DEF StoreLooksUp, StoreAdds
  <2>. QED  BY <1>6, <1>10, <2>2, OfferedWaits DEF b
<1>13. CASE Waiting(f) # {}
  BY <1>6, <1>7, <1>10, <1>13, OfferedWaits DEF b
<1>. QED  BY <1>9, <1>11, <1>12, <1>13

\* The request that dcache_l2.sv offers before the falling edge does not go
\* away after it: do_Ifetch of pipeline.sv does not rise in the middle of a
\* cycle, whatever the memory returns there.
THEOREM DCacheRequestStands == Steady => (DCacheSpec => []RequestStands)
<1> SUFFICES ASSUME Steady PROVE DCacheSpec => []RequestStands
  OBVIOUS
<1>1. DCacheInit => BusGone
  BY DEF DCacheInit, BusGone, NoBus
<1>2. Inv /\ BusGone /\ [DCacheCycle]_dcacheVars => BusGone'
  BY BusGoneStep
<1>3. Inv /\ BusGone => RequestStands
  BY InvStands
<1>. QED  BY InvHolds, <1>1, <1>2, <1>3, PTL DEF DCacheSpec

\* A fetch that miss_entries marks as sent has a transaction of its own
\* under its tag, whatever ends and is accepted in the cycle.
THEOREM DCacheSentInFlight == Steady => (DCacheSpec => []SentMeansInFlight)
BY DCacheCorrect, PTL

-----------------------------------------------------------------------------
(* Coherence.  In the steady cycles no store that has been acknowledged is *)
(* missing from memory or from a copy of its line, and a load is answered  *)
(* with what the stores before it have left.                               *)

\* What is cached of a line is in M of the line.
Fresh(c, M) == \A x \in Blocks(c) : x.valid => x.data \in M[x.line]

\* A store that waits to be sent is the store of the cycle.
OwnEntry(e) ==
  /\ lsq_store_dc.valid
  /\ e.line = lsq_store_dc.line /\ e.value = lsq_store_dc.value

Waits(e) == e.valid /\ e.op = "store" /\ ~e.sent

Own(c) == \A i \in MissIdx : Waits(c.miss[i]) => OwnEntry(c.miss[i])

-----------------------------------------------------------------------------
(* The steps of the logic.                                                 *)

LEMMA DataOfBlock ==
  ASSUME NEW c, Good(c), NEW l \in Line, Hit(c, l)
  PROVE  \E x \in Blocks(c) : x.valid /\ x.line = l /\ x.data = DataOf(c, l)
<1>1. SetOf[l] \in Set
  OBVIOUS
<1>2. CASE Way(c, l, 1)
  BY <1>1, <1>2 DEF Blocks, Way, DataOf
<1>3. CASE ~Way(c, l, 1) /\ Way(c, l, 2)
  BY <1>1, <1>3 DEF Blocks, Way, DataOf
<1>4. CASE ~Way(c, l, 1) /\ ~Way(c, l, 2)
  <2> DEFINE i == Lowest(VictimsOf(c, l))
  <2>1. i \in VictimsOf(c, l)
    BY <1>4, LowestVictim DEF Hit, VictimsOf
  <2>2. DataOf(c, l) = c.victim[i].data
    BY <1>4 DEF DataOf
  <2> HIDE DEF i
  <2>. QED  BY <2>1, <2>2 DEF VictimsOf, Blocks
<1>. QED  BY <1>2, <1>3, <1>4

\* A line that is in the first way is nowhere else.
LEMMA OneBlock ==
  ASSUME NEW r, Good(r), NEW l \in Line, NEW d \in Content,
         r.ways[SetOf[l]][1] = Block(l, d)
  PROVE  /\ Hit(r, l)
         /\ \A x \in Blocks(r) : x.valid /\ x.line = l => x.data = d
<1>1. Placed(r) /\ SingleAt(r, l)
  BY DEF Good, Single
<1>2. Way(r, l, 1)
  BY BlockIs DEF Way
<1>3. ~Way(r, l, 2) /\ VictimsOf(r, l) = {}
  BY <1>1, <1>2 DEF SingleAt
<1>4. ASSUME NEW s \in Set, NEW k \in 1 .. 2,
             r.ways[s][k].valid, r.ways[s][k].line = l
      PROVE  r.ways[s][k].data = d
  <2>1. s = SetOf[l]
    BY <1>1, <1>4 DEF Placed
  <2>2. k = 1
    BY <1>3, <1>4, <2>1 DEF Way
  <2>. QED  BY <2>1, <2>2 DEF Block
<1>5. ASSUME NEW i \in VictimIdx, r.victim[i].valid PROVE r.victim[i].line # l
  BY <1>3, <1>5 DEF VictimsOf
<1>. QED  BY <1>2, <1>4, <1>5 DEF Hit, Blocks

LEMMA AskFresh ==
  ASSUME NEW c, Good(c), NEW l \in Line, ~Hit(c, l), Own(c)
  PROVE  Blocks(Ask(c, l)) = Blocks(c) /\ Own(Ask(c, l))
<1>1. CASE Fetching(c, l) \/ Free(c) = {}
  BY <1>1 DEF Ask
<1>2. CASE ~Fetching(c, l) /\ Free(c) # {}
  <2> DEFINE i == Lowest(Free(c))
             e == Miss(l, 0, "load")
  <2>1. i \in MissIdx
    BY <1>2, LowestMiss DEF Free
  <2>2. /\ e \in MissType /\ e.valid /\ e.line = l /\ e.op = "load"
    BY DEF Miss, MissType
  <2>3. Fetches(c, l) = {}
    BY <1>2 DEF Fetches, Fetching
  <2>4. Ask(c, l) = WithMiss(c, i, e)
    BY <1>2 DEF Ask, WithMiss
  <2>5. ~Waits(e)
    BY <2>2 DEF Waits
  <2> HIDE DEF i, e
  <2>6. /\ Blocks(Ask(c, l)) = Blocks(c) /\ Ask(c, l).miss[i] = e
        /\ \A j \in MissIdx : j # i => Ask(c, l).miss[j] = c.miss[j]
    BY <2>1, <2>2, <2>3, <2>4, EntryGood
  <2>. QED  BY <2>5, <2>6 DEF Own
<1>. QED  BY <1>1, <1>2

\* The table takes the store, if it has room.
LEMMA TabledFresh ==
  ASSUME NEW c, Good(c), lsq_store_dc \in StoreType, lsq_store_dc.valid, Own(c)
  PROVE  /\ Blocks(Tabled(c)) = Blocks(c) /\ Own(Tabled(c))
         /\ Merges(c) \cup Free(c) # {} =>
              \E i \in MissIdx : Waits(Tabled(c).miss[i])
<1> DEFINE l == lsq_store_dc.line
           v == lsq_store_dc.value
<1>1. l \in Line /\ v \in Data
  <2>1. lsq_store_dc # NoStore
    BY DEF NoStore
  <2>. QED  BY <2>1 DEF StoreType
<1>2. c \in State /\ Placed(c) /\ c.miss \in TableType
  BY StateIs DEF Good
<1>3. ASSUME NEW i \in MissIdx, NEW e \in MissType,
             Tabled(c) = WithMiss(c, i, e),
             e.line = l, e.value = v, Waits(e)
      PROVE  /\ Blocks(Tabled(c)) = Blocks(c) /\ Own(Tabled(c))
             /\ Waits(Tabled(c).miss[i])
  <2>1. e.op = "store"
    BY <1>3 DEF Waits
  <2>2. /\ Blocks(Tabled(c)) = Blocks(c) /\ Tabled(c).miss[i] = e
        /\ \A j \in MissIdx : j # i => Tabled(c).miss[j] = c.miss[j]
    BY <1>1, <1>3, <2>1, EntryGood
  <2>. QED  BY <1>3, <2>2 DEF Own, OwnEntry
<1>4. CASE Merges(c) # {}
  <2> DEFINE i == Lowest(Merges(c))
             e == [c.miss[i] EXCEPT !.value = v]
  <2>1. i \in MissIdx /\ i \in Merges(c)
    BY <1>4, LowestMiss DEF Merges
  <2>2. /\ c.miss[i] \in MissType /\ ~c.miss[i].sent /\ c.miss[i].valid
        /\ c.miss[i].op = "store" /\ c.miss[i].line = l
    BY <1>2, <2>1 DEF Merges, TableType
  <2>3. e \in MissType /\ e.line = l /\ e.value = v /\ Waits(e)
    BY <1>1, <2>2 DEF MissType, Waits
  <2>4. Tabled(c) = WithMiss(c, i, e)
    <3>1. Tabled(c) = [c EXCEPT !.miss[i].value = v]
      BY <1>4 DEF Tabled
    <3>. QED  BY <3>1 DEF WithMiss
  <2> HIDE DEF i, e
  <2>. QED  BY <1>3, <2>1, <2>3, <2>4
<1>5. CASE Merges(c) = {} /\ Free(c) # {}
  <2> DEFINE i == Lowest(Free(c))
             e == Miss(l, v, "store")
  <2>1. i \in MissIdx
    BY <1>5, LowestMiss DEF Free
  <2>2. e \in MissType /\ e.line = l /\ e.value = v /\ Waits(e)
    BY <1>1 DEF Miss, MissType, Waits
  <2>3. Tabled(c) = WithMiss(c, i, e)
    BY <1>5 DEF Tabled, WithMiss
  <2> HIDE DEF i, e
  <2>. QED  BY <1>3, <2>1, <2>2, <2>3
<1>6. CASE Merges(c) = {} /\ Free(c) = {}
  BY <1>6 DEF Tabled
<1>. QED  BY <1>4, <1>5, <1>6

\* What the logic of a cycle is given: a typed bus, requests of the
\* load/store queue, and contents in M.
Given(b, M) ==
  /\ Good(Cache) /\ lsq_load_dc \in LoadType /\ lsq_store_dc \in StoreType
  /\ b \in BusType
  /\ Returned(b) # {} =>
       /\ b.data \in Content
       /\ b.data \in M[Dropped[Lowest(Returned(b))].line]
  /\ Fresh(Cache, M) /\ Own(Cache)
  /\ lsq_store_dc.valid => lsq_store_dc.value \in M[lsq_store_dc.line]

LEMMA FillFresh ==
  ASSUME NEW b, NEW M, Given(b, M)
  PROVE  Good(Fill(b)) /\ Fresh(Fill(b), M) /\ Own(Fill(b))
<1>1. /\ Good(Cache) /\ b \in BusType
      /\ Returned(b) # {} => b.data \in Content
      /\ Cache.miss = miss_entries
  BY DEF Given, Cache, Mk
<1>2. /\ Good(Fill(b))
      /\ \A j \in MissIdx :
           Fill(b).miss[j].valid => Fill(b).miss[j] = Dropped[j]
      /\ \A x \in Blocks(Fill(b)) :
           \/ x \in Blocks(Cache)
           \/ /\ Returned(b) # {}
              /\ x = Block(Dropped[Lowest(Returned(b))].line, b.data)
  BY <1>1, FillGood
<1>3. Own(Fill(b))
  <2>1. ASSUME NEW j \in MissIdx, Waits(Fill(b).miss[j])
        PROVE  OwnEntry(Fill(b).miss[j])
    <3>1. Fill(b).miss[j] = Dropped[j] /\ Dropped[j].valid
      BY <1>2, <2>1 DEF Waits
    <3>2. Fill(b).miss[j] = Cache.miss[j]
      BY <1>1, <3>1, DroppedGood
    <3>. QED  BY <2>1, <3>2 DEF Given, Own
  <2>. QED  BY <2>1 DEF Own
<1>4. Fresh(Fill(b), M)
  <2>1. SUFFICES ASSUME NEW x \in Blocks(Fill(b)), x.valid
                 PROVE  x.data \in M[x.line]
    BY DEF Fresh
  <2>2. CASE x \in Blocks(Cache)
    BY <2>1, <2>2 DEF Given, Fresh
  <2>3. CASE Returned(b) # {}
             /\ x = Block(Dropped[Lowest(Returned(b))].line, b.data)
    BY <2>3 DEF Given, Block
  <2>. QED  BY <1>2, <2>2, <2>3
<1>. QED  BY <1>2, <1>3, <1>4

LEMMA AfterLoadFresh ==
  ASSUME NEW b, NEW M, Given(b, M), NEW c,
         Good(c), Fresh(c, M), Own(c)
  PROVE  LET r == AfterLoad(c) IN Good(r) /\ Fresh(r, M) /\ Own(r)
<1> DEFINE l == lsq_load_dc.line
           d == DataOf(c, l)
           r == AfterLoad(c)
<1>1. CASE ~lsq_load_dc.valid
  BY <1>1 DEF AfterLoad
<1>2. CASE lsq_load_dc.valid
  <2>1. l \in Line
    <3>1. lsq_load_dc # NoLoad
      BY <1>2 DEF NoLoad
    <3>. QED  BY <3>1 DEF LoadType, Given
  <2>2. CASE Hit(c, l)
    <3>1. d \in Content
      BY <2>1, <2>2, DataOfIs
    <3>2. r = Touch(c, l, d)
      BY <1>2, <2>2 DEF AfterLoad
    <3>3. d \in M[l]
      BY <2>1, <2>2, DataOfBlock DEF Fresh
    <3> HIDE DEF d, l, r
    <3>4. /\ Good(r) /\ r.miss = c.miss
          /\ Blocks(r) \subseteq Blocks(c) \cup {Block(l, d)}
      BY <2>1, <2>2, <3>1, <3>2, TouchGood DEF l
    <3>5. Fresh(r, M)
      BY <3>3, <3>4 DEF Fresh, Block
    <3>. QED  BY <3>4, <3>5 DEF Own, r
  <2>3. CASE ~Hit(c, l)
    <3>1. r = Ask(c, l)
      BY <1>2, <2>3 DEF AfterLoad
    <3>. QED  BY <2>1, <2>3, <3>1, AskGood, AskFresh DEF Fresh
  <2>. QED  BY <2>2, <2>3
<1>. QED  BY <1>1, <1>2

\* A store that the logic takes is the only content of its line, and waits in
\* the table.
LEMMA SettledFresh ==
  ASSUME NEW b, NEW M, Given(b, M)
  PROVE  LET r == Settled(b)
         IN  /\ Fresh(r, M) /\ Own(r)
             /\ StoreTabled(b) =>
                  /\ lsq_store_dc.valid
                  /\ Hit(r, lsq_store_dc.line)
                  /\ \A x \in Blocks(r) :
                       x.valid /\ x.line = lsq_store_dc.line =>
                         x.data = lsq_store_dc.value
                  /\ \E i \in MissIdx : Waits(r.miss[i])
<1> DEFINE c == AfterLoad(Fill(b))
           l == lsq_store_dc.line
           v == lsq_store_dc.value
           r == AfterStore(c, b)
<1>1. Good(c) /\ Fresh(c, M) /\ Own(c)
  BY FillFresh, AfterLoadFresh
<1>2. /\ Settled(b) = r
      /\ StoreTabled(b) = (/\ StoreLooksUp(b) /\ Hit(c, l)
                           /\ Merges(c) \cup Free(c) # {})
  BY DEF Settled, StoreTabled
<1> HIDE DEF c
<1>3. CASE ~StoreLooksUp(b)
  BY <1>1, <1>2, <1>3 DEF AfterStore
<1>4. CASE StoreLooksUp(b)
  <2>1. /\ lsq_store_dc.valid /\ l \in Line /\ v \in Data
        /\ v \in Content /\ v \in M[l] /\ lsq_store_dc \in StoreType
    <3>1. lsq_store_dc.valid
      BY <1>4 DEF StoreLooksUp
    <3>2. lsq_store_dc # NoStore
      BY <3>1 DEF NoStore
    <3>. QED  BY <3>1, <3>2, ContentIs DEF StoreType, Given
  <2>2. CASE Hit(c, l)
    <3> DEFINE t == Touch(c, l, v)
    <3>1. /\ Good(t) /\ t.miss = c.miss
          /\ Blocks(t) \subseteq Blocks(c) \cup {Block(l, v)}
          /\ t.ways[SetOf[l]][1] = Block(l, v)
      BY <1>1, <2>1, <2>2, TouchGood
    <3>2. r = Tabled(t)
      BY <1>4, <2>2 DEF AfterStore
    <3> HIDE DEF t, r
    <3>3. Fresh(t, M)
      BY <1>1, <2>1, <3>1 DEF Fresh, Block
    <3>4. Own(t)
      BY <1>1, <3>1 DEF Own
    <3>5. /\ Hit(t, l)
          /\ \A x \in Blocks(t) : x.valid /\ x.line = l => x.data = v
      BY <2>1, <3>1, OneBlock
    <3>6. Merges(t) = Merges(c) /\ Free(t) = Free(c)
      BY <3>1 DEF Merges, Free
    <3>7. /\ Blocks(r) = Blocks(t) /\ Own(r)
          /\ Merges(c) \cup Free(c) # {} => \E i \in MissIdx : Waits(r.miss[i])
      BY <2>1, <3>1, <3>2, <3>4, <3>6, TabledFresh
    <3>8. Fresh(r, M)
      BY <3>3, <3>7 DEF Fresh
    <3>9. Hit(r, l)
      <4>1. Tabled(t).ways = t.ways
        BY DEF Tabled
      <4>2. Way(r, l, 1)
        BY <2>1, <3>1, <3>2, <4>1, BlockIs DEF Way
      <4>. QED  BY <4>2 DEF Hit
    <3>. QED  BY <1>2, <2>1, <3>5, <3>7, <3>8, <3>9
  <2>3. CASE ~Hit(c, l)
    <3>1. r = Ask(c, l)
      BY <1>4, <2>3 DEF AfterStore
    <3>2. Blocks(r) = Blocks(c) /\ Own(r)
      BY <1>1, <2>1, <2>3, <3>1, AskFresh
    <3> HIDE DEF r
    <3>. QED  BY <1>1, <1>2, <2>3, <3>2 DEF Fresh
  <2>. QED  BY <2>2, <2>3
<1>. QED  BY <1>3, <1>4

-----------------------------------------------------------------------------
(* A cycle.                                                                *)

Coherent ==
  /\ coherent \in [Line -> Data]
  /\ Own(Cache)
  /\ AckedStoresAreEverywhere

CInv == Inv /\ Coherent

\* What a copy of a line may hold.
Allowed == [l \in Line |-> May(l)]

LEMMA CycleGiven ==
  ASSUME CInv, Steady, NEW ends \in {FALSE, in_flight # <<>>}
  PROVE  Given(NextBus(ends), Allowed)
<1> DEFINE b == NextBus(ends)
<1>1. /\ Good(Cache) /\ lsq_load_dc \in LoadType /\ lsq_store_dc \in StoreType
      /\ b \in BusType /\ (Returned(b) # {} => b.data \in Content)
      /\ Own(Cache) /\ Placed(Cache)
      /\ Cache.ways = ways /\ Cache.victim = victim
      /\ Cache.miss = miss_entries
  BY DataReturned DEF CInv, Inv, Around, Coherent, Good, Cache, Mk
<1>2. Fresh(Cache, Allowed)
  <2>1. ASSUME NEW s \in Set, NEW k \in 1 .. 2, ways[s][k].valid
        PROVE  ways[s][k].data \in Allowed[ways[s][k].line]
    <3>1. ways[s][k].line \in Line
      BY <1>1, <2>1 DEF Placed
    <3>2. ways[s][k].data \in May(ways[s][k].line)
      BY <2>1 DEF CInv, Coherent, AckedStoresAreEverywhere
    <3>. QED  BY <3>1, <3>2 DEF Allowed
  <2>2. ASSUME NEW i \in VictimIdx, victim[i].valid
        PROVE  victim[i].data \in Allowed[victim[i].line]
    <3>1. victim[i].line \in Line
      BY <1>1, <2>2 DEF Placed
    <3>2. victim[i].data \in May(victim[i].line)
      BY <2>2 DEF CInv, Coherent, AckedStoresAreEverywhere
    <3>. QED  BY <3>1, <3>2 DEF Allowed
  <2>. QED  BY <1>1, <2>1, <2>2 DEF Fresh, Blocks
<1>3. lsq_store_dc.valid =>
        lsq_store_dc.value \in Allowed[lsq_store_dc.line]
  <2>1. SUFFICES ASSUME lsq_store_dc.valid
                 PROVE  lsq_store_dc.value \in Allowed[lsq_store_dc.line]
    OBVIOUS
  <2>2. lsq_store_dc # NoStore
    BY <2>1 DEF NoStore
  <2>3. lsq_store_dc.line \in Line
    BY <1>1, <2>2 DEF StoreType
  <2>. QED  BY <2>1, <2>3 DEF Allowed, May, PendingValue
<1>4. Returned(b) # {} =>
        b.data \in Allowed[Dropped[Lowest(Returned(b))].line]
  <2> DEFINE i == Lowest(Returned(b))
  <2>1. SUFFICES ASSUME Returned(b) # {}
                 PROVE  b.data \in Allowed[Dropped[i].line]
    OBVIOUS
  <2>2. i \in Returned(b) /\ i \in MissIdx
    BY <2>1, LowestMiss DEF Returned
  <2> HIDE DEF i
  <2>3. Dropped[i].valid /\ Dropped[i].sent
    BY <2>2 DEF Returned
  <2>4. Dropped[i] = miss_entries[i] /\ Dropped[i].line \in Line
    BY <1>1, <2>2, <2>3, DroppedGood DEF Placed
  <2>5. /\ ends /\ Head(in_flight).op = "load"
        /\ Head(in_flight).tag = Dropped[i].tag
        /\ Head(in_flight).line = Dropped[i].line
    BY <2>2, ReturnedIs DEF CInv
  <2>6. in_flight # <<>>
    BY <2>5
  <2>7. 1 \in DOMAIN in_flight /\ Head(in_flight) = in_flight[1]
    BY <2>6 DEF CInv, Inv, Around
  <2>8. Head(in_flight).data \in May(Dropped[i].line)
    BY <2>2, <2>3, <2>4, <2>5, <2>7
       DEF CInv, Coherent, AckedStoresAreEverywhere
  <2>9. b.data = Head(in_flight).data
    BY <2>5 DEF NextBus
  <2>. QED  BY <2>4, <2>8, <2>9 DEF Allowed
<1>. QED  BY <1>1, <1>2, <1>3, <1>4 DEF Given

LEMMA AnswerIs ==
  ASSUME CInv, Steady PROVE LoadsAreCoherent
<1>1. SUFFICES ASSUME NEW ends \in {FALSE, in_flight # <<>>},
                      Answered(NextBus(ends))
               PROVE  Answer(NextBus(ends)) \in May(lsq_load_dc.line)
  BY DEF LoadsAreCoherent
<1> DEFINE f == Fill(NextBus(ends))
           l == lsq_load_dc.line
<1>2. lsq_load_dc.valid /\ Hit(f, l)
  BY <1>1 DEF Answered
<1>3. l \in Line
  <2>1. lsq_load_dc # NoLoad
    BY <1>2 DEF NoLoad
  <2>. QED  BY <2>1 DEF CInv, Inv, Around, LoadType
<1>4. Good(f) /\ Fresh(f, Allowed)
  BY CycleGiven, FillFresh
<1>5. Answer(NextBus(ends)) = DataOf(f, l)
  BY DEF Answer
<1> HIDE DEF f, l
<1>6. DataOf(f, l) \in Allowed[l]
  BY <1>2, <1>3, <1>4, DataOfBlock DEF Fresh
<1>. QED  BY <1>3, <1>5, <1>6 DEF Allowed, l

LEMMA CoherentCycleIs ==
  ASSUME DCacheCycle
  PROVE  \E ifetch \in BOOLEAN, ends \in {FALSE, in_flight # <<>>} :
           LET req == ToMem(Settled(bus), ifetch)
               c == Settled(NextBus(ends))
               acked == Acknowledged(NextBus(ends), Sent(c, Response(req)))
           IN  /\ Steady => ToMem(c, ifetch) = req
               /\ MemoryStep(req, ends)
               /\ ways' = c.ways /\ victim' = c.victim
               /\ miss_entries' = Sent(c, Response(req))
               /\ coherent' = IF acked
                              THEN [coherent EXCEPT ![lsq_store_dc.line] =
                                      lsq_store_dc.value]
                              ELSE coherent
               /\ NextStore(acked)
BY DEF DCacheCycle

\* What a line may hold after the cycle: what it could, unless the store to it
\* has been acknowledged; then, what was stored.
LEMMA MayGrows ==
  ASSUME CInv, NEW acked \in BOOLEAN, NextStore(acked),
         acked => lsq_store_dc.valid,
         coherent' = IF acked
                     THEN [coherent EXCEPT ![lsq_store_dc.line] =
                             lsq_store_dc.value]
                     ELSE coherent
  PROVE  /\ \A l \in Line : ~acked \/ l # lsq_store_dc.line =>
              May(l) \subseteq May(l)'
         /\ \A l \in Line : acked /\ l = lsq_store_dc.line =>
              lsq_store_dc.value \in May(l)'
         /\ coherent' \in [Line -> Data]
<1>1. coherent \in [Line -> Data] /\ lsq_store_dc \in StoreType
  BY DEF CInv, Coherent, Inv, Around
<1>2. lsq_store_dc.valid => lsq_store_dc.line \in Line
                            /\ lsq_store_dc.value \in Data
  <2>1. SUFFICES ASSUME lsq_store_dc.valid
                 PROVE  lsq_store_dc.line \in Line /\ lsq_store_dc.value \in Data
    OBVIOUS
  <2>2. lsq_store_dc # NoStore
    BY <2>1 DEF NoStore
  <2>. QED  BY <1>1, <2>2 DEF StoreType
<1>3. CASE ~acked
  <2>1. lsq_store_dc.valid => lsq_store_dc' = lsq_store_dc
    BY <1>3 DEF NextStore
  <2>2. coherent' = coherent
    BY <1>3
  <2>3. ASSUME NEW l \in Line PROVE May(l) \subseteq May(l)'
    BY <2>1, <2>2 DEF May, PendingValue
  <2>. QED  BY <1>1, <1>3, <2>2, <2>3
<1>4. CASE acked
  <2>1. lsq_store_dc.valid /\ lsq_store_dc.line \in Line
    BY <1>2, <1>4
  <2>2. coherent' = [coherent EXCEPT ![lsq_store_dc.line] = lsq_store_dc.value]
    BY <1>4
  <2>3. coherent' \in [Line -> Data]
    BY <1>1, <1>2, <2>1, <2>2
  <2>4. coherent'[lsq_store_dc.line] = lsq_store_dc.value
    BY <1>1, <2>1, <2>2
  <2>5. ASSUME NEW l \in Line, l # lsq_store_dc.line
        PROVE  May(l) \subseteq May(l)'
    <3>1. coherent'[l] = coherent[l]
      BY <1>1, <2>2, <2>5
    <3>. QED  BY <2>5, <3>1 DEF May, PendingValue
  <2>6. ASSUME NEW l \in Line, l = lsq_store_dc.line
        PROVE  lsq_store_dc.value \in May(l)'
    BY <2>4, <2>6 DEF May
  <2>. QED  BY <1>4, <2>1, <2>3, <2>5, <2>6
<1>. QED  BY <1>3, <1>4

LEMMA CoherentStays ==
  ASSUME CInv, Steady, NEW ifetch \in BOOLEAN,
         NEW ends \in {FALSE, in_flight # <<>>}, NEW req, NEW c, NEW acked,
         c = Settled(NextBus(ends)),
         acked = Acknowledged(NextBus(ends), Sent(c, Response(req))),
         ToMem(c, ifetch) = req,
         MemoryStep(req, ends),
         ways' = c.ways, victim' = c.victim,
         miss_entries' = Sent(c, Response(req)),
         coherent' = IF acked
                     THEN [coherent EXCEPT ![lsq_store_dc.line] =
                             lsq_store_dc.value]
                     ELSE coherent,
         NextStore(acked)
  PROVE  Coherent'
<1> DEFINE b == NextBus(ends)
           l0 == lsq_store_dc.line
           v0 == lsq_store_dc.value
           resp == Response(req)
<1>1. Given(b, Allowed) /\ Inv
  BY CycleGiven DEF CInv
<1>2. /\ Good(c) /\ Kept(Fill(b), c)
      /\ Fresh(c, Allowed) /\ Own(c)
      /\ StoreTabled(b) =>
           /\ lsq_store_dc.valid
           /\ Hit(c, l0)
           /\ \A x \in Blocks(c) : x.valid /\ x.line = l0 => x.data = v0
           /\ \E i \in MissIdx : Waits(c.miss[i])
  <2>1. Good(c) /\ Kept(Fill(b), c)
    BY <1>1, SettledGood DEF Given
  <2>. QED  BY <1>1, <2>1, SettledFresh
<1>3. /\ acked \in BOOLEAN
      /\ acked => StoreTabled(b)
      /\ acked => \A i \in MissIdx : ~Waits(miss_entries'[i])
  BY DEF Acknowledged, Waits
<1>4. /\ \A l \in Line : ~acked \/ l # l0 => May(l) \subseteq May(l)'
      /\ \A l \in Line : acked /\ l = l0 => v0 \in May(l)'
      /\ coherent' \in [Line -> Data]
  BY <1>2, <1>3, MayGrows
<1>5. Placed(c) /\ Single(c) /\ c.miss \in TableType
  BY <1>2, StateIs DEF Good
<1>6. ASSUME NEW i \in MissIdx
      PROVE  /\ c.miss[i] \in MissType
             /\ i \notin Offered(c) => miss_entries'[i] = c.miss[i]
             /\ i \in Offered(c) =>
                  /\ miss_entries'[i] = [c.miss[i] EXCEPT !.sent = resp # 0,
                                                          !.tag = resp]
                  /\ c.miss[i].valid /\ ~c.miss[i].sent
                  /\ req.op = c.miss[i].op /\ req.line = c.miss[i].line
                  /\ req.value = c.miss[i].value
  <2>1. c.miss[i] \in MissType
    BY <1>5 DEF TableType
  <2>2. i \notin Offered(c) => miss_entries'[i] = c.miss[i]
    BY DEF Sent
  <2>3. i \in Offered(c) =>
          miss_entries'[i] = [c.miss[i] EXCEPT !.sent = resp # 0, !.tag = resp]
    BY DEF Sent
  <2>4. ASSUME i \in Offered(c)
        PROVE  /\ c.miss[i].valid /\ ~c.miss[i].sent
               /\ req.op = c.miss[i].op /\ req.line = c.miss[i].line
               /\ req.value = c.miss[i].value
    <3>1. i \in Unsent(c, "store") \cup Unsent(c, "load")
      <4>1. \A op \in {"load", "store"} : Unsent(c, op) # {} =>
              Lowest(Unsent(c, op)) \in Unsent(c, op)
        BY LowestMiss DEF Unsent
      <4>. QED  BY <2>4, <4>1 DEF Offered
    <3>. QED  BY <2>4, <3>1, OfferedIs DEF Unsent
  <2>. QED  BY <2>1, <2>2, <2>3, <2>4
<1>7. \/ /\ req.op \in {"load", "store"} /\ req.line \in Line
         /\ req.value \in Data
      \/ req.op \in {"ifetch", "none"} /\ req.line = NoLine
  BY <1>2, ToMemIs
<1>8. /\ Tags'
      /\ resp # 0 =>
           \E j \in DOMAIN in_flight' : in_flight'[j] = Transaction(req)
      /\ \A k \in DOMAIN in_flight' :
           \/ resp # 0 /\ in_flight'[k] = Transaction(req)
           \/ \E j \in DOMAIN in_flight : in_flight'[k] = in_flight[j]
      /\ resp # 0 => resp \in FreeTags /\ Transaction(req).tag = resp
  BY <1>1, <1>7, MemoryGood
\* The store of the cycle is written when it is acknowledged.
<1>9. ASSUME acked
      PROVE  resp # 0 /\ req.op = "store" /\ req.line = l0 /\ req.value = v0
  <2>1. PICK i \in MissIdx : Waits(c.miss[i])
    BY <1>2, <1>3, <1>9
  <2>2. OwnEntry(c.miss[i])
    BY <1>2, <2>1 DEF Own
  <2>3. ~Waits(miss_entries'[i])
    BY <1>3, <1>9
  <2>4. i \in Offered(c)
    BY <1>6, <2>1, <2>3
  <2>5. resp # 0
    BY <1>6, <2>1, <2>3, <2>4 DEF Waits, MissType
  <2>. QED  BY <1>6, <2>1, <2>2, <2>4, <2>5 DEF Waits, OwnEntry
\* A store that is written is the store of the cycle.
<1>10. ASSUME req.op = "store"
       PROVE  lsq_store_dc.valid /\ req.line = l0 /\ req.value = v0
  <2>1. Offered(c) # {}
    BY <1>10 DEF ToMem, Nothing
  <2>2. PICK i \in MissIdx : i \in Offered(c)
    <3>1. \A op \in {"load", "store"} : Unsent(c, op) # {} =>
            Lowest(Unsent(c, op)) \in MissIdx
      BY LowestMiss DEF Unsent
    <3>. QED  BY <2>1, <3>1 DEF Offered
  <2>3. Waits(c.miss[i])
    BY <1>6, <1>10, <2>2 DEF Waits
  <2>4. OwnEntry(c.miss[i])
    BY <1>2, <2>3 DEF Own
  <2>. QED  BY <1>6, <2>2, <2>4 DEF OwnEntry
<1>11. Own(Cache)'
  <2>1. ASSUME NEW i \in MissIdx, Waits(miss_entries'[i])
        PROVE  /\ lsq_store_dc'.valid
               /\ miss_entries'[i].line = lsq_store_dc'.line
               /\ miss_entries'[i].value = lsq_store_dc'.value
    <3>1. /\ Waits(c.miss[i]) /\ miss_entries'[i].line = c.miss[i].line
          /\ miss_entries'[i].value = c.miss[i].value
      BY <1>6, <2>1 DEF Waits, MissType
    <3>2. OwnEntry(c.miss[i])
      BY <1>2, <3>1 DEF Own
    <3>3. ~acked
      BY <1>3, <2>1
    <3>4. lsq_store_dc' = lsq_store_dc
      BY <3>2, <3>3 DEF OwnEntry, NextStore
    <3>. QED  BY <3>1, <3>2, <3>4 DEF OwnEntry
  <2>. QED  BY <2>1 DEF Own, OwnEntry, Waits, Cache, Mk
<1>12. ASSUME NEW l \in Line PROVE memory'[l] \in May(l)'
  <2>1. memory \in [Line -> Data] /\ memory[l] \in May(l)
    BY DEF CInv, Inv, Around, Coherent, AckedStoresAreEverywhere
  <2>2. CASE resp # 0 /\ req.op = "store"
    <3>1. lsq_store_dc.valid /\ req.line = l0 /\ req.value = v0 /\ l0 \in Line
      BY <1>7, <1>10, <2>2
    <3>2. memory' = [memory EXCEPT ![l0] = v0]
      BY <2>2, <3>1 DEF MemoryStep
    <3>3. CASE l = l0
      <4>1. memory'[l] = v0
        BY <2>1, <3>2, <3>3
      <4>2. v0 \in May(l)
        BY <3>1, <3>3 DEF May, PendingValue
      <4>. QED  BY <1>3, <1>4, <3>3, <4>1, <4>2
    <3>4. CASE l # l0
      <4>1. memory'[l] = memory[l]
        BY <2>1, <3>2, <3>4
      <4>. QED  BY <1>4, <2>1, <3>4, <4>1
    <3>. QED  BY <3>3, <3>4
  <2>3. CASE ~(resp # 0 /\ req.op = "store")
    <3>1. memory' = memory
      BY <2>3 DEF MemoryStep
    <3>2. ~acked
      BY <1>9, <2>3
    <3>. QED  BY <1>4, <2>1, <3>1, <3>2
  <2>. QED  BY <2>2, <2>3
<1>13. ASSUME NEW x \in Blocks(c), x.valid, x.line \in Line
       PROVE  \A l \in Line : l = x.line => x.data \in May(l)'
  <2>1. SUFFICES ASSUME NEW l \in Line, l = x.line PROVE x.data \in May(l)'
    OBVIOUS
  <2>2. x.data \in May(l)
    BY <1>2, <1>13, <2>1 DEF Fresh, Allowed
  <2>3. CASE ~acked \/ l # l0
    BY <1>4, <2>2, <2>3
  <2>4. CASE acked /\ l = l0
    <3>1. x.data = v0
      BY <1>2, <1>3, <1>13, <2>1, <2>4
    <3>. QED  BY <1>4, <2>4, <3>1
  <2>. QED  BY <1>3, <2>3, <2>4
<1>14. ASSUME NEW s \in Set, NEW k \in 1 .. 2, ways'[s][k].valid
       PROVE  ways'[s][k].data \in May(ways[s][k].line)'
  <2>1. c.ways[s][k] \in Blocks(c) /\ c.ways[s][k].line \in Line
    BY <1>5, <1>14 DEF Blocks, Placed
  <2>2. ASSUME NEW l \in Line, l = ways'[s][k].line
        PROVE  ways'[s][k].data \in May(l)'
    BY <1>13, <1>14, <2>1, <2>2
  <2>. QED  BY <2>1, <2>2 DEF May, PendingValue
<1>15. ASSUME NEW i \in VictimIdx, victim'[i].valid
       PROVE  victim'[i].data \in May(victim[i].line)'
  <2>1. c.victim[i] \in Blocks(c) /\ c.victim[i].line \in Line
    BY <1>5, <1>15 DEF Blocks, Placed
  <2>2. ASSUME NEW l \in Line, l = victim'[i].line
        PROVE  victim'[i].data \in May(l)'
    BY <1>13, <1>15, <2>1, <2>2
  <2>. QED  BY <2>1, <2>2 DEF May, PendingValue
\* The line of a fetch is not that of a store that has been acknowledged.
<1>16. ASSUME NEW i \in MissIdx, c.miss[i].valid, c.miss[i].op = "load"
       PROVE  /\ c.miss[i].line \in Line
              /\ \A l \in Line : l = c.miss[i].line => May(l) \subseteq May(l)'
  <2>1. c.miss[i].line \in Line
    BY <1>5, <1>16 DEF Placed
  <2>2. acked => c.miss[i].line # l0
    <3>1. SUFFICES ASSUME acked, c.miss[i].line = l0 PROVE FALSE
      OBVIOUS
    <3>2. Hit(c, l0)
      BY <1>2, <1>3, <3>1
    <3>3. i \in Fetches(c, l0)
      BY <1>16, <3>1 DEF Fetches
    <3>4. SingleAt(c, l0)
      BY <1>5, <2>1, <3>1 DEF Single
    <3>. QED  BY <3>2, <3>3, <3>4 DEF SingleAt
  <2>. QED  BY <1>4, <2>1, <2>2
<1>17. ASSUME NEW k \in DOMAIN in_flight', in_flight'[k].op = "load",
              NEW i \in MissIdx, miss_entries'[i].valid, miss_entries'[i].sent,
              miss_entries'[i].tag = in_flight'[k].tag
       PROVE  \E l \in Line : /\ l = in_flight'[k].line
                              /\ in_flight'[k].data \in May(l)'
  <2>1. CASE i \in Offered(c)
    <3>1. /\ c.miss[i] \in MissType /\ c.miss[i].valid
           /\ miss_entries'[i] = [c.miss[i] EXCEPT !.sent = resp # 0,
                                                   !.tag = resp]
           /\ req.op = c.miss[i].op
      BY <1>6, <2>1
    <3>2. resp # 0 /\ in_flight'[k].tag = resp
      <4>1. /\ miss_entries'[i].sent = (resp # 0)
            /\ miss_entries'[i].tag = resp
        BY <3>1 DEF MissType
      <4>. QED  BY <1>17, <4>1
    <3>3. in_flight'[k] = Transaction(req)
      BY <1>8, <3>2 DEF Tags
    <3>4. req.op = "load" /\ c.miss[i].op = "load" /\ c.miss[i].valid
      <4>1. Transaction(req).op = req.op
        BY DEF Transaction
      <4>. QED  BY <1>17, <3>3, <3>1, <4>1
    <3>5. req.line = c.miss[i].line /\ req.line \in Line
      BY <1>6, <1>16, <2>1, <3>4
    <3>6. /\ in_flight'[k].line = req.line
          /\ in_flight'[k].data = memory[req.line]
      BY <3>3, <3>4 DEF Transaction
    <3>7. memory[req.line] \in May(req.line)
      BY <3>5 DEF CInv, Coherent, AckedStoresAreEverywhere
    <3>. QED  BY <1>16, <3>4, <3>5, <3>6, <3>7
  <2>2. CASE i \notin Offered(c)
    <3>1. miss_entries'[i] = c.miss[i] /\ c.miss[i].valid /\ c.miss[i].sent
      BY <1>6, <1>17, <2>2
    <3>2. c.miss[i] = miss_entries[i] /\ miss_entries[i].op = "load"
      <4>1. c.miss[i] = Fill(b).miss[i]
        BY <1>2, <3>1 DEF Kept
      <4>2. c.miss[i] = Dropped[i]
        BY <1>1, <3>1, <4>1, FillGood DEF Given
      <4>. QED  BY <1>1, <3>1, <4>2, DroppedGood DEF Given
    <3>3. PICK j \in DOMAIN in_flight :
            /\ in_flight[j].tag = miss_entries[i].tag
            /\ in_flight[j].op = "load"
            /\ in_flight[j].line = miss_entries[i].line
      BY <1>1, <3>1, <3>2 DEF Inv, SentMeansInFlight
    <3>4. in_flight'[k] = in_flight[j]
      <4>1. in_flight'[k].tag = in_flight[j].tag
        BY <1>17, <3>1, <3>2, <3>3
      <4>2. in_flight[j].tag \notin FreeTags
        BY DEF FreeTags
      <4>3. PICK m \in DOMAIN in_flight : in_flight'[k] = in_flight[m]
        BY <1>8, <4>1, <4>2
      <4>4. m = j
        BY <1>1, <4>1, <4>3 DEF Inv, Tags
      <4>. QED  BY <4>3, <4>4
    <3>5. in_flight[j].data \in May(in_flight[j].line)
      BY <3>1, <3>2, <3>3 DEF CInv, Coherent, AckedStoresAreEverywhere
    <3>. QED  BY <1>16, <3>1, <3>2, <3>3, <3>4, <3>5
  <2>. QED  BY <2>1, <2>2
<1>18. ASSUME NEW k \in DOMAIN in_flight', in_flight'[k].op = "load",
              \E i \in MissIdx :
                /\ miss_entries'[i].valid /\ miss_entries'[i].sent
                /\ miss_entries'[i].tag = in_flight'[k].tag
       PROVE  in_flight'[k].data \in May(in_flight[k].line)'
  <2>1. PICK l \in Line : /\ l = in_flight'[k].line
                          /\ in_flight'[k].data \in May(l)'
    BY <1>17, <1>18
  <2>. QED  BY <2>1 DEF May, PendingValue
<1>19. AckedStoresAreEverywhere'
  BY <1>12, <1>14, <1>15, <1>18 DEF AckedStoresAreEverywhere
<1>. QED  BY <1>4, <1>11, <1>19 DEF Coherent

\* In the steady cycles no store that lsq.sv has been told is done is missing
\* from memory or from a copy of its line, and every load is answered with what
\* the stores before it have left.
THEOREM DCacheCoherent ==
  Steady => (DCacheSpec => []AckedStoresAreEverywhere /\ []LoadsAreCoherent)
<1> SUFFICES ASSUME Steady
             PROVE  DCacheSpec =>
                      []AckedStoresAreEverywhere /\ []LoadsAreCoherent
  OBVIOUS
<1>1. DCacheInit => CInv
  <2> SUFFICES ASSUME DCacheInit PROVE CInv
    OBVIOUS
  <2>1. Inv
    BY InitGood
  <2>2. /\ \A s \in Set, k \in 1 .. 2 : ~ways[s][k].valid
        /\ \A i \in VictimIdx : ~victim[i].valid
        /\ \A i \in MissIdx : ~miss_entries[i].valid
        /\ in_flight = <<>>
        /\ memory \in [Line -> Data] /\ coherent = memory
    BY DEF DCacheInit, NoBlock, NoMiss
  <2>3. Own(Cache)
    BY <2>2 DEF Own, Waits, Cache, Mk
  <2>4. AckedStoresAreEverywhere
    BY <2>2 DEF AckedStoresAreEverywhere, May
  <2>. QED  BY <2>1, <2>2, <2>3, <2>4 DEF CInv, Coherent
<1>2. CInv /\ [DCacheCycle]_dcacheVars => CInv'
  <2> SUFFICES ASSUME CInv, [DCacheCycle]_dcacheVars PROVE CInv'
    OBVIOUS
  <2>1. Inv'
    BY CycleGood DEF CInv
  <2>2. CASE UNCHANGED dcacheVars
    <3>1. Coherent'
      BY <2>2 DEF dcacheVars, CInv, Coherent, Own, OwnEntry, Waits, Cache, Mk,
              AckedStoresAreEverywhere, May, PendingValue
    <3>. QED  BY <2>1, <3>1 DEF CInv
  <2>3. CASE DCacheCycle
    <3>1. Coherent'
      BY <2>3, CoherentCycleIs, CoherentStays
    <3>. QED  BY <2>1, <3>1 DEF CInv
  <2>. QED  BY <2>2, <2>3
<1>3. CInv => AckedStoresAreEverywhere /\ LoadsAreCoherent
  BY AnswerIs DEF CInv, Coherent
<1>. QED  BY <1>1, <1>2, <1>3, PTL DEF DCacheSpec

\* A store that dcache_l2.sv has acknowledged to lsq.sv is in memory, and no
\* copy of its line, cached or on its way, is older.
THEOREM DCacheNoStoreIsLost ==
  Steady => (DCacheSpec => []AckedStoresAreEverywhere)
BY DCacheCoherent, PTL
=============================================================================
