---------------------------- MODULE Order_proofs ----------------------------
(***************************************************************************)
(* Facts about numbers that the proofs share: a set of natural numbers has *)
(* a least element, and how many elements of a finite set lie below a      *)
(* number.  The circuits pick the lowest free entry, place or tag; the     *)
(* queues are in program order when an entry is as far from the head as    *)
(* there are entries in front of it.  Powers of two and remainders are     *)
(* what the numbers of a fixed width are made of.                          *)
(***************************************************************************)
EXTENDS Integers, FiniteSetTheorems, TLAPS

\* The least element rests on the well-foundedness of strict inclusion
\* between finite sets.
LEMMA LeastOf ==
  ASSUME NEW n \in Nat, NEW S \in SUBSET (0 .. n), S # {}
  PROVE  \E x \in S : \A y \in S : x =< y
<1> DEFINE T == {0 .. m : m \in S}
           Below == StrictSubsetOrdering(0 .. n)
<1>1. T \subseteq FiniteSubsetsOf(0 .. n) /\ T # {}
  <2>1. ASSUME NEW m \in S PROVE 0 .. m \in FiniteSubsetsOf(0 .. n)
    BY FS_Interval DEF FiniteSubsetsOf
  <2>. QED  BY <2>1
<1>2. PICK t \in T : \A u \in T : ~(<<u, t>> \in Below)
  BY <1>1, FS_StrictSubsetOrderingWellFounded, WFMin
<1>3. PICK x \in S : t = 0 .. x
  OBVIOUS
<1>4. ASSUME NEW y \in S, y < x PROVE FALSE
  <2>1. 0 .. y \subseteq 0 .. x /\ 0 .. y # 0 .. x
    BY <1>4
  <2>2. <<0 .. y, 0 .. x>> \in Below
    BY <2>1 DEF StrictSubsetOrdering
  <2>. QED  BY <1>2, <1>3, <2>2
<1>. QED  BY <1>4

\* A set of natural numbers need have no bound to have a least element.
LEMMA LeastNat ==
  ASSUME NEW S \in SUBSET Nat, S # {}
  PROVE  \E x \in S : \A y \in S : x =< y
<1>1. PICK n \in S : TRUE
  OBVIOUS
<1> DEFINE T == {m \in S : m =< n}
<1>2. n \in Nat /\ T \in SUBSET (0 .. n) /\ T # {}
  <2>1. n \in Nat /\ \A m \in S : m \in Nat
    OBVIOUS
  <2>2. n \in T /\ \A m \in T : m \in 0 .. n
    BY <2>1
  <2>. QED  BY <2>1, <2>2
<1>3. PICK x \in T : \A y \in T : x =< y
  <2> HIDE DEF T
  <2>. QED  BY <1>2, LeastOf
<1>4. ASSUME NEW y \in S PROVE x =< y
  BY <1>3
<1>. QED  BY <1>4

-----------------------------------------------------------------------------
\* How many elements of S lie below k.
CountBelow(S, k) == Cardinality({m \in S : m < k})

LEMMA CountBelowType ==
  ASSUME NEW S \in SUBSET Int, IsFiniteSet(S), NEW k \in Int
  PROVE  /\ IsFiniteSet({m \in S : m < k})
         /\ CountBelow(S, k) \in Nat /\ CountBelow(S, k) <= Cardinality(S)
         /\ Cardinality(S) \in Nat
<1> DEFINE T == {m \in S : m < k}
<1>1. IsFiniteSet(T) /\ Cardinality(T) <= Cardinality(S)
  <2>1. T \in SUBSET S
    OBVIOUS
  <2> HIDE DEF T
  <2>. QED  BY <2>1, FS_Subset
<1>2. Cardinality(T) \in Nat /\ Cardinality(S) \in Nat
  BY <1>1, FS_CardinalityType
<1>. QED  BY <1>1, <1>2 DEF CountBelow

\* An element counts from the next number on.
LEMMA CountBelowGrows ==
  ASSUME NEW S \in SUBSET Int, IsFiniteSet(S), NEW j \in S, NEW k \in Int,
         j < k
  PROVE  CountBelow(S, j) < CountBelow(S, k)
<1> DEFINE T == {m \in S : m < j}
           U == {m \in S : m < k}
<1>1. IsFiniteSet(T) /\ IsFiniteSet(U) /\ Cardinality(T) \in Nat
      /\ Cardinality(U) \in Nat
  BY CountBelowType DEF CountBelow
<1>2. j \notin T /\ T \cup {j} \in SUBSET U
  <2>1. j \in Int /\ \A m \in S : m \in Int
    OBVIOUS
  <2>2. j \notin T /\ j \in U /\ \A m \in T : m \in U
    BY <2>1
  <2>. QED  BY <2>2
<1> HIDE DEF T, U
<1>3. Cardinality(T \cup {j}) = Cardinality(T) + 1
  BY <1>1, <1>2, FS_AddElement
<1>4. Cardinality(T \cup {j}) <= Cardinality(U)
  BY <1>1, <1>2, FS_Subset
<1>. QED  BY <1>1, <1>3, <1>4 DEF CountBelow, T, U

LEMMA CountBelowAll ==
  ASSUME NEW S \in SUBSET Int, IsFiniteSet(S), NEW k \in Int,
         \A m \in S : m < k
  PROVE  CountBelow(S, k) = Cardinality(S)
<1>1. {m \in S : m < k} = S
  OBVIOUS
<1>. QED  BY <1>1 DEF CountBelow

LEMMA CountBelowElement ==
  ASSUME NEW S \in SUBSET Int, IsFiniteSet(S), NEW k \in S
  PROVE  CountBelow(S, k) < Cardinality(S)
<1> DEFINE T == {m \in S : m < k}
<1>1. T \in SUBSET S /\ k \notin T
  OBVIOUS
<1>2. IsFiniteSet(T) /\ Cardinality(T) \in Nat /\ Cardinality(S) \in Nat
  BY CountBelowType, FS_CardinalityType
<1>3. Cardinality(T) <= Cardinality(S)
      /\ Cardinality(T) # Cardinality(S)
  <2> HIDE DEF T
  <2>. QED  BY <1>1, FS_Subset
<1>. QED  BY <1>2, <1>3 DEF CountBelow

\* Counts tell elements apart.
LEMMA CountBelowInjective ==
  ASSUME NEW S \in SUBSET Int, IsFiniteSet(S), NEW j \in S, NEW k \in S,
         CountBelow(S, j) = CountBelow(S, k)
  PROVE  j = k
<1>1. CountBelow(S, j) \in Int /\ CountBelow(S, k) \in Int
  <2>1. j \in Int /\ k \in Int
    OBVIOUS
  <2>2. CountBelow(S, j) \in Nat
    BY <2>1, CountBelowType
  <2>3. CountBelow(S, k) \in Nat
    BY <2>1, CountBelowType
  <2>. QED  BY <2>2, <2>3
<1>2. ~(j < k) /\ ~(k < j)
  BY <1>1, CountBelowGrows
<1>. QED  BY <1>2

\* Every number below the count of k is the count of an element below k.
LEMMA CountBelowOnto ==
  ASSUME NEW S \in SUBSET Int, IsFiniteSet(S), NEW k \in Int,
         NEW n \in 0 .. CountBelow(S, k) - 1
  PROVE  \E m \in S : m < k /\ CountBelow(S, m) = n
<1> DEFINE T == {m \in S : m < k}
           c == CountBelow(S, k)
           f == [m \in T |-> CountBelow(S, m)]
<1>1. IsFiniteSet(T) /\ c \in Nat /\ Cardinality(T) = c
  BY CountBelowType DEF CountBelow
<1>2. IsFiniteSet(0 .. c - 1) /\ Cardinality(0 .. c - 1) = c
  BY <1>1, FS_Interval
<1>3. \A m \in T : f[m] \in 0 .. c - 1
  <2>1. ASSUME NEW m \in T PROVE CountBelow(S, m) \in 0 .. c - 1
    <3>1. m \in S /\ m \in Int /\ m < k
      OBVIOUS
    <3>2. CountBelow(S, m) \in Nat
      BY <3>1, CountBelowType
    <3>3. CountBelow(S, m) < c
      BY <3>1, CountBelowGrows
    <3>. QED  BY <1>1, <3>2, <3>3
  <2>. QED  BY <2>1
<1>4. \A i, j \in T : f[i] = f[j] => i = j
  BY CountBelowInjective
<1>5. f \in [T -> 0 .. c - 1]
  BY <1>3
<1> HIDE DEF f, c, T
<1>6. f \in Injection(T, 0 .. c - 1)
  BY <1>4, <1>5 DEF Injection, IsInjective
<1>7. f \in Surjection(T, 0 .. c - 1)
  BY <1>1, <1>2, <1>6, FS_Injection
<1>8. PICK m \in T : f[m] = n
  BY <1>7 DEF Surjection, c
<1>. QED  BY <1>8 DEF f, T

\* Moving the set.
LEMMA CountBelowShift ==
  ASSUME NEW S \in SUBSET Int, IsFiniteSet(S), NEW k \in Int, NEW d \in Int
  PROVE  LET T == {m - d : m \in S}
         IN  /\ T \in SUBSET Int /\ IsFiniteSet(T)
             /\ Cardinality(T) = Cardinality(S)
             /\ CountBelow(T, k - d) = CountBelow(S, k)
<1>1. ASSUME NEW U \in SUBSET Int, IsFiniteSet(U)
      PROVE  LET V == {m - d : m \in U}
             IN  IsFiniteSet(V) /\ Cardinality(V) = Cardinality(U)
  <2> DEFINE V == {m - d : m \in U}
             f == [m \in U |-> m - d]
  <2>1. f \in Bijection(U, V)
    <3>1. f \in [U -> V] /\ (\A i, j \in U : f[i] = f[j] => i = j)
      OBVIOUS
    <3>2. \A v \in V : \E m \in U : f[m] = v
      OBVIOUS
    <3> HIDE DEF f, V
    <3>. QED  BY <3>1, <3>2 DEF Bijection, Injection, Surjection, IsInjective
  <2> HIDE DEF f, V
  <2>2. ExistsBijection(U, V)
    BY <2>1 DEF ExistsBijection
  <2>3. IsFiniteSet(V) /\ Cardinality(V) = Cardinality(U)
    BY <1>1, <2>2, FS_Bijection
  <2>. QED  BY <2>3 DEF V
<1> DEFINE T == {m - d : m \in S}
           U == {m \in S : m < k}
<1>2. {t \in T : t < k - d} = {m - d : m \in U}
  <2>1. ASSUME NEW t \in T, t < k - d PROVE t \in {m - d : m \in U}
    <3>1. PICK m \in S : t = m - d
      OBVIOUS
    <3>2. m < k
      BY <2>1, <3>1
    <3>. QED  BY <3>1, <3>2
  <2>2. ASSUME NEW m \in U PROVE m - d \in T /\ m - d < k - d
    OBVIOUS
  <2>. QED  BY <2>1, <2>2
<1>3. IsFiniteSet(U) /\ U \in SUBSET Int
  BY CountBelowType
<1>4. CountBelow(T, k - d) = CountBelow(S, k)
  <2>1. CountBelow(T, k - d) = Cardinality({m - d : m \in U})
    BY <1>2 DEF CountBelow
  <2>2. Cardinality({m - d : m \in U}) = Cardinality(U)
    <3> HIDE DEF U
    <3>. QED  BY <1>1, <1>3
  <2>. QED  BY <2>1, <2>2 DEF CountBelow
<1>5. IsFiniteSet(T) /\ Cardinality(T) = Cardinality(S)
  BY <1>1
<1>. QED  BY <1>4, <1>5

\* Taking an element away.
LEMMA CountBelowRemove ==
  ASSUME NEW S \in SUBSET Int, IsFiniteSet(S), NEW x \in S, NEW k \in Int
  PROVE  LET T == S \ {x}
         IN  /\ T \in SUBSET Int /\ IsFiniteSet(T)
             /\ Cardinality(T) = Cardinality(S) - 1
             /\ x < k => CountBelow(T, k) = CountBelow(S, k) - 1
             /\ ~(x < k) => CountBelow(T, k) = CountBelow(S, k)
<1> DEFINE T == S \ {x}
           U == {m \in S : m < k}
<1>1. IsFiniteSet(T) /\ Cardinality(T) = Cardinality(S) - 1
  BY FS_RemoveElement
<1>2. CASE x < k
  <2>1. {m \in T : m < k} = U \ {x} /\ x \in U
    BY <1>2
  <2>2. IsFiniteSet(U)
    BY CountBelowType
  <2>3. Cardinality(U \ {x}) = Cardinality(U) - 1
    <3> HIDE DEF U
    <3>. QED  BY <2>1, <2>2, FS_RemoveElement
  <2>. QED  BY <1>1, <1>2, <2>1, <2>3 DEF CountBelow
<1>3. CASE ~(x < k)
  <2>1. {m \in T : m < k} = U
    BY <1>3
  <2>. QED  BY <1>1, <1>3, <2>1 DEF CountBelow
<1>. QED  BY <1>2, <1>3

\* Adding one at the end.
LEMMA CountBelowAdd ==
  ASSUME NEW S \in SUBSET Int, IsFiniteSet(S), NEW x \in Int,
         \A m \in S : m < x, NEW k \in Int, k <= x
  PROVE  LET T == S \cup {x}
         IN  /\ T \in SUBSET Int /\ IsFiniteSet(T)
             /\ Cardinality(T) = Cardinality(S) + 1
             /\ CountBelow(T, k) = CountBelow(S, k)
<1>1. x \notin S
  OBVIOUS
<1>2. {m \in S \cup {x} : m < k} = {m \in S : m < k}
  OBVIOUS
<1>. QED  BY <1>1, <1>2, FS_AddElement DEF CountBelow

\* A finite set of numbers has a greatest element: the one with most elements
\* below it.
LEMMA GreatestOf ==
  ASSUME NEW S \in SUBSET Int, IsFiniteSet(S), S # {}
  PROVE  \E x \in S : \A y \in S : y =< x
<1> DEFINE c == Cardinality(S)
           T == {c - CountBelow(S, x) : x \in S}
<1>1. ASSUME NEW x \in S
      PROVE  CountBelow(S, x) \in Nat /\ CountBelow(S, x) <= c /\ c \in Nat
  <2>1. x \in Int
    OBVIOUS
  <2>. QED  BY <2>1, CountBelowType
<1>2. T \in SUBSET Nat /\ T # {}
  <2>1. \A x \in S : c - CountBelow(S, x) \in Nat
    BY <1>1
  <2>. QED  BY <2>1
<1>3. PICK t \in T : \A u \in T : t =< u
  <2> HIDE DEF T
  <2>. QED  BY <1>2, LeastNat
<1>4. PICK x \in S : t = c - CountBelow(S, x)
  OBVIOUS
<1>5. ASSUME NEW y \in S, x < y PROVE FALSE
  <2>1. CountBelow(S, x) < CountBelow(S, y)
    <3>1. y \in Int
      OBVIOUS
    <3>. QED  BY <1>5, <3>1, CountBelowGrows
  <2>2. t =< c - CountBelow(S, y)
    BY <1>3
  <2>3. /\ CountBelow(S, x) \in Nat /\ CountBelow(S, y) \in Nat /\ c \in Nat
    BY <1>1
  <2> HIDE DEF c
  <2>. QED  BY <1>4, <2>1, <2>2, <2>3
<1>6. \A y \in S : y \in Int /\ x \in Int
  OBVIOUS
<1>. QED  BY <1>5, <1>6

-----------------------------------------------------------------------------
(* Powers of two: a set of n elements has 2^n subsets.                     *)

LEMMA PowerIs ==
  ASSUME NEW n \in Nat
  PROVE  2^n \in Nat \ {0} /\ 2^n = Cardinality(SUBSET (1 .. n))
<1>1. IsFiniteSet(1 .. n) /\ Cardinality(1 .. n) = n
  BY FS_Interval
<1>2. /\ IsFiniteSet(SUBSET (1 .. n)) /\ Cardinality(SUBSET (1 .. n)) = 2^n
  BY <1>1, FS_SUBSET
<1>3. Cardinality(SUBSET (1 .. n)) \in Nat
  BY <1>2, FS_CardinalityType
<1>4. Cardinality(SUBSET (1 .. n)) # 0
  BY <1>2, FS_EmptySet
<1>. QED  BY <1>2, <1>3, <1>4

LEMMA PowerNext ==
  ASSUME NEW n \in Nat
  PROVE  2^(n + 1) = 2 * 2^n
<1> DEFINE A == SUBSET (1 .. n)
           B == SUBSET (1 .. n + 1)
           f == [S \in A |-> S \cup {n + 1}]
           C == {S \cup {n + 1} : S \in A}
<1>1. IsFiniteSet(A)
  <2>1. IsFiniteSet(1 .. n)
    BY FS_Interval
  <2>. QED  BY <2>1, FS_SUBSET
<1>2. f \in Bijection(A, C)
  <2>1. f \in Surjection(A, C) /\ DOMAIN f = A /\ f \in [A -> C]
    BY DEF Surjection
  <2>2. ASSUME NEW S \in A, NEW T \in A, f[S] = f[T] PROVE S = T
    <3>1. n + 1 \notin S /\ n + 1 \notin T
      OBVIOUS
    <3>2. S = (S \cup {n + 1}) \ {n + 1} /\ T = (T \cup {n + 1}) \ {n + 1}
      BY <3>1
    <3>. QED  BY <2>2, <3>2
  <2>3. f \in Injection(A, C)
    <3> HIDE DEF f, A, C
    <3>. QED  BY <2>1, <2>2 DEF Injection, IsInjective
  <2>. QED  BY <2>1, <2>3 DEF Bijection
<1>3. IsFiniteSet(C) /\ Cardinality(C) = Cardinality(A)
  <2> HIDE DEF f, A, C
  <2>1. ExistsBijection(A, C)
    BY <1>2 DEF ExistsBijection
  <2>. QED  BY <1>1, <2>1, FS_Bijection
<1>4. B = A \cup C
  <2>1. ASSUME NEW S \in B PROVE S \in A \cup C
    <3>1. CASE n + 1 \in S
      <4>1. S \ {n + 1} \in A /\ S = (S \ {n + 1}) \cup {n + 1}
        BY <3>1
      <4>. QED  BY <4>1
    <3>2. CASE n + 1 \notin S
      BY <3>2
    <3>. QED  BY <3>1, <3>2
  <2>2. 1 .. n \subseteq 1 .. n + 1 /\ n + 1 \in 1 .. n + 1
    OBVIOUS
  <2>3. A \subseteq B /\ C \subseteq B
    BY <2>2
  <2>. QED  BY <2>1, <2>3
<1>5. A \cap C = {}
  OBVIOUS
<1>6. Cardinality(B) = Cardinality(A) + Cardinality(C)
  <2> HIDE DEF A, B, C
  <2>1. Cardinality(A \cap C) = 0
    BY <1>5, FS_EmptySet
  <2>2. Cardinality(A \cup C) = Cardinality(A) + Cardinality(C) - Cardinality(A \cap C)
    BY <1>1, <1>3, FS_Union
  <2>3. Cardinality(A) \in Nat /\ Cardinality(C) \in Nat
    BY <1>1, <1>3, FS_CardinalityType
  <2>. QED  BY <1>4, <2>1, <2>2, <2>3
<1>7. 2^n \in Nat /\ 2^n = Cardinality(A) /\ 2^(n + 1) = Cardinality(B)
  BY PowerIs, n + 1 \in Nat
<1> HIDE DEF A, B, C
<1>. QED  BY <1>3, <1>6, <1>7

LEMMA PowerZero == 2^0 = 1
OBVIOUS

\* By the least exponent for which it is false.
LEMMA PowerSum ==
  ASSUME NEW a \in Nat, NEW b \in Nat
  PROVE  2^(a + b) = 2^a * 2^b
<1> DEFINE p == [k \in Nat |-> 2^k]
<1>1. /\ p \in [Nat -> Nat]
      /\ p[0] = 1
      /\ \A k \in Nat : p[k + 1] = 2 * p[k]
      /\ \A k \in Nat : p[k] = 2^k
  <2>1. \A k \in Nat : 2^k \in Nat
    BY PowerIs
  <2>2. \A k \in Nat : 2^(k + 1) = 2 * 2^k
    BY PowerNext
  <2>3. p \in [Nat -> Nat] /\ \A k \in Nat : p[k] = 2^k
    BY <2>1
  <2>4. p[0] = 1
    BY <2>3, PowerZero
  <2>5. ASSUME NEW k \in Nat PROVE p[k + 1] = 2 * p[k]
    BY <2>2, <2>3, k + 1 \in Nat
  <2>. QED  BY <2>3, <2>4, <2>5
<1> HIDE DEF p
<1> DEFINE S == {k \in 0 .. b : p[a + k] # p[a] * p[k]}
<1>2. S = {}
  <2>1. SUFFICES ASSUME S # {} PROVE FALSE
    OBVIOUS
  <2>2. PICK x \in S : \A y \in S : x =< y
    BY <2>1, LeastOf
  <2>3. x \in 0 .. b /\ p[a + x] # p[a] * p[x]
    OBVIOUS
  <2>4. x # 0
    BY <1>1, <2>3
  <2>5. PICK z \in Nat : x = z + 1
    BY <2>3, <2>4, x - 1 \in Nat
  <2>6. p[a + z] = p[a] * p[z]
    BY <2>2, <2>3, <2>5
  <2>7. p[a + x] = 2 * p[a + z] /\ p[x] = 2 * p[z]
    BY <1>1, <2>5, a + x = (a + z) + 1, a + z \in Nat
  <2>8. 2 * (p[a] * p[z]) = p[a] * (2 * p[z])
    BY <1>1
  <2>. QED  BY <2>3, <2>6, <2>7, <2>8
<1>3. p[a + b] = p[a] * p[b]
  BY <1>2
<1>. QED  BY <1>1, <1>3, a + b \in Nat
-----------------------------------------------------------------------------
(* Remainders.                                                             *)

LEMMA RemainderIs ==
  ASSUME NEW F \in Nat \ {0}, NEW q \in Int, NEW r \in 0 .. F - 1
  PROVE  (F * q + r) % F = r
<1> DEFINE x == F * q + r
           d == x \div F
           s == x % F
<1>1. x \in Int /\ d \in Int /\ s \in 0 .. F - 1 /\ x = F * d + s
  OBVIOUS
<1>2. x = F * q + r
  OBVIOUS
<1> HIDE DEF x, d, s
<1>3. F * (d - q) = r - s
  BY <1>1, <1>2
<1>4. ASSUME d - q >= 1 PROVE FALSE
  <2>1. F * (d - q) >= F
    BY <1>1, <1>4
  <2>. QED  BY <1>1, <1>3, <2>1
<1>5. ASSUME q - d >= 1 PROVE FALSE
  <2>1. F * (q - d) >= F
    BY <1>1, <1>5
  <2>2. F * (q - d) = s - r
    BY <1>1, <1>2
  <2>. QED  BY <1>1, <2>1, <2>2
<1>6. d = q
  BY <1>1, <1>4, <1>5
<1>. QED  BY <1>1, <1>2, <1>6 DEF x, s

LEMMA SplitIs ==
  ASSUME NEW F \in Nat \ {0}, NEW x \in Int
  PROVE  /\ x \div F \in Int /\ x % F \in 0 .. F - 1 /\ x = F * (x \div F) + (x % F)
         /\ x >= 0 => x \div F >= 0
OBVIOUS

LEMMA SameRemainder ==
  ASSUME NEW F \in Nat \ {0}, NEW x \in Int, NEW q \in Int
  PROVE  (x + F * q) % F = x % F
<1> DEFINE d == x \div F
           r == x % F
<1>1. d \in Int /\ r \in 0 .. F - 1 /\ x = F * d + r
  BY SplitIs
<1> HIDE DEF d, r
<1>2. x + F * q = F * (d + q) + r
  BY <1>1
<1>3. (F * (d + q) + r) % F = r
  BY <1>1, RemainderIs, d + q \in Int
<1>. QED  BY <1>2, <1>3 DEF r

\* The remainder of a remainder.
LEMMA RemainderOfPart ==
  ASSUME NEW H \in Nat \ {0}, NEW x \in Int
  PROVE  (x % (H * H)) % H = x % H
<1> DEFINE F == H * H
           d == x \div F
           r == x % F
<1>0. F \in Nat \ {0}
  OBVIOUS
<1>1. d \in Int /\ r \in Int /\ x = F * d + r
  <2> HIDE DEF F
  <2>. QED  BY <1>0, SplitIs
<1> HIDE DEF d, r
<1>2. x = r + H * (H * d)
  <2>1. (H * H) * d = H * (H * d)
    BY <1>1
  <2>. QED  BY <1>1, <2>1
<1>3. H * d \in Int
  BY <1>1
<1>4. (r + H * (H * d)) % H = r % H
  BY <1>1, <1>3, SameRemainder
<1>. QED  BY <1>2, <1>4 DEF r
=============================================================================
