--------------------------- MODULE XmssFastProofs ---------------------------
(***************************************************************************)
(* Proofs about XmssFast and the BDS traversal it rests on, for trees of   *)
(* every height, every bds_k that leaves enough updates, and whatever the  *)
(* memory held before.                                                     *)
(*                                                                         *)
(* The state of a tree at index t is described by Between: Traversal (the  *)
(* stack holds the tail nodes of the instances at work), Sched (what an    *)
(* instance and those before it still need is never more than the updates  *)
(* made until it is due) and PathAt (the path of t, and what is kept for   *)
(* later ones).  TreeBuilt: treehash_init leaves a tree at index 0.        *)
(* Updated, Spent: the updates keep the traversal and lower the loads.     *)
(* IdleBelow: what bds_round reads and starts anew has finished.           *)
(* AdvancedIs: one signature moves a tree on to the next index.  The       *)
(* theorems about XmssFast follow, at the end.                             *)
(***************************************************************************)
EXTENDS XmssFast, FiniteSetTheorems, TLAPS

\* The arithmetic of LoopRules; the loop itself plays no part.
NoTurn(p, t, i) == t
NoInv(p, t, i) == TRUE
Rules == INSTANCE LoopRules WITH Body <- NoTurn, Inv <- NoInv

\* Powers of two up to the height of the tree.
LEMMA Powers ==
  /\ TreeHeight \in Nat \ {0}
  /\ 2^0 = 1
  /\ \A a \in 0 .. TreeHeight + 1 : 2^a \in Nat \ {0}
  /\ \A a \in 0 .. TreeHeight : 2^(a + 1) = 2 * 2^a
  /\ \A b \in 0 .. TreeHeight + 1 : \A a \in 0 .. b - 1 :
       \E q \in Nat : q > 0 /\ 2^b = (2 * q) * 2^a
<1>1. TreeHeight \in Nat \ {0}
  BY XmssFastAssumption
<1>2. \A i \in 0 .. TreeHeight : 2^(i + 1) = 2 * 2^i
  BY PowersAssumption DEF PowersOfTwo
<1>3. ASSUME NEW a \in 0 .. TreeHeight + 1
      PROVE  2^a \in Nat \ {0}
  BY <1>1, <1>2, Rules!PowNat
<1>4. ASSUME NEW b \in 0 .. TreeHeight + 1, NEW a \in 0 .. b - 1
      PROVE  \E q \in Nat : q > 0 /\ 2^b = (2 * q) * 2^a
  <2>1. a \in Nat /\ b \in Nat /\ a < b /\ b <= TreeHeight + 1
    BY <1>1
  <2> QED
    BY <1>1, <1>2, <2>1, Rules!PowLess
<1> QED
  BY <1>1, <1>2, <1>3, <1>4

\* The number of leaves, and the largest index.
LEMMA LeavesNat ==
  /\ Leaves = 2^TreeHeight /\ Leaves \in Nat \ {0} /\ LastIndex = Leaves - 1
  /\ IndexSpace \in Nat /\ IndexSpace >= Leaves
<1>1. TreeHeight \in 0 .. TreeHeight + 1
  BY Powers
<1> QED
  BY <1>1, Powers, XmssFastAssumption DEF Leaves, LastIndex

\* Every number below the height is below the number of leaves.
LEMMA HeightBelowLeaves == \A a \in 0 .. TreeHeight : a < 2^a
<1> DEFINE S == {a \in Nat : a <= TreeHeight => a < 2^a}
<1>1. 0 \in S
  BY Powers
<1>2. ASSUME NEW a \in Nat, a \in S
      PROVE  a + 1 \in S
  <2> SUFFICES ASSUME a + 1 <= TreeHeight
               PROVE  a + 1 < 2^(a + 1)
    OBVIOUS
  <2>1. a \in 0 .. TreeHeight /\ TreeHeight \in Nat
    BY Powers
  <2>2. 2^(a + 1) = 2 * 2^a /\ a < 2^a /\ a \in 0 .. TreeHeight + 1
    BY <1>2, <2>1, Powers
  <2>3. 2^a \in Nat
    BY <2>2, Powers
  <2> QED
    BY <2>2, <2>3
<1> HIDE DEF S
<1>3. ASSUME NEW a \in 0 .. TreeHeight
      PROVE  a < 2^a
  <2>1. a \in Nat
    BY Powers
  <2>2. a \in S
    BY <1>1, <1>2, <2>1, Rules!SetInduction
  <2> QED
    BY <2>1, <2>2 DEF S
<1> QED
  BY <1>3

-----------------------------------------------------------------------------

\* Quotient, remainder and bit.
LEMMA Parts ==
  ASSUME NEW x \in Nat, NEW h \in 0 .. TreeHeight + 1
  PROVE  /\ Shr(x, h) \in Nat /\ Low(x, h) \in 0 .. 2^h - 1 /\ 2^h \in Nat \ {0}
         /\ x = Shr(x, h) * 2^h + Low(x, h)
         /\ Bit(x, h) \in {0, 1}
         /\ Shr(x, 0) = x /\ Low(x, 0) = 0
<1>1. 2^h \in Nat \ {0} /\ x \in Int
  BY Powers
<1>2. /\ x \div 2^h \in Int /\ x % 2^h \in 0 .. 2^h - 1
      /\ x = (x \div 2^h) * 2^h + (x % 2^h)
  BY <1>1, Rules!DivMod
<1>3. x \div 2^h \in Nat
  BY <1>1
<1>4. x \div 1 = x /\ x % 1 = 0
  OBVIOUS
<1>5. (x \div 2^h) % 2 \in {0, 1}
  BY <1>3
<1> QED
  BY <1>1, <1>2, <1>3, <1>4, <1>5, Powers DEF Shr, Low, Bit

\* A number is its quotient and remainder.
LEMMA PartsUnique ==
  ASSUME NEW h \in 0 .. TreeHeight + 1, NEW q \in Nat, NEW r \in Nat, r < 2^h
  PROVE  Shr(q * 2^h + r, h) = q /\ Low(q * 2^h + r, h) = r
<1>1. 2^h \in Nat \ {0}
  BY Powers
<1> DEFINE b == 2^h
           x == q * b + r
<1>2. b \in Nat \ {0} /\ r < b
  BY <1>1
<1> HIDE DEF b
<1>3. x \in Int /\ q * b <= x /\ x < (q + 1) * b /\ q \in Int /\ x - q * b = r
  BY <1>2
<1> HIDE DEF x
<1>4. x \div b = q /\ x % b = x - q * b
  BY <1>2, <1>3, Rules!DivUnique
<1> QED
  BY <1>3, <1>4 DEF x, b, Shr, Low

\* One height up.
LEMMA PartsUp ==
  ASSUME NEW x \in Nat, NEW h \in 0 .. TreeHeight
  PROVE  /\ Shr(x, h) = 2 * Shr(x, h + 1) + Bit(x, h)
         /\ Low(x, h + 1) = Low(x, h) + 2^h * Bit(x, h)
         /\ 2^(h + 1) = 2 * 2^h
<1> DEFINE y == Shr(x, h)
           z == y \div 2
           b == Bit(x, h)
           r == Low(x, h)
           c == 2^h
<1>1. h \in 0 .. TreeHeight + 1 /\ h + 1 \in 0 .. TreeHeight + 1
  BY Powers
<1>2. /\ y \in Nat /\ r \in 0 .. c - 1 /\ c \in Nat \ {0} /\ x = y * c + r
      /\ b \in {0, 1} /\ b = y % 2 /\ 2^(h + 1) = 2 * c
  BY <1>1, Parts, Powers DEF Bit
<1> HIDE DEF y, b, r, c
<1>3. z \in Nat /\ y = 2 * z + b
  BY <1>2
<1> HIDE DEF z
<1>4. x = z * (2 * c) + (r + c * b)
  BY <1>2, <1>3
<1>5. r + c * b \in Nat /\ r + c * b < 2 * c /\ r + c * b < 2^(h + 1)
  BY <1>2
<1>6. Shr(z * 2^(h + 1) + (r + c * b), h + 1) = z /\ Low(z * 2^(h + 1) + (r + c * b), h + 1) = r + c * b
  BY <1>1, <1>2, <1>3, <1>5, PartsUnique
<1>7. Shr(x, h + 1) = z /\ Low(x, h + 1) = r + c * b
  BY <1>2, <1>4, <1>6
<1> QED
  BY <1>2, <1>3, <1>7 DEF y, b, r, c

(***************************************************************************)
(* All bits of x below h are ones: counting on ends a block of 2^h.        *)
(***************************************************************************)
Full(x, h) == Low(x, h) = 2^h - 1

\* Counting on.
LEMMA CountOn ==
  ASSUME NEW x \in Nat, NEW h \in 0 .. TreeHeight + 1
  PROVE  /\ Full(x, h) => Shr(x + 1, h) = Shr(x, h) + 1 /\ Low(x + 1, h) = 0
         /\ ~ Full(x, h) => /\ Shr(x + 1, h) = Shr(x, h) /\ Low(x + 1, h) = Low(x, h) + 1
                            /\ Bit(x + 1, h) = Bit(x, h)
<1> DEFINE q == Shr(x, h)
           r == Low(x, h)
           b == 2^h
<1>1. q \in Nat /\ r \in 0 .. b - 1 /\ b \in Nat \ {0} /\ x = q * b + r
  BY Parts
<1>2. CASE Full(x, h)
  <2>1. r = b - 1
    BY <1>2 DEF Full
  <2> HIDE DEF q, r, b
  <2>2. x + 1 = (q + 1) * b + 0 /\ 0 < b /\ q + 1 \in Nat
    BY <1>1, <2>1
  <2>3. Shr((q + 1) * 2^h + 0, h) = q + 1 /\ Low((q + 1) * 2^h + 0, h) = 0
    BY <1>1, <2>2, PartsUnique DEF b
  <2> QED
    BY <1>2, <2>2, <2>3 DEF b, q
<1>3. CASE ~ Full(x, h)
  <2>1. r # b - 1
    BY <1>3 DEF Full
  <2> HIDE DEF q, r, b
  <2>2. x + 1 = q * b + (r + 1) /\ r + 1 < b /\ r + 1 \in Nat
    BY <1>1, <2>1
  <2>3. Shr(q * 2^h + (r + 1), h) = q /\ Low(q * 2^h + (r + 1), h) = r + 1
    BY <1>1, <2>2, PartsUnique DEF b
  <2>4. Shr(x + 1, h) = q /\ Low(x + 1, h) = r + 1
    BY <2>2, <2>3 DEF b
  <2> QED
    BY <1>3, <2>4 DEF q, r, Bit
<1> QED
  BY <1>2, <1>3

\* What one more bit makes of a full block.
LEMMA FullUp ==
  ASSUME NEW x \in Nat, NEW h \in 0 .. TreeHeight
  PROVE  /\ Full(x, 0)
         /\ Full(x, h + 1) <=> Full(x, h) /\ Bit(x, h) = 1
<1>1. h \in 0 .. TreeHeight + 1 /\ 0 \in 0 .. TreeHeight + 1
  BY Powers
<1> DEFINE r == Low(x, h)
           c == 2^h
           b == Bit(x, h)
<1>2. r \in 0 .. c - 1 /\ c \in Nat \ {0} /\ b \in {0, 1} /\ Low(x, 0) = 0 /\ 2^0 = 1
  BY <1>1, Parts, Powers
<1>3. Low(x, h + 1) = r + c * b /\ 2^(h + 1) = 2 * c
  BY PartsUp
<1> HIDE DEF r, c, b
<1>4. r + c * b = 2 * c - 1 <=> r = c - 1 /\ b = 1
  <2>1. b = 0 => c * b = 0
    BY <1>2
  <2>2. b = 1 => c * b = c
    BY <1>2
  <2> QED
    BY <1>2, <2>1, <2>2
<1>5. Full(x, 0)
  BY <1>2 DEF Full
<1>6. Full(x, h) <=> r = c - 1
  BY DEF Full, r, c
<1>7. Full(x, h + 1) <=> r + c * b = 2 * c - 1
  BY <1>3 DEF Full
<1>8. b = 1 <=> Bit(x, h) = 1
  BY DEF b
<1> QED
  BY <1>4, <1>5, <1>6, <1>7, <1>8

\* The bits of a full block.
LEMMA FullBits ==
  ASSUME NEW x \in Nat, NEW c \in 0 .. TreeHeight + 1, Full(x, c)
  PROVE  \A h \in 0 .. c : /\ Full(x, h)
                           /\ h < c => /\ Bit(x, h) = 1 /\ Bit(x + 1, h) = 0
                                       /\ Low(x + 1, h + 1) = 0
<1> DEFINE S == {n \in Nat : n <= c => Full(x, c - n)}
<1>0. TreeHeight \in Nat /\ c \in Nat
  BY Powers
<1>1. 0 \in S
  BY <1>0
<1>2. ASSUME NEW n \in Nat, n \in S
      PROVE  n + 1 \in S
  <2> SUFFICES ASSUME n + 1 <= c
               PROVE  Full(x, c - (n + 1))
    OBVIOUS
  <2>1. c - (n + 1) \in 0 .. TreeHeight /\ (c - (n + 1)) + 1 = c - n /\ Full(x, c - n)
    BY <1>0, <1>2
  <2> QED
    BY <2>1, FullUp
<1> HIDE DEF S
<1>3. ASSUME NEW h \in 0 .. c
      PROVE  Full(x, h)
  <2>1. c - h \in Nat /\ c - (c - h) = h /\ c - h <= c
    BY <1>0
  <2>2. c - h \in S
    BY <1>1, <1>2, <2>1, Rules!SetInduction
  <2> QED
    BY <2>1, <2>2 DEF S
<1>4. ASSUME NEW h \in 0 .. c, h < c
      PROVE  Bit(x, h) = 1 /\ Bit(x + 1, h) = 0 /\ Low(x + 1, h + 1) = 0
  <2>1. h \in 0 .. TreeHeight /\ h + 1 \in 0 .. c /\ h + 1 \in 0 .. TreeHeight + 1
        /\ h \in 0 .. TreeHeight + 1 /\ x + 1 \in Nat
    BY <1>0, <1>4
  <2>2. Full(x, h + 1) /\ Full(x, h)
    BY <1>3, <2>1
  <2>3. Bit(x, h) = 1 /\ Low(x + 1, h + 1) = 0
    BY <2>1, <2>2, FullUp, CountOn
  <2>4. Low(x + 1, h + 1) = Low(x + 1, h) + 2^h * Bit(x + 1, h)
    BY <2>1, PartsUp
  <2>5. Low(x + 1, h) \in Nat /\ 2^h \in Nat \ {0} /\ Bit(x + 1, h) \in {0, 1}
    <3> DEFINE y == x + 1
    <3>1. y \in Nat
      BY <2>1
    <3> HIDE DEF y
    <3>2. Low(y, h) \in 0 .. 2^h - 1 /\ 2^h \in Nat \ {0} /\ Bit(y, h) \in {0, 1}
      BY <2>1, <3>1, Parts
    <3> QED
      BY <3>2 DEF y
  <2> QED
    BY <2>3, <2>4, <2>5
<1> QED
  BY <1>3, <1>4

\* A zero bit ends the block.
LEMMA NotFull ==
  ASSUME NEW x \in Nat, NEW c \in 0 .. TreeHeight, Bit(x, c) = 0
  PROVE  \A h \in c + 1 .. TreeHeight + 1 : ~ Full(x, h)
<1> SUFFICES ASSUME NEW h \in c + 1 .. TreeHeight + 1, Full(x, h)
             PROVE  FALSE
  OBVIOUS
<1>1. h \in 0 .. TreeHeight + 1 /\ c \in 0 .. h /\ c < h
  BY Powers
<1> QED
  BY <1>1, FullBits

\* The bit that counting on sets.
LEMMA FlipUp ==
  ASSUME NEW x \in Nat, NEW c \in 0 .. TreeHeight, Full(x, c), Bit(x, c) = 0
  PROVE  Bit(x + 1, c) = 1 /\ Shr(x + 1, c) = Shr(x, c) + 1
<1>1. c \in 0 .. TreeHeight + 1
  BY Powers
<1>2. Shr(x + 1, c) = Shr(x, c) + 1 /\ Shr(x, c) \in Nat
  BY <1>1, CountOn, Parts
<1> QED
  BY <1>2 DEF Bit

\* The bits of a multiple of 2^c below c are zeros.
LEMMA LowZero ==
  ASSUME NEW x \in Nat, NEW c \in 0 .. TreeHeight + 1, Low(x, c) = 0
  PROVE  \A h \in 0 .. c : Low(x, h) = 0 /\ (h < c => Bit(x, h) = 0)
<1>1. CASE x = 0
  <2>1. ASSUME NEW h \in 0 .. c
        PROVE  Low(x, h) = 0 /\ Bit(x, h) = 0
    <3>1. h \in 0 .. TreeHeight + 1 /\ 0 \in Nat
      BY Powers
    <3>2. 2^h \in Nat \ {0} /\ 0 < 2^h
      BY <3>1, Powers
    <3>3. Shr(0 * 2^h + 0, h) = 0 /\ Low(0 * 2^h + 0, h) = 0
      BY <3>1, <3>2, PartsUnique
    <3>4. 0 * 2^h + 0 = 0
      BY <3>2
    <3> QED
      BY <1>1, <3>3, <3>4 DEF Bit
  <2> QED
    BY <2>1
<1>2. CASE x # 0
  <2> DEFINE y == x - 1
  <2>1. y \in Nat /\ y + 1 = x
    BY <1>2
  <2> HIDE DEF y
  <2>2. Low(y, c) \in Nat
    BY <2>1, Parts
  <2>3. Full(y, c)
    <3>1. Low(y + 1, c) # Low(y, c) + 1
      BY <2>1, <2>2
    <3> QED
      BY <2>1, <3>1, CountOn
  <2>4. ASSUME NEW h \in 0 .. c
        PROVE  Low(x, h) = 0 /\ (h < c => Bit(x, h) = 0)
    <3>1. Full(y, h) /\ (h < c => Bit(y + 1, h) = 0) /\ h \in 0 .. TreeHeight + 1
      BY <2>1, <2>3, FullBits, Powers
    <3> QED
      BY <2>1, <3>1, CountOn
  <2> QED
    BY <2>4
<1> QED
  BY <1>1, <1>2

\* A number with a remainder has a bit set.
LEMMA SomeBit ==
  ASSUME NEW x \in Nat, NEW c \in 0 .. TreeHeight, \A h \in 0 .. c - 1 : Bit(x, h) = 0
  PROVE  Low(x, c) = 0
<1> DEFINE S == {n \in Nat : n <= c => Low(x, n) = 0}
<1>0. c \in Nat
  BY Powers
<1>1. 0 \in S
  <2>1. 0 \in 0 .. TreeHeight + 1
    BY Powers
  <2> QED
    BY <2>1, Parts
<1>2. ASSUME NEW n \in Nat, n \in S
      PROVE  n + 1 \in S
  <2> SUFFICES ASSUME n + 1 <= c
               PROVE  Low(x, n + 1) = 0
    OBVIOUS
  <2>1. n \in 0 .. TreeHeight /\ n \in 0 .. c - 1 /\ Low(x, n) = 0 /\ n \in 0 .. TreeHeight + 1
    BY <1>0, <1>2, Powers
  <2>2. Low(x, n + 1) = Low(x, n) + 2^n * Bit(x, n) /\ Bit(x, n) = 0 /\ 2^n \in Nat
    BY <2>1, PartsUp, Powers
  <2> QED
    BY <2>1, <2>2
<1> HIDE DEF S
<1>3. c \in S
  BY <1>0, <1>1, <1>2, Rules!SetInduction
<1> QED
  BY <1>0, <1>3 DEF S

\* A block whose bits are all ones.
LEMMA AllBits ==
  ASSUME NEW x \in Nat, NEW c \in 0 .. TreeHeight + 1, \A h \in 0 .. c - 1 : Bit(x, h) = 1
  PROVE  Full(x, c)
<1> DEFINE S == {n \in Nat : n <= c => Full(x, n)}
<1>0. c \in Nat /\ TreeHeight \in Nat
  BY Powers
<1>1. 0 \in S
  BY <1>0, FullUp
<1>2. ASSUME NEW n \in Nat, n \in S
      PROVE  n + 1 \in S
  <2> SUFFICES ASSUME n + 1 <= c
               PROVE  Full(x, n + 1)
    OBVIOUS
  <2>1. n \in 0 .. TreeHeight /\ n \in 0 .. c - 1 /\ Full(x, n)
    BY <1>0, <1>2
  <2> QED
    BY <2>1, FullUp
<1> HIDE DEF S
<1>3. c \in S
  BY <1>0, <1>1, <1>2, Rules!SetInduction
<1> QED
  BY <1>0, <1>3 DEF S

-----------------------------------------------------------------------------

(***************************************************************************)
(* A stack holds nodes of falling heights, each height of a set L once:    *)
(* height l is at the position of its rank, the number of greater ones.    *)
(***************************************************************************)
Heights == SUBSET (0 .. TreeHeight)

Rank(L, l) == Cardinality({m \in L : m > l})

OnStack(levels, o, L) ==
  /\ o = Cardinality(L)
  /\ \A q \in 0 .. o - 1 : levels[q] \in L /\ Rank(L, levels[q]) = q
  /\ \A l \in L : levels[Rank(L, l)] = l

\* Sets of heights are finite, and so are their subsets.
LEMMA HeightsFinite ==
  ASSUME NEW L \in Heights
  PROVE  /\ IsFiniteSet(L) /\ Cardinality(L) \in 0 .. TreeHeight + 1
         /\ \A M \in SUBSET L : M \in Heights /\ IsFiniteSet(M) /\ Cardinality(M) \in Nat
                                /\ Cardinality(M) <= Cardinality(L)
                                /\ (Cardinality(M) = Cardinality(L) => M = L)
<1>1. TreeHeight \in Nat /\ 0 \in Int /\ TreeHeight \in Int
  BY Powers
<1>2. IsFiniteSet(0 .. TreeHeight) /\ Cardinality(0 .. TreeHeight) = TreeHeight + 1
  BY <1>1, FS_Interval
<1>3. IsFiniteSet(L) /\ Cardinality(L) <= TreeHeight + 1
  <2>1. L \in SUBSET (0 .. TreeHeight)
    BY DEF Heights
  <2> QED
    BY <1>2, <2>1, FS_Subset
<1>4. Cardinality(L) \in Nat
  BY <1>3, FS_CardinalityType
<1>5. ASSUME NEW M \in SUBSET L
      PROVE  M \in Heights /\ IsFiniteSet(M) /\ Cardinality(M) \in Nat
             /\ Cardinality(M) <= Cardinality(L)
             /\ (Cardinality(M) = Cardinality(L) => M = L)
  <2>1. IsFiniteSet(M) /\ Cardinality(M) <= Cardinality(L)
        /\ (Cardinality(L) = Cardinality(M) => L = M)
    BY <1>3, FS_Subset
  <2> QED
    BY <2>1, FS_CardinalityType DEF Heights
<1> QED
  BY <1>1, <1>3, <1>4, <1>5

\* Ranks are below the size of the set, and differ.
LEMMA RankOrder ==
  ASSUME NEW L \in Heights, NEW l \in L
  PROVE  /\ Rank(L, l) \in Nat /\ Rank(L, l) < Cardinality(L)
         /\ l \in 0 .. TreeHeight
         /\ \A m \in L : m < l => Rank(L, l) < Rank(L, m)
<1> DEFINE U(m) == {k \in L : k > m}
<1>1. L \subseteq Int /\ l \in 0 .. TreeHeight /\ TreeHeight \in Nat
  BY Powers DEF Heights
<1>2. Cardinality(U(l)) \in Nat /\ Cardinality(U(l)) < Cardinality(L)
  <2>1. U(l) \in SUBSET L /\ U(l) # L
    BY <1>1
  <2> HIDE DEF U
  <2>2. /\ Cardinality(U(l)) \in Nat /\ Cardinality(U(l)) <= Cardinality(L)
        /\ Cardinality(L) \in Nat /\ Cardinality(U(l)) # Cardinality(L)
    BY <2>1, HeightsFinite
  <2> QED
    BY <2>2
<1>3. ASSUME NEW m \in L, m < l
      PROVE  Cardinality(U(l)) < Cardinality(U(m))
  <2>1. U(m) \in SUBSET L /\ U(l) \in SUBSET U(m) /\ U(l) # U(m)
    <3>1. m \in Int /\ l \in Int /\ m < l
      BY <1>1, <1>3
    <3>2. \A k \in L : k > l => k > m
      BY <1>1, <3>1
    <3>3. l \in U(m) /\ l \notin U(l)
      BY <3>1
    <3> QED
      BY <3>2, <3>3
  <2> HIDE DEF U
  <2>2. U(m) \in Heights
    BY <2>1, HeightsFinite
  <2>3. /\ Cardinality(U(l)) \in Nat /\ Cardinality(U(l)) <= Cardinality(U(m))
        /\ Cardinality(U(m)) \in Nat /\ Cardinality(U(l)) # Cardinality(U(m))
    BY <2>1, <2>2, HeightsFinite
  <2> QED
    BY <2>3
<1> QED
  BY <1>1, <1>2, <1>3 DEF Rank

\* The topmost node has the least height.
LEMMA StackLow ==
  ASSUME NEW L \in Heights, NEW levels, NEW o, OnStack(levels, o, L), L # {}
  PROVE  /\ o \in Nat /\ o > 0
         /\ levels[o - 1] \in L /\ \A l \in L : levels[o - 1] <= l
<1>1. o = Cardinality(L) /\ o \in Nat /\ o > 0
  BY HeightsFinite, FS_EmptySet DEF OnStack
<1> DEFINE c == levels[o - 1]
<1>2. c \in L /\ Rank(L, c) = o - 1
  BY <1>1 DEF OnStack
<1> HIDE DEF c
<1>3. ASSUME NEW l \in L, l < c
      PROVE  FALSE
  <2>1. Rank(L, c) < Rank(L, l) /\ Rank(L, l) < Cardinality(L) /\ Rank(L, l) \in Nat
    BY <1>2, <1>3, RankOrder
  <2> QED
    BY <1>1, <1>2, <2>1
<1>4. L \subseteq Int
  BY Powers DEF Heights
<1>5. \A l \in L : c <= l
  BY <1>2, <1>3, <1>4
<1> QED
  BY <1>1, <1>2, <1>5 DEF c

\* So the least height is on top.
LEMMA StackTop ==
  ASSUME NEW L \in Heights, NEW levels, NEW o, OnStack(levels, o, L),
         NEW c \in L, \A l \in L : c <= l
  PROVE  o \in Nat /\ o > 0 /\ levels[o - 1] = c /\ Rank(L, c) = o - 1
<1>1. L # {} /\ L \subseteq Int
  BY Powers DEF Heights
<1>2. o \in Nat /\ o > 0 /\ levels[o - 1] \in L /\ levels[o - 1] <= c /\ c <= levels[o - 1]
  BY <1>1, StackLow
<1>3. levels[o - 1] = c
  <2> DEFINE d == levels[o - 1]
  <2>1. d \in Int /\ c \in Int /\ d <= c /\ c <= d
    BY <1>1, <1>2
  <2> HIDE DEF d
  <2> QED
    BY <2>1 DEF d
<1>4. o - 1 \in 0 .. o - 1
  BY <1>2
<1> QED
  BY <1>2, <1>3, <1>4 DEF OnStack

\* Ranks do not depend on lower heights.
LEMMA RankSame ==
  ASSUME NEW L, NEW M, NEW l, \A m : m > l => (m \in L <=> m \in M)
  PROVE  Rank(L, l) = Rank(M, l)
<1>1. {m \in L : m > l} = {m \in M : m > l}
  OBVIOUS
<1> QED
  BY <1>1 DEF Rank

\* Taking the topmost node off.
LEMMA StackPop ==
  ASSUME NEW L \in Heights, NEW levels, NEW o, OnStack(levels, o, L),
         NEW c \in L, \A l \in L : c <= l
  PROVE  /\ OnStack(levels, o - 1, L \ {c})
         /\ \A l \in L \ {c} : Rank(L \ {c}, l) = Rank(L, l)
<1> DEFINE M == L \ {c}
<1>1. L \subseteq Int
  BY Powers DEF Heights
<1>2. \A l \in M : Rank(M, l) = Rank(L, l)
  <2>1. ASSUME NEW l \in M
        PROVE  Rank(M, l) = Rank(L, l)
    <3>1. c < l
      BY <1>1
    <3>2. \A m : m > l => (m \in L <=> m \in M)
      BY <1>1, <3>1
    <3> QED
      BY <3>2, RankSame
  <2> QED
    BY <2>1
<1>3. o \in Nat /\ o > 0 /\ Rank(L, c) = o - 1
  BY StackTop
<1>4. o - 1 = Cardinality(M)
  <2>1. IsFiniteSet(L) /\ Cardinality(L) = o
    BY HeightsFinite DEF OnStack
  <2> QED
    BY <2>1, FS_RemoveElement
<1>5. ASSUME NEW q \in 0 .. (o - 1) - 1
      PROVE  levels[q] \in M /\ Rank(M, levels[q]) = q
  <2>1. q \in 0 .. o - 1 /\ q # o - 1
    BY <1>3
  <2>2. levels[q] \in L /\ Rank(L, levels[q]) = q
    BY <2>1 DEF OnStack
  <2>3. levels[q] # c
    BY <1>3, <2>1, <2>2
  <2> QED
    BY <1>2, <2>2, <2>3
<1>6. ASSUME NEW l \in M
      PROVE  levels[Rank(M, l)] = l
  <2>1. Rank(M, l) = Rank(L, l) /\ l \in L
    BY <1>2
  <2> QED
    BY <2>1 DEF OnStack
<1> QED
  BY <1>2, <1>4, <1>5, <1>6 DEF OnStack

\* c is below all of L; b is the array a with c at o.
Below(c, L) == \A l \in L : c < l
Pushed(a, o, c, b) == b[o] = c /\ \A q \in 0 .. o - 1 : b[q] = a[q]

\* Putting a lower node on top.
LEMMA StackPush ==
  ASSUME NEW L \in Heights, NEW levels, NEW o, OnStack(levels, o, L),
         NEW c \in 0 .. TreeHeight, Below(c, L),
         NEW levels2, Pushed(levels, o, c, levels2), NEW M, M = L \union {c}
  PROVE  /\ OnStack(levels2, o + 1, M)
         /\ Rank(M, c) = o
         /\ \A l \in L : Rank(M, l) = Rank(L, l)
         /\ M \in Heights /\ c \notin L /\ o \in Nat
<1>0. L \subseteq Int /\ c \in Int
  BY Powers DEF Heights
<1>1. M \in Heights /\ c \notin L
  BY <1>0 DEF Heights, Below
<1>2. o = Cardinality(L) /\ o \in Nat /\ IsFiniteSet(L)
  BY HeightsFinite DEF OnStack
<1>3. Cardinality(M) = o + 1
  BY <1>1, <1>2, FS_AddElement
<1>4. Rank(M, c) = o
  <2>1. \A m \in M : m > c <=> m \in L
    BY <1>0, <1>1 DEF Below
  <2>2. {m \in M : m > c} = L
    BY <2>1
  <2> QED
    BY <1>2, <2>2 DEF Rank
<1>5. \A l \in L : Rank(M, l) = Rank(L, l)
  <2>1. ASSUME NEW l \in L
        PROVE  Rank(M, l) = Rank(L, l)
    <3>1. c < l /\ l \in Int
      BY <1>0 DEF Below
    <3>2. \A m : m > l => (m \in L <=> m \in M)
      BY <1>0, <3>1
    <3> QED
      BY <3>2, RankSame
  <2> QED
    BY <2>1
<1>6. ASSUME NEW q \in 0 .. (o + 1) - 1
      PROVE  levels2[q] \in M /\ Rank(M, levels2[q]) = q
  <2>1. CASE q = o
    BY <1>4, <2>1 DEF Pushed
  <2>2. CASE q # o
    <3>1. q \in 0 .. o - 1
      BY <1>2, <2>2
    <3>2. levels[q] \in L /\ Rank(L, levels[q]) = q /\ levels2[q] = levels[q]
      BY <3>1 DEF OnStack, Pushed
    <3> QED
      BY <1>5, <3>2
  <2> QED
    BY <2>1, <2>2
<1>7. ASSUME NEW l \in M
      PROVE  levels2[Rank(M, l)] = l
  <2>1. CASE l = c
    BY <1>4, <2>1 DEF Pushed
  <2>2. CASE l # c
    <3>1. l \in L /\ Rank(M, l) = Rank(L, l)
      BY <1>5, <2>2
    <3>2. Rank(L, l) \in 0 .. o - 1
      BY <1>2, <3>1, RankOrder
    <3>3. levels[Rank(L, l)] = l
      BY <3>1 DEF OnStack
    <3> QED
      BY <3>1, <3>2, <3>3 DEF Pushed
  <2> QED
    BY <2>1, <2>2
<1> QED
  BY <1>1, <1>2, <1>3, <1>4, <1>5, <1>6, <1>7 DEF OnStack

-----------------------------------------------------------------------------

\* Nodes of the one tree.
NodeAt(h, i) == Node(RealSeed, TheTree, h, i)

\* Leaves, and parents of two siblings.
LEMMA NodesAre ==
  /\ \A i : gen_leaf_wots(RealSeed, TheTree, i) = NodeAt(0, i)
  /\ \A h, i : thash_h(NodeAt(h, 2 * i), NodeAt(h, 2 * i + 1), RealSeed, TheTree, h, i) =
                 NodeAt(h + 1, i)
  BY DEF gen_leaf_wots, thash_h, NodeAt

\* A parameter set of this tree.
Sized(p) == p.tree_height = TreeHeight /\ p.bds_k \in 0 .. TreeHeight

\* A state has the fields of bds_state and the instances those of treehash_inst.
HasFields(s) ==
  {"stack", "stackoffset", "stacklevels", "auth", "keep", "treehash", "retain", "next_leaf"}
    \subseteq DOMAIN s
HasInstances(p, s) ==
  /\ DOMAIN s.treehash = 0 .. Instances(p) - 1
  /\ \A j \in DOMAIN s.treehash :
       {"h", "next_idx", "stackusage", "completed", "node"} \subseteq DOMAIN s.treehash[j]
HasArrays(p, s) ==
  /\ DOMAIN s.stack = 0 .. TreeHeight
  /\ DOMAIN s.stacklevels = 0 .. TreeHeight
  /\ DOMAIN s.auth = 0 .. TreeHeight - 1
  /\ DOMAIN s.keep = 0 .. (TreeHeight \div 2) - 1
  /\ DOMAIN s.retain = 0 .. Retained(p) - 1
Shape(p, s) == HasFields(s) /\ HasInstances(p, s) /\ HasArrays(p, s)

\* The instances at work, and the heights of the tail nodes of one.
Busy(s) == {j \in DOMAIN s.treehash : s.treehash[j].completed = 0}
Tails(x, j) == {l \in 0 .. j - 1 : Bit(x, l) = 1}
TailsOf(s, j) == Tails(s.treehash[j].next_idx, j)
Levels(s) == UNION {TailsOf(s, j) : j \in Busy(s)}

(***************************************************************************)
(* The instances at index t: j is to deliver the right node of height j    *)
(* after the next one, and has it if it is complete.                       *)
(***************************************************************************)
Wanted(t, j) == 2 * Shr(t, j + 1) + 3

InstanceAt(s, t, j) ==
  LET inst == s.treehash[j] IN
  /\ inst.h = j /\ inst.completed \in {0, 1}
  /\ j \in Busy(s) =>
       /\ inst.next_idx \in Nat /\ Shr(inst.next_idx, j) = Wanted(t, j)
       /\ Wanted(t, j) < 2^(TreeHeight - j) /\ Shr(t, j + 1) > 0
       /\ inst.stackusage = Cardinality(TailsOf(s, j))
  /\ j \notin Busy(s) =>
       /\ inst.stackusage = 0
       /\ Wanted(t, j) < 2^(TreeHeight - j) => inst.node = NodeAt(j, Wanted(t, j))

\* The stack holds the tail nodes of the instances at work.
TailNodes(s) ==
  \A j \in Busy(s) : \A l \in TailsOf(s, j) :
    s.stack[Rank(Levels(s), l)] = NodeAt(l, Shr(s.treehash[j].next_idx, l) - 1)

\* An instance above one that has tail nodes has none of lower heights.
Apart(s) ==
  \A j, i \in Busy(s) : j < i /\ TailsOf(s, j) # {} => \A l \in TailsOf(s, i) : j <= l

Traversal(s, t) ==
  /\ OnStack(s.stacklevels, s.stackoffset, Levels(s))
  /\ TailNodes(s)
  /\ Apart(s)
  /\ \A j \in DOMAIN s.treehash : InstanceAt(s, t, j)

\* The number of instances.
LEMMA InstancesNat ==
  ASSUME NEW p, Sized(p)
  PROVE  Instances(p) \in 0 .. TreeHeight /\ Instances(p) = TreeHeight - p.bds_k
<1>1. TreeHeight \in Nat
  BY Powers
<1> QED
  BY <1>1 DEF Sized, Instances

\* Tail nodes are below their instance.
LEMMA TailsAre ==
  ASSUME NEW p, Sized(p), NEW s, HasInstances(p, s)
  PROVE  /\ \A j \in DOMAIN s.treehash :
              /\ j \in 0 .. TreeHeight - 1 /\ TailsOf(s, j) \in Heights
              /\ \A l \in TailsOf(s, j) :
                   l \in 0 .. j - 1 /\ l \in 0 .. TreeHeight /\ Bit(s.treehash[j].next_idx, l) = 1
         /\ Levels(s) \in Heights
         /\ \A l \in Levels(s) : l < TreeHeight
         /\ Busy(s) \subseteq DOMAIN s.treehash
         /\ \A j \in Busy(s) : TailsOf(s, j) \in SUBSET Levels(s)
<1>1. TreeHeight \in Nat /\ Instances(p) \in 0 .. TreeHeight
  BY Powers, InstancesNat
<1>2. ASSUME NEW j \in DOMAIN s.treehash
      PROVE  /\ j \in 0 .. TreeHeight - 1 /\ TailsOf(s, j) \in Heights
             /\ \A l \in TailsOf(s, j) :
                  l \in 0 .. j - 1 /\ l \in 0 .. TreeHeight /\ Bit(s.treehash[j].next_idx, l) = 1
  <2>1. j \in 0 .. TreeHeight - 1
    BY <1>1 DEF HasInstances
  <2>2. \A l \in TailsOf(s, j) : l \in 0 .. j - 1 /\ Bit(s.treehash[j].next_idx, l) = 1
    BY DEF TailsOf, Tails
  <2>3. \A l \in TailsOf(s, j) : l \in 0 .. TreeHeight
    BY <1>1, <2>1, <2>2
  <2> QED
    BY <2>1, <2>2, <2>3 DEF Heights
<1>3. Busy(s) \subseteq DOMAIN s.treehash
  BY DEF Busy
<1>4. \A l \in Levels(s) : \E j \in Busy(s) : l \in TailsOf(s, j)
  BY DEF Levels
<1>5. \A l \in Levels(s) : l \in 0 .. TreeHeight /\ l < TreeHeight
  <2> SUFFICES ASSUME NEW l \in Levels(s)
               PROVE  l \in 0 .. TreeHeight /\ l < TreeHeight
    OBVIOUS
  <2>1. PICK j \in Busy(s) : l \in TailsOf(s, j)
    BY <1>4
  <2>2. j \in 0 .. TreeHeight - 1 /\ l \in 0 .. j - 1
    BY <1>2, <1>3, <2>1
  <2> QED
    BY <1>1, <2>2
<1>6. \A j \in Busy(s) : TailsOf(s, j) \in SUBSET Levels(s)
  BY DEF Levels
<1> QED
  BY <1>2, <1>3, <1>5, <1>6 DEF Heights

-----------------------------------------------------------------------------

\* The loop of treehash_update, called with p: lv and the state before.
Given(p) == p[2].treehash[p[1]].next_idx

More(lv, w) ==
  /\ w.state.treehash[lv].stackusage > 0
  /\ w.state.stacklevels[w.state.stackoffset - 1] = w.height

Hashed(lv, idx, w) ==
  [node   |-> thash_h(w.state.stack[w.state.stackoffset - 1], w.node,
                      RealSeed, TheTree, w.height, Shr(idx, w.height + 1)),
   height |-> w.height + 1,
   state  |-> [w.state EXCEPT !.treehash[lv].stackusage = @ - 1,
                              !.stackoffset = @ - 1]]

UpdateTurn(p, w, i) == IF More(p[1], w) THEN Hashed(p[1], Given(p), w) ELSE w

\* Only the top of the stack and the stackusage of lv differ.
SameBut(lv, s, u) ==
  /\ u.stack = s.stack /\ u.stacklevels = s.stacklevels
  /\ u.auth = s.auth /\ u.keep = s.keep /\ u.retain = s.retain
  /\ DOMAIN u = DOMAIN s /\ DOMAIN u.treehash = DOMAIN s.treehash
  /\ \A j \in DOMAIN s.treehash \ {lv} : u.treehash[j] = s.treehash[j]
  /\ DOMAIN u.treehash[lv] = DOMAIN s.treehash[lv]
  /\ u.treehash[lv].h = s.treehash[lv].h
  /\ u.treehash[lv].next_idx = s.treehash[lv].next_idx
  /\ u.treehash[lv].completed = s.treehash[lv].completed

\* w.height nodes have been taken off the stack and hashed.
UpdateInv(p, w, i) ==
  /\ {"node", "height", "state"} \subseteq DOMAIN w
  /\ w.height \in 0 .. p[1] /\ w.height <= i
  /\ w.height < i => ~ More(p[1], w)
  /\ Full(Given(p), w.height)
  /\ w.node = NodeAt(w.height, Shr(Given(p), w.height))
  /\ OnStack(w.state.stacklevels, w.state.stackoffset, Levels(p[2]) \ 0 .. w.height - 1)
  /\ SameBut(p[1], p[2], w.state)
  /\ w.state.treehash[p[1]].stackusage =
       Cardinality(TailsOf(p[2], p[1]) \ 0 .. w.height - 1)

Update == INSTANCE LoopRules WITH Body <- UpdateTurn, Inv <- UpdateInv

UpdateStart(p) ==
  [node |-> gen_leaf_wots(RealSeed, TheTree, Given(p)), height |-> 0, state |-> p[2]]

\* The end of treehash_update.
UpdateEnd(lv, done) ==
  LET t == done.state IN
  IF done.height = t.treehash[lv].h
  THEN [t EXCEPT !.treehash[lv].node = done.node,
                 !.treehash[lv].completed = 1]
  ELSE [t EXCEPT !.stack = Put(@, t.stackoffset, done.node),
                 !.stacklevels = Put(@, t.stackoffset, done.height),
                 !.stackoffset = @ + 1,
                 !.treehash[lv].stackusage = @ + 1,
                 !.treehash[lv].next_idx = @ + 1]

\* treehash_update is that loop and that end.
LEMMA UpdateIs ==
  ASSUME NEW par, Sized(par), NEW s, NEW lv
  PROVE  treehash_update(par, s, lv, RealSeed, TheTree) =
           UpdateEnd(lv, Update!TheFor(<<lv, s>>, TreeHeight, UpdateStart(<<lv, s>>)))
<1> DEFINE p == <<lv, s>>
<1>1. p[1] = lv /\ p[2] = s /\ par.tree_height = TreeHeight
  BY DEF Sized
<1> HIDE DEF p
<1>2. treehash_update(par, p[2], p[1], RealSeed, TheTree) =
        UpdateEnd(p[1], Update!TheFor(p, par.tree_height, UpdateStart(p)))
  BY DEF treehash_update, UpdateEnd, UpdateStart, UpdateTurn, Given, More, Hashed,
         While, For, Update!TheFor, Update!For
<1> QED
  BY <1>1, <1>2 DEF p

\* An instance may be given a leaf if the tail nodes of the others are not
\* in its way.
Lowest(s, lv) == \A l \in Levels(s) : l \in TailsOf(s, lv) \/ lv <= l
Ready(par, s, t, lv) ==
  Sized(par) /\ Shape(par, s) /\ Traversal(s, t) /\ lv \in Busy(s) /\ Lowest(s, lv)

\* The instance that is given a leaf.
LEMMA ReadyIs ==
  ASSUME NEW par, NEW s, NEW t, NEW lv, Ready(par, s, t, lv)
  PROVE  /\ TreeHeight \in Nat /\ lv \in 0 .. TreeHeight - 1 /\ lv \in DOMAIN s.treehash
         /\ s.treehash[lv].next_idx \in Nat
         /\ Levels(s) \in Heights /\ TailsOf(s, lv) \in SUBSET Levels(s)
         /\ \A l \in TailsOf(s, lv) : l \in 0 .. lv - 1
         /\ \A l \in Levels(s) : l \in 0 .. TreeHeight - 1
         /\ \A l \in 0 .. lv - 1 : l \in TailsOf(s, lv) <=> Bit(s.treehash[lv].next_idx, l) = 1
<1>1. Sized(par) /\ HasInstances(par, s) /\ lv \in Busy(s)
  BY DEF Ready, Shape
<1>2. /\ lv \in DOMAIN s.treehash /\ lv \in 0 .. TreeHeight - 1
      /\ Levels(s) \in Heights /\ TailsOf(s, lv) \in SUBSET Levels(s)
      /\ \A l \in TailsOf(s, lv) : l \in 0 .. lv - 1
      /\ \A l \in Levels(s) : l < TreeHeight
  BY <1>1, TailsAre
<1>3. s.treehash[lv].next_idx \in Nat
  BY <1>1, <1>2 DEF Ready, Traversal, InstanceAt
<1>4. \A l \in Levels(s) : l \in 0 .. TreeHeight - 1
  BY <1>2, Powers DEF Heights
<1> QED
  BY <1>2, <1>3, <1>4, Powers DEF TailsOf, Tails

\* The loop goes on while there is a node of the height reached.
LEMMA MoreIs ==
  ASSUME NEW par, NEW s, NEW t, NEW lv, Ready(par, s, t, lv),
         NEW p, p[1] = lv, p[2] = s, NEW w, NEW i, UpdateInv(p, w, i)
  PROVE  More(lv, w) <=> w.height < lv /\ Bit(s.treehash[lv].next_idx, w.height) = 1
<1> DEFINE L == Levels(s)
           T == TailsOf(s, lv)
           c == w.height
           C == 0 .. c - 1
           o == w.state.stackoffset
           levels == w.state.stacklevels
<1>1. /\ TreeHeight \in Nat /\ lv \in 0 .. TreeHeight - 1
      /\ L \in Heights /\ T \in SUBSET L
      /\ \A l \in T : l \in 0 .. lv - 1
      /\ \A l \in L : l \in 0 .. TreeHeight - 1
      /\ \A l \in 0 .. lv - 1 : l \in T <=> Bit(s.treehash[lv].next_idx, l) = 1
  BY ReadyIs
<1>2. /\ c \in 0 .. lv /\ OnStack(levels, o, L \ C)
      /\ w.state.treehash[lv].stackusage = Cardinality(T \ C)
  BY DEF UpdateInv
<1>3. More(lv, w) <=> w.state.treehash[lv].stackusage > 0 /\ levels[o - 1] = c
  BY DEF More
<1>4. \A l \in L : l \in T \/ lv <= l
  BY DEF Ready, Lowest
<1> HIDE DEF L, T, c, o, levels
<1>5. L \ C \in Heights /\ \A l \in L \ C : c <= l
  <2>1. L \ C \in Heights
    BY <1>1 DEF Heights
  <2>2. ASSUME NEW l \in L \ C
        PROVE  c <= l
    BY <1>1, <1>2
  <2> QED
    BY <2>1, <2>2
<1>6. IsFiniteSet(T \ C) /\ Cardinality(T \ C) \in Nat
  <2>1. T \ C \in SUBSET L
    BY <1>1
  <2> QED
    BY <1>1, <2>1, HeightsFinite
<1>7. ASSUME c < lv, c \in T
      PROVE  More(lv, w)
  <2>1. c \in T \ C /\ c \in L \ C
    BY <1>1, <1>2, <1>7
  <2>2. levels[o - 1] = c
    BY <1>2, <1>5, <2>1, StackTop
  <2>3. Cardinality(T \ C) # 0
    BY <1>6, <2>1, FS_EmptySet
  <2> QED
    BY <1>2, <1>3, <1>6, <2>2, <2>3
<1>8. ASSUME More(lv, w)
      PROVE  c < lv /\ c \in T
  <2>1. T \ C # {}
    BY <1>2, <1>3, <1>6, <1>8, FS_EmptySet
  <2>2. L \ C # {}
    BY <1>1, <2>1
  <2>3. levels[o - 1] \in L \ C
    BY <1>2, <1>5, <2>2, StackLow
  <2>4. c \in L
    BY <1>3, <1>8, <2>3
  <2>5. c # lv
    <3>1. \A l \in T : l \in 0 .. lv - 1
      BY <1>1
    <3> QED
      BY <2>1, <3>1
  <2>6. c < lv
    BY <1>1, <1>2, <2>5
  <2> QED
    BY <1>1, <1>2, <1>4, <2>4, <2>6
<1>9. c < lv => c \in 0 .. lv - 1
  BY <1>1, <1>2
<1> QED
  BY <1>1, <1>7, <1>8, <1>9 DEF c

\* Before the first turn.
LEMMA UpdateStarts ==
  ASSUME NEW par, NEW s, NEW t, NEW lv, Ready(par, s, t, lv), NEW p, p[1] = lv, p[2] = s
  PROVE  UpdateInv(p, UpdateStart(p), 0)
<1> DEFINE w == UpdateStart(p)
           x == Given(p)
<1>1. w.height = 0 /\ w.node = NodeAt(0, x) /\ w.state = s
      /\ {"node", "height", "state"} \subseteq DOMAIN w
  BY NodesAre DEF UpdateStart
<1> HIDE DEF w
<1>2. x \in Nat /\ lv \in 0 .. TreeHeight - 1 /\ TreeHeight \in Nat
  BY ReadyIs DEF Given
<1>3. Full(x, 0) /\ Shr(x, 0) = x
  <2>1. 0 \in 0 .. TreeHeight /\ 0 \in 0 .. TreeHeight + 1
    BY <1>2
  <2> QED
    BY <1>2, <2>1, FullUp, Parts
<1>4. 0 .. w.height - 1 = {}
  BY <1>1
<1>5. SameBut(lv, s, s)
  BY DEF SameBut
<1>6. /\ OnStack(s.stacklevels, s.stackoffset, Levels(s))
      /\ s.treehash[lv].stackusage = Cardinality(TailsOf(s, lv))
  <2>1. OnStack(s.stacklevels, s.stackoffset, Levels(s)) /\ InstanceAt(s, t, lv)
    BY ReadyIs DEF Ready, Traversal
  <2>2. lv \in Busy(s)
    BY DEF Ready
  <2> QED
    BY <2>1, <2>2 DEF InstanceAt
<1> HIDE DEF x
<1>7. /\ OnStack(w.state.stacklevels, w.state.stackoffset, Levels(p[2]) \ 0 .. w.height - 1)
      /\ w.state.treehash[p[1]].stackusage =
           Cardinality(TailsOf(p[2], p[1]) \ 0 .. w.height - 1)
  BY <1>1, <1>4, <1>6
<1>8. w.height \in 0 .. p[1] /\ w.height <= 0 /\ ~ w.height < 0
  BY <1>1, <1>2
<1>9. Full(x, w.height) /\ w.node = NodeAt(w.height, Shr(x, w.height))
  BY <1>1, <1>3
<1> QED
  BY <1>1, <1>5, <1>7, <1>8, <1>9 DEF UpdateInv, w, x

\* A turn.
LEMMA UpdateKeeps ==
  ASSUME NEW par, NEW s, NEW t, NEW lv, Ready(par, s, t, lv), NEW p, p[1] = lv, p[2] = s,
         NEW w, NEW i \in Nat, UpdateInv(p, w, i)
  PROVE  UpdateInv(p, UpdateTurn(p, w, i), i + 1)
<1> DEFINE L == Levels(s)
           T == TailsOf(s, lv)
           x == Given(p)
           c == w.height
           C == 0 .. c - 1
           o == w.state.stackoffset
           levels == w.state.stacklevels
           v == Hashed(lv, x, w)
<1>1. /\ TreeHeight \in Nat /\ lv \in 0 .. TreeHeight - 1 /\ lv \in DOMAIN s.treehash
      /\ L \in Heights /\ T \in SUBSET L /\ x \in Nat
      /\ \A l \in T : l \in 0 .. lv - 1
      /\ \A l \in L : l \in 0 .. TreeHeight - 1
      /\ \A l \in 0 .. lv - 1 : l \in T <=> Bit(x, l) = 1
  BY ReadyIs DEF Given
<1>2. /\ c \in 0 .. lv /\ c <= i /\ OnStack(levels, o, L \ C)
      /\ w.state.treehash[lv].stackusage = Cardinality(T \ C)
      /\ c < i => ~ More(lv, w)
      /\ Full(x, c) /\ w.node = NodeAt(c, Shr(x, c)) /\ SameBut(lv, s, w.state)
  BY DEF UpdateInv
<1>3. CASE ~ More(lv, w)
  <2>1. UpdateTurn(p, w, i) = w
    BY <1>3 DEF UpdateTurn
  <2>2. c <= i + 1
    BY <1>1, <1>2
  <2> QED
    BY <1>3, <2>1, <2>2 DEF UpdateInv
<1>4. CASE More(lv, w)
  <2>1. UpdateTurn(p, w, i) = v
    BY <1>4 DEF UpdateTurn
  <2>2. c < lv /\ Bit(x, c) = 1
    BY <1>4, MoreIs DEF Given
  <2>3. c = i /\ c + 1 \in 0 .. lv /\ c \in 0 .. TreeHeight /\ c \in 0 .. lv - 1
    BY <1>1, <1>2, <1>4, <2>2
  <2>4. c \in T /\ c \in L \ C /\ c \in T \ C
    BY <1>1, <2>2, <2>3
  <2>5. L \ C \in Heights /\ \A l \in L \ C : c <= l
    <3>1. L \ C \in Heights
      BY <1>1 DEF Heights
    <3>2. ASSUME NEW l \in L \ C
          PROVE  c <= l
      BY <1>1, <1>2
    <3> QED
      BY <3>1, <3>2
  <2>6. o \in Nat /\ o > 0 /\ levels[o - 1] = c /\ Rank(L \ C, c) = o - 1
        /\ OnStack(levels, o - 1, (L \ C) \ {c})
    <3> DEFINE M == L \ C
    <3>1. M \in Heights /\ OnStack(levels, o, M) /\ c \in M /\ \A l \in M : c <= l
      BY <1>2, <2>4, <2>5
    <3> HIDE DEF M, levels, o, c
    <3>2. o \in Nat /\ o > 0 /\ levels[o - 1] = c /\ Rank(M, c) = o - 1
      BY <3>1, StackTop
    <3>3. OnStack(levels, o - 1, M \ {c})
      BY <3>1, StackPop
    <3> QED
      BY <3>2, <3>3 DEF M
  <2>7. (L \ C) \ {c} = L \ 0 .. (c + 1) - 1 /\ (T \ C) \ {c} = T \ 0 .. (c + 1) - 1
    <3>1. \A l : l \in 0 .. (c + 1) - 1 <=> l \in C \/ l = c
      BY <1>1, <2>3
    <3> QED
      BY <3>1
  <2>8. Rank(L \ C, c) = Rank(L, c)
    <3>1. \A m : m > c => (m \in L \ C <=> m \in L)
      BY <1>1, <2>3
    <3> HIDE DEF C
    <3> QED
      BY <3>1, RankSame
  <2>9. w.state.stack[o - 1] = NodeAt(c, Shr(x, c) - 1)
    <3>1. TailNodes(s) /\ lv \in Busy(s)
      BY DEF Ready, Traversal
    <3>2. s.stack[Rank(L, c)] = NodeAt(c, Shr(x, c) - 1)
      BY <2>4, <3>1 DEF TailNodes, Given
    <3> QED
      BY <1>2, <2>6, <2>8, <3>2 DEF SameBut
  <2>10. Cardinality(T \ C) - 1 = Cardinality(T \ 0 .. (c + 1) - 1)
    <3>1. IsFiniteSet(T \ C)
      <4>1. T \ C \in SUBSET L
        BY <1>1
      <4> QED
        BY <1>1, <4>1, HeightsFinite
    <3> DEFINE M == T \ C
    <3>2. c \in M /\ IsFiniteSet(M)
      BY <2>4, <3>1
    <3>3. M \ {c} = T \ 0 .. (c + 1) - 1
      BY <2>7
    <3> HIDE DEF M
    <3>4. Cardinality(M \ {c}) = Cardinality(M) - 1
      BY <3>2, FS_RemoveElement
    <3> QED
      BY <3>3, <3>4 DEF M
  <2>11. v.height = c + 1 /\ {"node", "height", "state"} \subseteq DOMAIN v
         /\ v.node = thash_h(w.state.stack[o - 1], w.node, RealSeed, TheTree, c, Shr(x, c + 1))
         /\ v.state = [w.state EXCEPT !.treehash[lv].stackusage = @ - 1, !.stackoffset = @ - 1]
    BY DEF Hashed
  <2> DEFINE u == v.state
  <2>12. /\ u.stackoffset = o - 1 /\ u.stacklevels = levels
         /\ u.treehash[lv].stackusage = Cardinality(T \ C) - 1
         /\ SameBut(lv, s, u)
    <3>1. HasFields(s) /\ HasInstances(par, s)
      BY DEF Ready, Shape
    <3>2. {"stack", "stackoffset", "stacklevels", "auth", "keep", "treehash", "retain",
           "next_leaf"} \subseteq DOMAIN w.state
      BY <1>2, <3>1 DEF HasFields, SameBut
    <3>3. lv \in DOMAIN w.state.treehash
      BY <1>1, <1>2 DEF SameBut
    <3>4. {"h", "next_idx", "stackusage", "completed", "node"} \subseteq DOMAIN w.state.treehash[lv]
      BY <1>1, <1>2, <3>1 DEF HasInstances, SameBut
    <3>5. u = [w.state EXCEPT !.treehash[lv].stackusage = @ - 1, !.stackoffset = @ - 1]
      BY <2>11
    <3> HIDE DEF u, v
    <3>6. /\ u.stackoffset = o - 1 /\ u.stacklevels = levels /\ u.stack = w.state.stack
          /\ u.auth = w.state.auth /\ u.keep = w.state.keep /\ u.retain = w.state.retain
          /\ DOMAIN u = DOMAIN w.state
          /\ u.treehash = [w.state.treehash EXCEPT ![lv].stackusage = @ - 1]
      BY <3>2, <3>5
    <3>7. /\ DOMAIN u.treehash = DOMAIN w.state.treehash
          /\ \A j \in DOMAIN w.state.treehash \ {lv} : u.treehash[j] = w.state.treehash[j]
          /\ u.treehash[lv] = [w.state.treehash[lv] EXCEPT !.stackusage = @ - 1]
      BY <3>3, <3>6
    <3>8. /\ DOMAIN u.treehash[lv] = DOMAIN w.state.treehash[lv]
          /\ u.treehash[lv].stackusage = w.state.treehash[lv].stackusage - 1
          /\ u.treehash[lv].h = w.state.treehash[lv].h
          /\ u.treehash[lv].next_idx = w.state.treehash[lv].next_idx
          /\ u.treehash[lv].completed = w.state.treehash[lv].completed
      BY <3>4, <3>7
    <3>9. SameBut(lv, s, u)
      BY <1>2, <3>6, <3>7, <3>8 DEF SameBut
    <3>10. w.state.treehash[lv].stackusage = Cardinality(T \ C)
      BY <1>2
    <3> HIDE DEF T, C, o, levels
    <3> QED
      BY <3>6, <3>8, <3>9, <3>10
  <2>13. Full(x, c + 1) /\ v.node = NodeAt(c + 1, Shr(x, c + 1))
    <3>1. Full(x, c + 1) /\ Shr(x, c) = 2 * Shr(x, c + 1) + 1
      <4>1. x \in Nat /\ c \in 0 .. TreeHeight /\ Full(x, c) /\ Bit(x, c) = 1
        BY <1>1, <1>2, <2>2, <2>3
      <4> HIDE DEF x, c
      <4>2. Full(x, c + 1)
        BY <4>1, FullUp
      <4> QED
        BY <4>1, <4>2, PartsUp
    <3>2. w.node = NodeAt(c, 2 * Shr(x, c + 1) + 1)
          /\ w.state.stack[o - 1] = NodeAt(c, 2 * Shr(x, c + 1))
      <4>1. Shr(x, c + 1) \in Nat
        <5>1. c + 1 \in 0 .. TreeHeight + 1
          BY <1>1, <2>3
        <5> QED
          BY <1>1, <5>1, Parts
      <4>2. Shr(x, c) - 1 = 2 * Shr(x, c + 1)
        BY <3>1, <4>1
      <4> QED
        BY <1>2, <2>9, <3>1, <4>2
    <3> HIDE DEF c, o, x, v
    <3> QED
      BY <2>11, <3>1, <3>2, NodesAre
  <2> HIDE DEF u, v, c, x
  <2>14. v.height <= i + 1 /\ ~ v.height < i + 1 /\ v.height \in 0 .. lv
    BY <1>1, <1>2, <2>3, <2>11
  <2>15. OnStack(u.stacklevels, u.stackoffset, L \ 0 .. v.height - 1)
    BY <2>6, <2>7, <2>11, <2>12
  <2>16. u.treehash[lv].stackusage = Cardinality(T \ 0 .. v.height - 1)
    BY <2>10, <2>11, <2>12
  <2>17. UpdateInv(p, v, i + 1)
    BY <2>11, <2>12, <2>13, <2>14, <2>15, <2>16 DEF UpdateInv, x, u
  <2> QED
    BY <2>1, <2>17
<1> QED
  BY <1>3, <1>4

\* The others' tail nodes are not below lv.
LEMMA OthersAbove ==
  ASSUME NEW par, NEW s, NEW t, NEW lv, Ready(par, s, t, lv)
  PROVE  \A j \in Busy(s) \ {lv} : \A l \in TailsOf(s, j) : lv <= l
<1> SUFFICES ASSUME NEW j \in Busy(s) \ {lv}, NEW l \in TailsOf(s, j), ~ lv <= l
             PROVE  FALSE
  OBVIOUS
<1>1. /\ Sized(par) /\ HasInstances(par, s) /\ lv \in Busy(s) /\ Apart(s) /\ Lowest(s, lv)
  BY DEF Ready, Shape, Traversal
<1>2. /\ j \in 0 .. TreeHeight - 1 /\ lv \in 0 .. TreeHeight - 1
      /\ l \in 0 .. j - 1 /\ l \in Levels(s) /\ j \in Busy(s)
  BY <1>1, TailsAre
<1>3. l \in TailsOf(s, lv)
  BY <1>1, <1>2 DEF Lowest
<1>4. CASE lv < j
  BY <1>1, <1>2, <1>3, <1>4 DEF Apart
<1>5. CASE j < lv
  <2>1. j <= l
    BY <1>1, <1>2, <1>3, <1>5 DEF Apart
  <2> QED
    BY <1>2, <2>1
<1> QED
  BY <1>2, <1>4, <1>5

\* What does not change.
SamePath(s, u) == u.auth = s.auth /\ u.keep = s.keep /\ u.retain = s.retain

\* lv has one more leaf.
Moved(s, u, lv) ==
  /\ DOMAIN u.treehash = DOMAIN s.treehash
  /\ \A j \in DOMAIN s.treehash \ {lv} : u.treehash[j] = s.treehash[j]
  /\ \/ lv \notin Busy(u) /\ Full(s.treehash[lv].next_idx, lv)
     \/ /\ lv \in Busy(u) /\ ~ Full(s.treehash[lv].next_idx, lv)
        /\ u.treehash[lv].next_idx = s.treehash[lv].next_idx + 1

\* The other instances are as they were.
LEMMA OthersSame ==
  ASSUME NEW s, NEW u, NEW t, NEW lv, Moved(s, u, lv)
  PROVE  \A j \in DOMAIN s.treehash \ {lv} :
           /\ u.treehash[j] = s.treehash[j] /\ TailsOf(u, j) = TailsOf(s, j)
           /\ j \in Busy(u) <=> j \in Busy(s)
           /\ InstanceAt(s, t, j) => InstanceAt(u, t, j)
<1> SUFFICES ASSUME NEW j \in DOMAIN s.treehash \ {lv}
             PROVE  /\ u.treehash[j] = s.treehash[j] /\ TailsOf(u, j) = TailsOf(s, j)
                    /\ j \in Busy(u) <=> j \in Busy(s)
                    /\ InstanceAt(s, t, j) => InstanceAt(u, t, j)
  OBVIOUS
<1>1. u.treehash[j] = s.treehash[j] /\ DOMAIN u.treehash = DOMAIN s.treehash
  BY DEF Moved
<1>2. TailsOf(u, j) = TailsOf(s, j)
  BY <1>1 DEF TailsOf
<1>3. j \in Busy(u) <=> j \in Busy(s)
  BY <1>1 DEF Busy
<1> QED
  BY <1>1, <1>2, <1>3 DEF InstanceAt

\* The instance is complete: the node reached is the one wanted.
LEMMA UpdateCompletes ==
  ASSUME NEW par, NEW s, NEW t, NEW lv, Ready(par, s, t, lv), NEW p, p[1] = lv, p[2] = s,
         NEW w, UpdateInv(p, w, TreeHeight), w.height = lv,
         NEW u, u = UpdateEnd(lv, w)
  PROVE  Shape(par, u) /\ Traversal(u, t) /\ SamePath(s, u) /\ Moved(s, u, lv)
<1> DEFINE L == Levels(s)
           T == TailsOf(s, lv)
           x == s.treehash[lv].next_idx
           C == 0 .. lv - 1
           y == w.state
<1>1. /\ TreeHeight \in Nat /\ lv \in 0 .. TreeHeight - 1 /\ lv \in DOMAIN s.treehash
      /\ L \in Heights /\ T \in SUBSET L /\ x \in Nat
      /\ \A l \in T : l \in C
      /\ \A l \in L : l \in 0 .. TreeHeight - 1
  BY ReadyIs
<1>2. /\ OnStack(y.stacklevels, y.stackoffset, L \ C)
      /\ y.treehash[lv].stackusage = Cardinality(T \ C)
      /\ Full(x, lv) /\ w.node = NodeAt(lv, Shr(x, lv)) /\ SameBut(lv, s, y)
  BY DEF UpdateInv, Given
<1>3. Shape(par, s) /\ lv \in Busy(s) /\ InstanceAt(s, t, lv) /\ s.treehash[lv].h = lv
      /\ TailNodes(s) /\ Apart(s) /\ \A j \in DOMAIN s.treehash : InstanceAt(s, t, j)
  BY <1>1 DEF Ready, Traversal, InstanceAt
<1>4. /\ HasFields(y) /\ DOMAIN y = DOMAIN s /\ DOMAIN y.treehash = DOMAIN s.treehash
      /\ \A j \in DOMAIN s.treehash \ {lv} : y.treehash[j] = s.treehash[j]
      /\ DOMAIN y.treehash[lv] = DOMAIN s.treehash[lv]
      /\ {"h", "next_idx", "stackusage", "completed", "node"} \subseteq DOMAIN y.treehash[lv]
      /\ lv \in DOMAIN y.treehash /\ y.treehash[lv].h = lv /\ y.treehash[lv].next_idx = x
  BY <1>1, <1>2, <1>3 DEF Shape, HasFields, HasInstances, SameBut
<1>5. u = [y EXCEPT !.treehash[lv].node = w.node, !.treehash[lv].completed = 1]
  BY <1>4 DEF UpdateEnd
<1>6. /\ u.stack = y.stack /\ u.stacklevels = y.stacklevels /\ u.stackoffset = y.stackoffset
      /\ u.auth = y.auth /\ u.keep = y.keep /\ u.retain = y.retain /\ DOMAIN u = DOMAIN y
      /\ u.treehash = [y.treehash EXCEPT ![lv].node = w.node, ![lv].completed = 1]
  <2> HIDE DEF y
  <2> QED
    BY <1>4, <1>5 DEF HasFields
<1>7. /\ DOMAIN u.treehash = DOMAIN s.treehash
      /\ \A j \in DOMAIN s.treehash \ {lv} : u.treehash[j] = s.treehash[j]
      /\ u.treehash[lv] = [y.treehash[lv] EXCEPT !.node = w.node, !.completed = 1]
  <2> HIDE DEF y
  <2> QED
    BY <1>4, <1>6, ZenonT(60)
<1>8. /\ u.treehash[lv].h = lv /\ u.treehash[lv].completed = 1
      /\ u.treehash[lv].node = w.node /\ u.treehash[lv].stackusage = y.treehash[lv].stackusage
      /\ DOMAIN u.treehash[lv] = DOMAIN s.treehash[lv]
  <2> HIDE DEF y
  <2> QED
    BY <1>4, <1>7
<1>9. SamePath(s, u) /\ u.stack = s.stack
  BY <1>2, <1>6 DEF SamePath, SameBut
<1>10. Shape(par, u)
  <2>1. u.stacklevels = s.stacklevels /\ DOMAIN u = DOMAIN s
    BY <1>2, <1>4, <1>6 DEF SameBut
  <2>2. ASSUME NEW j \in DOMAIN u.treehash
        PROVE  {"h", "next_idx", "stackusage", "completed", "node"} \subseteq DOMAIN u.treehash[j]
    <3>1. {"h", "next_idx", "stackusage", "completed", "node"} \subseteq DOMAIN s.treehash[j]
      BY <1>3, <1>7 DEF Shape, HasInstances
    <3>2. DOMAIN u.treehash[j] = DOMAIN s.treehash[j]
      <4>1. CASE j = lv
        BY <1>8, <4>1
      <4>2. CASE j # lv
        BY <1>7, <4>2
      <4> QED
        BY <4>1, <4>2
    <3> QED
      BY <3>1, <3>2
  <2> HIDE DEF y
  <2> QED
    BY <1>3, <1>7, <1>9, <2>1, <2>2 DEF Shape, HasFields, HasInstances, HasArrays, SamePath
<1>11. lv \notin Busy(u)
  BY <1>8 DEF Busy
<1>12. Moved(s, u, lv)
  BY <1>2, <1>7, <1>11 DEF Moved
<1>13. Busy(u) = Busy(s) \ {lv} /\ \A j \in Busy(u) : TailsOf(u, j) = TailsOf(s, j)
  <2>1. Busy(u) \subseteq DOMAIN u.treehash /\ Busy(s) \subseteq DOMAIN s.treehash
    BY DEF Busy
  <2>2. \A j \in DOMAIN s.treehash \ {lv} :
          TailsOf(u, j) = TailsOf(s, j) /\ (j \in Busy(u) <=> j \in Busy(s))
    BY <1>12, OthersSame
  <2> QED
    BY <1>7, <1>11, <2>1, <2>2
<1>14. \A j \in Busy(s) \ {lv} : \A l \in TailsOf(s, j) : lv <= l
  BY OthersAbove
<1> HIDE DEF y, x
<1>15. Levels(u) = L \ C
  <2>1. ASSUME NEW l \in Levels(u)
        PROVE  l \in L \ C
    <3>1. PICK j \in Busy(u) : l \in TailsOf(u, j)
      BY DEF Levels
    <3>2. j \in Busy(s) \ {lv} /\ l \in TailsOf(s, j)
      BY <1>13, <3>1
    <3>3. lv <= l /\ l \in L
      BY <1>14, <3>2 DEF Levels
    <3> QED
      BY <1>1, <3>3
  <2>2. ASSUME NEW l \in L \ C
        PROVE  l \in Levels(u)
    <3>1. PICK j \in Busy(s) : l \in TailsOf(s, j)
      BY DEF Levels
    <3>2. j # lv
      BY <1>1, <3>1
    <3>3. j \in Busy(u) /\ l \in TailsOf(u, j)
      BY <1>13, <3>1, <3>2
    <3> QED
      BY <3>3 DEF Levels
  <2> QED
    BY <2>1, <2>2
<1>16. OnStack(u.stacklevels, u.stackoffset, Levels(u))
  BY <1>2, <1>6, <1>15
<1>17. TailNodes(u)
  <2> SUFFICES ASSUME NEW j \in Busy(u), NEW l \in TailsOf(u, j)
               PROVE  u.stack[Rank(Levels(u), l)] =
                        NodeAt(l, Shr(u.treehash[j].next_idx, l) - 1)
    BY DEF TailNodes
  <2>1. j \in Busy(s) \ {lv} /\ l \in TailsOf(s, j) /\ u.treehash[j] = s.treehash[j]
    <3>1. Busy(s) \subseteq DOMAIN s.treehash
      BY DEF Busy
    <3> QED
      BY <1>7, <1>13, <3>1
  <2>2. lv <= l /\ l \in L
    BY <1>14, <2>1 DEF Levels
  <2>3. Rank(L \ C, l) = Rank(L, l)
    <3>1. \A m : m > l => (m \in L \ C <=> m \in L)
      BY <1>1, <2>2
    <3> HIDE DEF L, C
    <3> QED
      BY <3>1, RankSame
  <2>4. s.stack[Rank(L, l)] = NodeAt(l, Shr(s.treehash[j].next_idx, l) - 1)
    BY <1>3, <2>1 DEF TailNodes
  <2> QED
    BY <1>9, <1>15, <2>1, <2>3, <2>4
<1>18. Apart(u)
  BY <1>3, <1>13 DEF Apart
<1>19. InstanceAt(u, t, lv)
  <2>1. u.treehash[lv].stackusage = 0
    <3>1. T \ C = {}
      BY <1>1
    <3> QED
      BY <1>2, <1>8, <3>1, FS_EmptySet
  <2>2. w.node = NodeAt(lv, Wanted(t, lv))
    <3>1. Shr(x, lv) = Wanted(t, lv)
      BY <1>3 DEF InstanceAt, x
    <3> QED
      BY <1>2, <3>1
  <2> QED
    BY <1>8, <1>11, <2>1, <2>2 DEF InstanceAt
<1>20. \A j \in DOMAIN u.treehash : InstanceAt(u, t, j)
  BY <1>3, <1>7, <1>12, <1>19, OthersSame
<1> QED
  BY <1>9, <1>10, <1>12, <1>16, <1>17, <1>18, <1>20 DEF Traversal

\* The tail nodes after one more leaf: those below c have become one at c.
LEMMA TailsNext ==
  ASSUME NEW x \in Nat, NEW lv \in 0 .. TreeHeight - 1, NEW c \in 0 .. lv - 1,
         Full(x, c), Bit(x, c) = 0
  PROVE  /\ Tails(x + 1, lv) = (Tails(x, lv) \ 0 .. c - 1) \union {c}
         /\ c \notin Tails(x, lv)
         /\ \A l \in Tails(x, lv) \ 0 .. c - 1 : c < l /\ Shr(x + 1, l) = Shr(x, l)
         /\ Shr(x + 1, c) = Shr(x, c) + 1
         /\ ~ Full(x, lv) /\ Shr(x + 1, lv) = Shr(x, lv)
<1>1. /\ TreeHeight \in Nat /\ c \in 0 .. TreeHeight /\ c \in 0 .. TreeHeight + 1
      /\ \A l \in 0 .. lv : l \in 0 .. TreeHeight + 1
  BY Powers
<1>2. \A l \in 0 .. c - 1 : Bit(x + 1, l) = 0
  <2> SUFFICES ASSUME NEW l \in 0 .. c - 1
               PROVE  Bit(x + 1, l) = 0
    OBVIOUS
  <2>1. l \in 0 .. c /\ l < c
    BY <1>1
  <2> QED
    BY <1>1, <2>1, FullBits
<1>3. Bit(x + 1, c) = 1 /\ Shr(x + 1, c) = Shr(x, c) + 1
  BY <1>1, FlipUp
<1>4. \A l \in c + 1 .. lv : /\ ~ Full(x, l) /\ Bit(x + 1, l) = Bit(x, l)
                             /\ Shr(x + 1, l) = Shr(x, l)
  <2> SUFFICES ASSUME NEW l \in c + 1 .. lv
               PROVE  /\ ~ Full(x, l) /\ Bit(x + 1, l) = Bit(x, l)
                      /\ Shr(x + 1, l) = Shr(x, l)
    OBVIOUS
  <2>1. l \in 0 .. TreeHeight + 1 /\ l \in c + 1 .. TreeHeight + 1
    BY <1>1
  <2>2. ~ Full(x, l)
    BY <1>1, <2>1, NotFull
  <2> QED
    BY <2>1, <2>2, CountOn
<1>5. \A l \in 0 .. lv - 1 :
        Bit(x + 1, l) = 1 <=> (Bit(x, l) = 1 /\ l \notin 0 .. c - 1) \/ l = c
  <2> SUFFICES ASSUME NEW l \in 0 .. lv - 1
               PROVE  Bit(x + 1, l) = 1 <=> (Bit(x, l) = 1 /\ l \notin 0 .. c - 1) \/ l = c
    OBVIOUS
  <2>1. l \in 0 .. c - 1 \/ l = c \/ l \in c + 1 .. lv
    BY <1>1
  <2>2. CASE l \in 0 .. c - 1
    BY <1>1, <1>2, <2>2
  <2>3. CASE l = c
    BY <1>3, <2>3
  <2>4. CASE l \in c + 1 .. lv
    BY <1>1, <1>4, <2>4
  <2> QED
    BY <2>1, <2>2, <2>3, <2>4
<1>6. Tails(x + 1, lv) = (Tails(x, lv) \ 0 .. c - 1) \union {c}
  BY <1>1, <1>5 DEF Tails
<1>7. ASSUME NEW l \in Tails(x, lv) \ 0 .. c - 1
      PROVE  c < l /\ Shr(x + 1, l) = Shr(x, l)
  <2>1. l \in 0 .. lv - 1 /\ Bit(x, l) = 1 /\ l \notin 0 .. c - 1
    BY DEF Tails
  <2>2. c < l /\ l \in c + 1 .. lv
    BY <1>1, <2>1
  <2> QED
    BY <1>4, <2>2
<1>8. lv \in c + 1 .. lv
  BY <1>1
<1> QED
  BY <1>3, <1>4, <1>6, <1>7, <1>8 DEF Tails

\* The node reached goes on the stack.
LEMMA UpdatePushes ==
  ASSUME NEW par, NEW s, NEW t, NEW lv, Ready(par, s, t, lv), NEW p, p[1] = lv, p[2] = s,
         NEW w, UpdateInv(p, w, TreeHeight),
         w.height < lv, Bit(s.treehash[lv].next_idx, w.height) = 0,
         NEW u, u = UpdateEnd(lv, w)
  PROVE  Shape(par, u) /\ Traversal(u, t) /\ SamePath(s, u) /\ Moved(s, u, lv)
<1> DEFINE L == Levels(s)
           T == TailsOf(s, lv)
           x == s.treehash[lv].next_idx
           c == w.height
           C == 0 .. c - 1
           y == w.state
           o == y.stackoffset
           M == (L \ C) \union {c}
<1>1. /\ TreeHeight \in Nat /\ lv \in 0 .. TreeHeight - 1 /\ lv \in DOMAIN s.treehash
      /\ L \in Heights /\ T \in SUBSET L /\ x \in Nat
      /\ \A l \in T : l \in 0 .. lv - 1
      /\ \A l \in L : l \in 0 .. TreeHeight - 1
  BY ReadyIs
<1>2. /\ OnStack(y.stacklevels, o, L \ C)
      /\ y.treehash[lv].stackusage = Cardinality(T \ C)
      /\ Full(x, c) /\ w.node = NodeAt(c, Shr(x, c)) /\ SameBut(lv, s, y)
      /\ c \in 0 .. lv
  BY DEF UpdateInv, Given
<1>3. /\ Shape(par, s) /\ lv \in Busy(s) /\ InstanceAt(s, t, lv) /\ s.treehash[lv].h = lv
      /\ TailNodes(s) /\ Apart(s) /\ \A j \in DOMAIN s.treehash : InstanceAt(s, t, j)
      /\ Lowest(s, lv) /\ s.treehash[lv].completed = 0
  BY <1>1 DEF Ready, Traversal, InstanceAt, Busy
<1>4. /\ HasFields(y) /\ DOMAIN y = DOMAIN s /\ DOMAIN y.treehash = DOMAIN s.treehash
      /\ \A j \in DOMAIN s.treehash \ {lv} : y.treehash[j] = s.treehash[j]
      /\ DOMAIN y.treehash[lv] = DOMAIN s.treehash[lv]
      /\ {"h", "next_idx", "stackusage", "completed", "node"} \subseteq DOMAIN y.treehash[lv]
      /\ lv \in DOMAIN y.treehash /\ y.treehash[lv].h = lv /\ y.treehash[lv].next_idx = x
      /\ y.treehash[lv].completed = 0
      /\ DOMAIN y.stack = 0 .. TreeHeight /\ DOMAIN y.stacklevels = 0 .. TreeHeight
  BY <1>1, <1>2, <1>3 DEF Shape, HasFields, HasInstances, HasArrays, SameBut
<1>5. u = [y EXCEPT !.stack = Put(@, y.stackoffset, w.node),
                    !.stacklevels = Put(@, y.stackoffset, w.height),
                    !.stackoffset = @ + 1,
                    !.treehash[lv].stackusage = @ + 1,
                    !.treehash[lv].next_idx = @ + 1]
  <2>1. w.height # y.treehash[lv].h
    BY <1>1, <1>2, <1>4
  <2> QED
    BY <2>1 DEF UpdateEnd
<1>6. /\ u.stack = Put(y.stack, o, w.node) /\ u.stacklevels = Put(y.stacklevels, o, c)
      /\ u.stackoffset = o + 1
      /\ u.auth = y.auth /\ u.keep = y.keep /\ u.retain = y.retain /\ DOMAIN u = DOMAIN y
      /\ u.treehash = [y.treehash EXCEPT ![lv].stackusage = @ + 1, ![lv].next_idx = @ + 1]
  <2> HIDE DEF y, o, c
  <2> QED
    BY <1>4, <1>5 DEF HasFields, o, c
<1>7. /\ DOMAIN u.treehash = DOMAIN s.treehash
      /\ \A j \in DOMAIN s.treehash \ {lv} : u.treehash[j] = s.treehash[j]
      /\ u.treehash[lv] = [y.treehash[lv] EXCEPT !.stackusage = @ + 1, !.next_idx = @ + 1]
  <2> HIDE DEF y
  <2> DEFINE g == [y.treehash EXCEPT ![lv].stackusage = @ + 1]
  <2>1. u.treehash = [g EXCEPT ![lv].next_idx = @ + 1]
    BY <1>6
  <2>2. /\ DOMAIN g = DOMAIN s.treehash
        /\ \A j \in DOMAIN s.treehash \ {lv} : g[j] = s.treehash[j]
        /\ g[lv] = [y.treehash[lv] EXCEPT !.stackusage = @ + 1]
    BY <1>1, <1>4
  <2> HIDE DEF g
  <2>3. /\ DOMAIN u.treehash = DOMAIN s.treehash
        /\ \A j \in DOMAIN s.treehash \ {lv} : u.treehash[j] = s.treehash[j]
        /\ u.treehash[lv] = [g[lv] EXCEPT !.next_idx = @ + 1]
    BY <1>1, <2>1, <2>2
  <2> QED
    BY <2>2, <2>3
<1>8. /\ u.treehash[lv].h = lv /\ u.treehash[lv].completed = 0
      /\ u.treehash[lv].next_idx = x + 1
      /\ u.treehash[lv].stackusage = y.treehash[lv].stackusage + 1
      /\ DOMAIN u.treehash[lv] = DOMAIN s.treehash[lv]
  <2> HIDE DEF y, x
  <2> QED
    BY <1>4, <1>7
<1>9. /\ c \in 0 .. lv - 1 /\ c \in 0 .. TreeHeight
      /\ Tails(x + 1, lv) = (T \ C) \union {c} /\ c \notin T
      /\ \A l \in T \ C : c < l /\ Shr(x + 1, l) = Shr(x, l)
      /\ Shr(x + 1, c) = Shr(x, c) + 1
      /\ ~ Full(x, lv) /\ Shr(x + 1, lv) = Shr(x, lv)
  <2>1. c \in 0 .. lv - 1 /\ c \in 0 .. TreeHeight /\ Bit(x, c) = 0
    BY <1>1, <1>2
  <2>2. T = Tails(x, lv)
    BY DEF TailsOf
  <2> HIDE DEF x, c, T
  <2> QED
    BY <1>1, <1>2, <2>1, <2>2, TailsNext
<1>10. lv \in Busy(u) /\ TailsOf(u, lv) = (T \ C) \union {c}
  BY <1>1, <1>7, <1>8, <1>9 DEF Busy, TailsOf
<1>11. Moved(s, u, lv)
  BY <1>7, <1>8, <1>9, <1>10 DEF Moved
<1> HIDE DEF y, x, c, o
<1>12. Busy(u) = Busy(s)
       /\ \A j \in Busy(s) \ {lv} : TailsOf(u, j) = TailsOf(s, j) /\ u.treehash[j] = s.treehash[j]
  <2>1. Busy(u) \subseteq DOMAIN u.treehash /\ Busy(s) \subseteq DOMAIN s.treehash
    BY DEF Busy
  <2> HIDE DEF L, T
  <2>2. \A j \in DOMAIN s.treehash \ {lv} :
          /\ u.treehash[j] = s.treehash[j] /\ TailsOf(u, j) = TailsOf(s, j)
          /\ j \in Busy(u) <=> j \in Busy(s)
          /\ InstanceAt(s, t, j) => InstanceAt(u, t, j)
    BY <1>11, OthersSame
  <2>3. DOMAIN u.treehash = DOMAIN s.treehash
    BY <1>7
  <2>4. lv \in Busy(u) /\ lv \in Busy(s)
    BY <1>3, <1>10
  <2>5. Busy(u) = Busy(s)
    BY <2>1, <2>2, <2>3, <2>4
  <2> QED
    BY <2>1, <2>2, <2>5
<1>13. \A j \in Busy(s) \ {lv} : \A l \in TailsOf(s, j) : lv <= l /\ l \in L
  BY OthersAbove DEF Levels
<1>14. L \ C \in Heights /\ \A l \in L \ C : c < l
  <2>1. L \ C \in Heights
    BY <1>1 DEF Heights
  <2>2. ASSUME NEW l \in L \ C
        PROVE  c < l
    <3>1. l \in T \/ lv <= l
      <4>1. l \in Levels(s) /\ Lowest(s, lv)
        BY <1>3, <2>2
      <4> QED
        BY <4>1 DEF Lowest
    <3>2. CASE l \in T
      BY <1>9, <2>2, <3>2
    <3>3. CASE lv <= l
      BY <1>1, <1>9, <2>2, <3>3
    <3> QED
      BY <3>1, <3>2, <3>3
  <2> QED
    BY <2>1, <2>2
<1>15. /\ u.stacklevels[o] = c /\ u.stack[o] = w.node
       /\ \A q \in 0 .. o - 1 : u.stacklevels[q] = y.stacklevels[q] /\ u.stack[q] = s.stack[q]
       /\ DOMAIN u.stack = 0 .. TreeHeight /\ DOMAIN u.stacklevels = 0 .. TreeHeight
  <2>1. o \in 0 .. TreeHeight
    <3>1. o = Cardinality(L \ C) /\ o \in 0 .. TreeHeight + 1
      BY <1>2, <1>14, HeightsFinite DEF OnStack
    <3>2. o <= TreeHeight
      <4>1. IsFiniteSet(L \ C) /\ c \notin L \ C /\ M \in Heights
        BY <1>9, <1>14, HeightsFinite DEF Heights
      <4>2. Cardinality(M) = o + 1
        BY <3>1, <4>1, FS_AddElement
      <4>3. Cardinality(M) \in 0 .. TreeHeight + 1
        BY <4>1, HeightsFinite
      <4> QED
        BY <1>1, <3>1, <4>2, <4>3
    <3> QED
      BY <1>1, <3>1, <3>2
  <2>2. y.stack = s.stack
    BY <1>2 DEF SameBut
  <2>3. \A q \in 0 .. o - 1 : q \in 0 .. TreeHeight /\ q # o
    BY <1>1, <2>1
  <2>4. o \in DOMAIN y.stack /\ o \in DOMAIN y.stacklevels
    BY <1>4, <2>1
  <2>5. u.stack = [y.stack EXCEPT ![o] = w.node] /\ u.stacklevels = [y.stacklevels EXCEPT ![o] = c]
    BY <1>6, <2>4 DEF Put
  <2>6. u.stacklevels[o] = c /\ u.stack[o] = w.node
    BY <2>4, <2>5
  <2>7. DOMAIN u.stack = 0 .. TreeHeight /\ DOMAIN u.stacklevels = 0 .. TreeHeight
    BY <1>4, <2>5
  <2>8. ASSUME NEW q \in 0 .. o - 1
        PROVE  u.stacklevels[q] = y.stacklevels[q] /\ u.stack[q] = s.stack[q]
    <3>1. q # o /\ q \in DOMAIN y.stack /\ q \in DOMAIN y.stacklevels
      BY <1>4, <2>3
    <3> QED
      BY <2>2, <2>5, <3>1
  <2> QED
    BY <2>6, <2>7, <2>8
<1>16. /\ OnStack(u.stacklevels, o + 1, M)
       /\ Rank(M, c) = o /\ \A l \in L \ C : Rank(M, l) = Rank(L \ C, l)
  <2> DEFINE K == L \ C
  <2>1. /\ K \in Heights /\ OnStack(y.stacklevels, o, K) /\ c \in 0 .. TreeHeight
        /\ (\A l \in K : c < l) /\ u.stacklevels[o] = c
        /\ \A q \in 0 .. o - 1 : u.stacklevels[q] = y.stacklevels[q]
    BY <1>2, <1>9, <1>14, <1>15
  <2> DEFINE ul == u.stacklevels
             yl == y.stacklevels
  <2>2. OnStack(yl, o, K) /\ ul[o] = c /\ \A q \in 0 .. o - 1 : ul[q] = yl[q]
    BY <2>1
  <2> HIDE DEF K, ul, yl
  <2>3. Below(c, K) /\ Pushed(yl, o, c, ul) /\ OnStack(yl, o, K) /\ o \in Nat
    BY <2>1, <2>2, HeightsFinite DEF Below, Pushed, OnStack
  <2>4. K \in Heights /\ c \in 0 .. TreeHeight
    BY <2>1
  <2>5. M = K \union {c}
    BY DEF K
  <2> HIDE DEF M
  <2>6. /\ OnStack(ul, o + 1, M)
        /\ Rank(M, c) = o
        /\ \A l \in K : Rank(M, l) = Rank(K, l)
        /\ M \in Heights /\ c \notin K /\ o \in Nat
    BY <2>3, <2>4, <2>5, StackPush
  <2> QED
    BY <2>6 DEF K, ul
<1>17. SamePath(s, u)
  BY <1>2, <1>6 DEF SamePath, SameBut
<1>18. Shape(par, u)
  <2>1. DOMAIN u = DOMAIN s
    BY <1>4, <1>6
  <2>2. ASSUME NEW j \in DOMAIN u.treehash
        PROVE  {"h", "next_idx", "stackusage", "completed", "node"} \subseteq DOMAIN u.treehash[j]
    <3>1. {"h", "next_idx", "stackusage", "completed", "node"} \subseteq DOMAIN s.treehash[j]
      BY <1>3, <1>7 DEF Shape, HasInstances
    <3>2. DOMAIN u.treehash[j] = DOMAIN s.treehash[j]
      <4>1. CASE j = lv
        BY <1>8, <4>1
      <4>2. CASE j # lv
        BY <1>7, <4>2
      <4> QED
        BY <4>1, <4>2
    <3> QED
      BY <3>1, <3>2
  <2>3. HasFields(u)
    BY <1>3, <2>1 DEF Shape, HasFields
  <2>4. HasInstances(par, u)
    BY <1>3, <1>7, <2>2 DEF Shape, HasInstances
  <2>5. HasArrays(par, u)
    <3>1. DOMAIN u.stack = 0 .. TreeHeight /\ DOMAIN u.stacklevels = 0 .. TreeHeight
      BY <1>15
    <3>2. u.auth = s.auth /\ u.keep = s.keep /\ u.retain = s.retain
      BY <1>17 DEF SamePath
    <3>3. HasArrays(par, s)
      BY <1>3 DEF Shape
    <3> QED
      BY <3>1, <3>2, <3>3 DEF HasArrays
  <2> QED
    BY <2>3, <2>4, <2>5 DEF Shape
<1>19. Levels(u) = M
  <2>1. ASSUME NEW l \in Levels(u)
        PROVE  l \in M
    <3>1. PICK j \in Busy(u) : l \in TailsOf(u, j)
      BY DEF Levels
    <3>2. CASE j = lv
      BY <1>1, <1>10, <3>1, <3>2
    <3>3. CASE j # lv
      <4>1. lv <= l /\ l \in L
        BY <1>12, <1>13, <3>1, <3>3
      <4> QED
        BY <1>1, <1>9, <4>1
    <3> QED
      BY <3>2, <3>3
  <2>2. ASSUME NEW l \in M
        PROVE  l \in Levels(u)
    <3>1. CASE l = c
      BY <1>10, <3>1 DEF Levels
    <3>2. CASE l # c
      <4>1. PICK j \in Busy(s) : l \in TailsOf(s, j) /\ l \notin C
        BY <3>2 DEF Levels
      <4>2. l \in TailsOf(u, j) /\ j \in Busy(u)
        BY <1>10, <1>12, <4>1
      <4> QED
        BY <4>2 DEF Levels
    <3> QED
      BY <3>1, <3>2
  <2> QED
    BY <2>1, <2>2
<1>20. OnStack(u.stacklevels, u.stackoffset, Levels(u))
  BY <1>6, <1>16, <1>19
<1>21. \A l \in L \ C : u.stack[Rank(M, l)] = s.stack[Rank(L, l)]
  <2> SUFFICES ASSUME NEW l \in L \ C
               PROVE  u.stack[Rank(M, l)] = s.stack[Rank(L, l)]
    OBVIOUS
  <2>1. Rank(L \ C, l) = Rank(L, l)
    <3>1. \A m : m > l => (m \in L \ C <=> m \in L)
      BY <1>1, <1>9, <1>14
    <3> HIDE DEF L, C
    <3> QED
      BY <3>1, RankSame
  <2>2. Rank(L \ C, l) \in 0 .. o - 1
    <3> DEFINE K == L \ C
    <3>1. K \in Heights /\ l \in K /\ o = Cardinality(K)
      BY <1>2, <1>14 DEF OnStack
    <3> HIDE DEF K
    <3>2. Rank(K, l) \in Nat /\ Rank(K, l) < o /\ o \in Int
      BY <3>1, RankOrder, HeightsFinite
    <3>3. Rank(K, l) \in 0 .. o - 1
      BY <3>2
    <3> QED
      BY <3>3 DEF K
  <2> QED
    BY <1>15, <1>16, <2>1, <2>2, ZenonT(60)
<1>22. TailNodes(u)
  <2> SUFFICES ASSUME NEW j \in Busy(u), NEW l \in TailsOf(u, j)
               PROVE  u.stack[Rank(Levels(u), l)] =
                        NodeAt(l, Shr(u.treehash[j].next_idx, l) - 1)
    BY DEF TailNodes
  <2>1. CASE j # lv
    <3>1. j \in Busy(s) /\ l \in TailsOf(s, j) /\ u.treehash[j] = s.treehash[j] /\ lv <= l /\ l \in L
      BY <1>12, <1>13, <2>1
    <3>2. l \in L \ C
      BY <1>1, <1>9, <3>1
    <3>3. s.stack[Rank(L, l)] = NodeAt(l, Shr(s.treehash[j].next_idx, l) - 1)
      BY <1>3, <3>1 DEF TailNodes
    <3> HIDE DEF M, L, C
    <3> QED
      BY <1>19, <1>21, <3>1, <3>2, <3>3
  <2>2. CASE j = lv /\ l # c
    <3>1. l \in T \ C /\ l \in L \ C
      BY <1>1, <1>10, <2>2
    <3>2. s.stack[Rank(L, l)] = NodeAt(l, Shr(x, l) - 1)
      BY <1>3, <3>1 DEF TailNodes, x
    <3>3. Shr(u.treehash[j].next_idx, l) = Shr(x, l)
      BY <1>8, <1>9, <2>2, <3>1
    <3> HIDE DEF M, L, C
    <3> QED
      BY <1>19, <1>21, <3>1, <3>2, <3>3
  <2>3. CASE j = lv /\ l = c
    <3>1. Shr(u.treehash[j].next_idx, l) = Shr(x, c) + 1 /\ Shr(x, c) \in Nat
      <4>1. c \in 0 .. TreeHeight + 1
        BY <1>1, <1>9
      <4>2. Shr(x, c) \in Nat
        BY <1>1, <4>1, Parts
      <4> QED
        BY <1>8, <1>9, <2>3, <4>2
    <3>2. (Shr(x, c) + 1) - 1 = Shr(x, c)
      BY <3>1
    <3> HIDE DEF M, L, C
    <3> QED
      BY <1>2, <1>15, <1>16, <1>19, <2>3, <3>1, <3>2
  <2> QED
    BY <2>1, <2>2, <2>3
<1>23. Apart(u)
  <2> SUFFICES ASSUME NEW j \in Busy(u), NEW i \in Busy(u), j < i, TailsOf(u, j) # {},
                      NEW l \in TailsOf(u, i)
               PROVE  j <= l
    BY DEF Apart
  <2>1. CASE j # lv /\ i # lv
    BY <1>3, <1>12, <2>1 DEF Apart
  <2>2. CASE j = lv
    <3>1. i # lv
      BY <1>1, <2>2
    <3> QED
      BY <1>12, <1>13, <2>2, <3>1
  <2>3. CASE j # lv /\ i = lv
    <3>1. PICK m \in TailsOf(s, j) : TRUE
      BY <1>12, <2>3
    <3>2. lv <= m
      BY <1>12, <1>13, <2>3
    <3>3. m \in 0 .. j - 1 /\ j \in 0 .. TreeHeight - 1
      <4>1. Sized(par) /\ HasInstances(par, s)
        BY DEF Ready, Shape
      <4>2. j \in DOMAIN s.treehash
        BY <1>12 DEF Busy
      <4> QED
        BY <3>1, <4>1, <4>2, TailsAre
    <3> QED
      BY <1>1, <2>3, <3>2, <3>3
  <2> QED
    BY <2>1, <2>2, <2>3
<1>24. InstanceAt(u, t, lv)
  <2>1. u.treehash[lv].stackusage = Cardinality(TailsOf(u, lv))
    <3> DEFINE K == T \ C
    <3>1. IsFiniteSet(K) /\ c \notin K
      <4>1. K \in SUBSET L
        BY <1>1
      <4> QED
        BY <1>1, <1>9, <4>1, HeightsFinite
    <3> HIDE DEF K
    <3>2. Cardinality(K \union {c}) = Cardinality(K) + 1
      BY <3>1, FS_AddElement
    <3> QED
      BY <1>2, <1>8, <1>10, <3>2 DEF K
  <2>2. Shr(x, lv) = Wanted(t, lv) /\ Wanted(t, lv) < 2^(TreeHeight - lv) /\ Shr(t, lv + 1) > 0
    BY <1>3 DEF InstanceAt, x
  <2>3. x + 1 \in Nat
    BY <1>1
  <2> QED
    BY <1>8, <1>9, <1>10, <2>1, <2>2, <2>3 DEF InstanceAt
<1>25. \A j \in DOMAIN u.treehash : InstanceAt(u, t, j)
  BY <1>3, <1>7, <1>11, <1>24, OthersSame
<1> QED
  BY <1>11, <1>17, <1>18, <1>20, <1>22, <1>23, <1>25 DEF Traversal

\* What treehash_update does for an instance that may be given a leaf.
LEMMA Updated ==
  ASSUME NEW par, NEW s, NEW t, NEW lv, Ready(par, s, t, lv),
         NEW u, u = treehash_update(par, s, lv, RealSeed, TheTree)
  PROVE  Shape(par, u) /\ Traversal(u, t) /\ SamePath(s, u) /\ Moved(s, u, lv)
<1> DEFINE p == <<lv, s>>
           w == Update!TheFor(p, TreeHeight, UpdateStart(p))
<1>1. p[1] = lv /\ p[2] = s
  OBVIOUS
<1>2. TreeHeight \in Nat /\ lv \in 0 .. TreeHeight - 1 /\ s.treehash[lv].next_idx \in Nat
  BY ReadyIs
<1>3. u = UpdateEnd(lv, w)
  BY UpdateIs DEF Ready
<1>4. UpdateInv(p, w, TreeHeight)
  <2> HIDE DEF p
  <2>1. UpdateInv(p, UpdateStart(p), 0)
    BY <1>1, UpdateStarts
  <2>2. ASSUME NEW v, NEW i \in 0 .. TreeHeight - 1, UpdateInv(p, v, i)
        PROVE  UpdateInv(p, UpdateTurn(p, v, i), i + 1)
    <3>1. i \in Nat
      BY <1>2
    <3> QED
      BY <1>1, <2>2, <3>1, UpdateKeeps
  <2> QED
    BY <1>2, <2>1, <2>2, Update!ForRule
<1> HIDE DEF w, p
<1>5. w.height \in 0 .. lv /\ (w.height < TreeHeight => ~ More(lv, w))
  BY <1>1, <1>4 DEF UpdateInv
<1>6. w.height < lv => Bit(s.treehash[lv].next_idx, w.height) = 0
  <2>1. More(lv, w) <=> w.height < lv /\ Bit(s.treehash[lv].next_idx, w.height) = 1
    BY <1>1, <1>4, MoreIs
  <2>2. ASSUME w.height < lv
        PROVE  Bit(s.treehash[lv].next_idx, w.height) \in {0, 1} /\ w.height < TreeHeight
    <3>1. w.height \in 0 .. TreeHeight + 1 /\ w.height < TreeHeight
      BY <1>2, <1>5, <2>2
    <3> QED
      BY <1>2, <3>1, Parts
  <2> QED
    BY <1>5, <2>1, <2>2
<1>7. CASE w.height < lv
  BY <1>1, <1>3, <1>4, <1>6, <1>7, UpdatePushes
<1>8. CASE w.height = lv
  BY <1>1, <1>3, <1>4, <1>8, UpdateCompletes
<1> QED
  BY <1>2, <1>5, <1>7, <1>8

-----------------------------------------------------------------------------

\* Sums of the numbers of a function from 0, as a loop.
SumTurn(p, t, i) == t + p[i]
Sums == INSTANCE LoopRules WITH Body <- SumTurn, Inv <- NoInv
Sum(f, m) == Sums!TheFor(f, m, 0)

\* The sums of g outgrow those of f by no more than b does.
Grows(f, g, b, m) ==
  /\ \A i \in 0 .. m - 1 : f[i] \in Int /\ g[i] \in Int /\ g[i] + b[i] <= f[i] + b[i + 1]
  /\ \A i \in 0 .. m : b[i] \in Int

\* Two sums, compared term by term.
LEMMA SumLe ==
  ASSUME NEW m \in Nat, NEW f, NEW g, NEW b, Grows(f, g, b, m)
  PROVE  Sum(f, m) \in Int /\ Sum(g, m) \in Int /\ Sum(g, m) + b[0] <= Sum(f, m) + b[m]
<1>1. PICK x : /\ Sum(f, m) = x[m] /\ x[0] = 0
               /\ \A i \in 0 .. m - 1 : x[i + 1] = x[i] + f[i]
  BY Sums!ForRuns DEF Sum, SumTurn
<1>2. PICK y : /\ Sum(g, m) = y[m] /\ y[0] = 0
               /\ \A i \in 0 .. m - 1 : y[i + 1] = y[i] + g[i]
  BY Sums!ForRuns DEF Sum, SumTurn
<1> DEFINE S == {n \in Nat : n <= m => /\ x[n] \in Int /\ y[n] \in Int
                                       /\ y[n] + b[0] <= x[n] + b[n]}
<1>3. 0 \in S
  BY <1>1, <1>2 DEF Grows
<1>4. ASSUME NEW n \in Nat, n \in S
      PROVE  n + 1 \in S
  <2> SUFFICES ASSUME n + 1 <= m
               PROVE  /\ x[n + 1] \in Int /\ y[n + 1] \in Int
                      /\ y[n + 1] + b[0] <= x[n + 1] + b[n + 1]
    OBVIOUS
  <2>1. n \in 0 .. m - 1 /\ n \in 0 .. m /\ n + 1 \in 0 .. m /\ 0 \in 0 .. m
    OBVIOUS
  <2>2. x[n] \in Int /\ y[n] \in Int /\ y[n] + b[0] <= x[n] + b[n]
    BY <1>4, <2>1
  <2>3. f[n] \in Int /\ g[n] \in Int /\ g[n] + b[n] <= f[n] + b[n + 1]
        /\ b[0] \in Int /\ b[n] \in Int /\ b[n + 1] \in Int
    BY <2>1 DEF Grows
  <2>4. x[n + 1] = x[n] + f[n] /\ y[n + 1] = y[n] + g[n]
    BY <1>1, <1>2, <2>1
  <2> QED
    BY <2>2, <2>3, <2>4
<1> HIDE DEF S
<1>5. m \in S
  BY <1>3, <1>4, Rules!SetInduction
<1> QED
  BY <1>1, <1>2, <1>5 DEF S

\* A sum between bounds.
Zeros(m) == [i \in 0 .. m - 1 |-> 0]

\* A sum of zeros is zero.
LEMMA SumZeros == ASSUME NEW m \in Nat PROVE Sum(Zeros(m), m) = 0
<1>1. PICK x : /\ Sum(Zeros(m), m) = x[m] /\ x[0] = 0
               /\ \A i \in 0 .. m - 1 : x[i + 1] = x[i] + Zeros(m)[i]
  BY Sums!ForRuns DEF Sum, SumTurn
<1> DEFINE S == {n \in Nat : n <= m => x[n] = 0}
<1>2. 0 \in S
  BY <1>1
<1>3. ASSUME NEW n \in Nat, n \in S
      PROVE  n + 1 \in S
  <2> SUFFICES ASSUME n + 1 <= m
               PROVE  x[n + 1] = 0
    OBVIOUS
  <2>1. n \in 0 .. m - 1 /\ x[n] = 0
    BY <1>3
  <2>2. Zeros(m)[n] = 0
    BY <2>1 DEF Zeros
  <2> QED
    BY <1>1, <2>1, <2>2
<1> HIDE DEF S
<1>4. m \in S
  BY <1>2, <1>3, Rules!SetInduction
<1> QED
  BY <1>1, <1>4 DEF S

-----------------------------------------------------------------------------

(***************************************************************************)
(* The work that is due before instance h is needed: what the instances up *)
(* to h are behind, and what those above it may take first.                *)
(***************************************************************************)
Gap(x, h) == IF Low(x, h) = 0 THEN 0 ELSE 2^h - Low(x, h)
Done(s, j) == IF j \in Busy(s) THEN Low(s.treehash[j].next_idx, j) ELSE 2^j
Term(s, t, h, j) ==
  IF j <= h THEN Low(t, j + 1) - 2 * Done(s, j)
  ELSE IF j \in Busy(s) THEN 2 * Gap(s.treehash[j].next_idx, h) ELSE 0
Terms(s, t, h) == [j \in DOMAIN s.treehash |-> Term(s, t, h, j)]
Load(p, s, t, h) == Sum(Terms(s, t, h), Instances(p))

\* The gap to the next multiple of 2^h, and one step towards it.
LEMMA GapIs ==
  ASSUME NEW x \in Nat, NEW h \in 0 .. TreeHeight
  PROVE  /\ Gap(x, h) \in Nat /\ Gap(x, h) <= 2^h - 1 /\ 2^h \in Nat \ {0}
         /\ Low(x, h) # 0 => Gap(x + 1, h) = Gap(x, h) - 1
         /\ Low(x, h) # 0 /\ Full(x, h) => Gap(x, h) = 1
<1> DEFINE r == Low(x, h)
           b == 2^h
<1>1. h \in 0 .. TreeHeight + 1
  BY Powers
<1>2. r \in 0 .. b - 1 /\ b \in Nat \ {0}
  BY <1>1, Parts
<1>3. Full(x, h) => Low(x + 1, h) = 0
  BY <1>1, CountOn
<1>4. ~ Full(x, h) => Low(x + 1, h) = r + 1
  BY <1>1, CountOn
<1>5. Full(x, h) <=> r = b - 1
  BY DEF Full
<1>6. Gap(x, h) = IF r = 0 THEN 0 ELSE b - r
  BY DEF Gap
<1>7. Gap(x + 1, h) = IF Low(x + 1, h) = 0 THEN 0 ELSE b - Low(x + 1, h)
  BY DEF Gap
<1> HIDE DEF r, b
<1>8. Gap(x, h) \in Nat /\ Gap(x, h) <= b - 1
  BY <1>2, <1>6
<1>9. r # 0 => Gap(x + 1, h) = Gap(x, h) - 1
  <2>1. CASE Full(x, h)
    BY <1>2, <1>3, <1>5, <1>6, <1>7, <2>1
  <2>2. CASE ~ Full(x, h)
    BY <1>2, <1>4, <1>5, <1>6, <1>7, <2>2
  <2> QED
    BY <2>1, <2>2
<1>10. r # 0 /\ Full(x, h) => Gap(x, h) = 1
  BY <1>2, <1>5, <1>6
<1> QED
  BY <1>2, <1>8, <1>9, <1>10 DEF r, b

\* A traversal of this tree.
At(par, s, t) == Sized(par) /\ Shape(par, s) /\ t \in Nat /\ Traversal(s, t)

\* What is in a term.
LEMMA TermIs ==
  ASSUME NEW par, NEW s, NEW t, At(par, s, t), NEW j \in DOMAIN s.treehash
  PROVE  /\ j \in 0 .. TreeHeight - 1 /\ 2^j \in Nat \ {0} /\ 2^(j + 1) = 2 * 2^j
         /\ Low(t, j + 1) \in 0 .. 2^(j + 1) - 1
         /\ j \in Busy(s) => /\ s.treehash[j].next_idx \in Nat
                             /\ Done(s, j) = Low(s.treehash[j].next_idx, j)
                             /\ Done(s, j) \in 0 .. 2^j - 1
         /\ j \notin Busy(s) => Done(s, j) = 2^j
         /\ \A h \in DOMAIN s.treehash :
              /\ Term(s, t, h, j) \in Int
              /\ j <= h => Term(s, t, h, j) = Low(t, j + 1) - 2 * Done(s, j)
              /\ j > h /\ j \notin Busy(s) => Term(s, t, h, j) = 0
              /\ j > h /\ j \in Busy(s) =>
                   Term(s, t, h, j) = 2 * Gap(s.treehash[j].next_idx, h)
<1>1. TreeHeight \in Nat /\ t \in Nat /\ \A i \in DOMAIN s.treehash : i \in 0 .. TreeHeight - 1
  BY Powers, TailsAre DEF At, Shape
<1>2. j \in 0 .. TreeHeight - 1 /\ j \in 0 .. TreeHeight + 1 /\ j + 1 \in 0 .. TreeHeight + 1
      /\ j \in 0 .. TreeHeight
  BY <1>1
<1>3. 2^j \in Nat \ {0} /\ 2^(j + 1) = 2 * 2^j /\ Low(t, j + 1) \in 0 .. 2^(j + 1) - 1
  BY <1>1, <1>2, Parts, PartsUp
<1>4. ASSUME j \in Busy(s)
      PROVE  /\ s.treehash[j].next_idx \in Nat
             /\ Done(s, j) = Low(s.treehash[j].next_idx, j)
             /\ Done(s, j) \in 0 .. 2^j - 1
  <2>1. s.treehash[j].next_idx \in Nat
    BY <1>4 DEF At, Traversal, InstanceAt
  <2>2. Low(s.treehash[j].next_idx, j) \in 0 .. 2^j - 1
    BY <1>2, <2>1, Parts
  <2> QED
    BY <1>4, <2>1, <2>2 DEF Done
<1>5. j \notin Busy(s) => Done(s, j) = 2^j
  BY DEF Done
<1>6. ASSUME NEW h \in DOMAIN s.treehash
      PROVE  /\ Term(s, t, h, j) \in Int
             /\ j <= h => Term(s, t, h, j) = Low(t, j + 1) - 2 * Done(s, j)
             /\ j > h /\ j \notin Busy(s) => Term(s, t, h, j) = 0
             /\ j > h /\ j \in Busy(s) =>
                  Term(s, t, h, j) = 2 * Gap(s.treehash[j].next_idx, h)
  <2>1. h \in 0 .. TreeHeight - 1 /\ h \in 0 .. TreeHeight
    BY <1>1
  <2>2. /\ j <= h => Term(s, t, h, j) = Low(t, j + 1) - 2 * Done(s, j)
        /\ j > h /\ j \notin Busy(s) => Term(s, t, h, j) = 0
        /\ j > h /\ j \in Busy(s) =>
             Term(s, t, h, j) = 2 * Gap(s.treehash[j].next_idx, h)
    BY <1>2, <2>1 DEF Term
  <2>3. CASE j <= h
    <3>1. Done(s, j) \in Int
      BY <1>3, <1>4, <1>5
    <3> QED
      BY <1>3, <2>2, <2>3, <3>1
  <2>4. CASE j > h /\ j \notin Busy(s)
    BY <2>2, <2>4
  <2>5. CASE j > h /\ j \in Busy(s)
    <3>1. Gap(s.treehash[j].next_idx, h) \in Nat
      BY <1>4, <2>1, <2>5, GapIs
    <3> QED
      BY <2>2, <2>5, <3>1
  <2> QED
    BY <1>2, <2>1, <2>2, <2>3, <2>4, <2>5
<1> QED
  BY <1>2, <1>3, <1>4, <1>5, <1>6

\* One more leaf for lv lowers the load by two.
LEMMA UpdateLowers ==
  ASSUME NEW par, NEW s, NEW t, NEW lv, Ready(par, s, t, lv), At(par, s, t),
         NEW u, Moved(s, u, lv), At(par, u, t), NEW h \in Busy(u),
         h < lv => \E l \in TailsOf(s, lv) : l < h
  PROVE  Load(par, u, t, h) + 2 <= Load(par, s, t, h)
<1> DEFINE m == Instances(par)
           f == Terms(s, t, h)
           g == Terms(u, t, h)
           b == [i \in 0 .. m |-> IF i <= lv THEN 0 ELSE -2]
           x == s.treehash[lv].next_idx
<1>1. /\ m \in 0 .. TreeHeight /\ TreeHeight \in Nat
      /\ DOMAIN s.treehash = 0 .. m - 1 /\ DOMAIN u.treehash = 0 .. m - 1
      /\ lv \in 0 .. m - 1 /\ lv \in Busy(s) /\ h \in 0 .. m - 1 /\ x \in Nat
      /\ \A l \in TailsOf(s, lv) : l \in 0 .. lv - 1 /\ Bit(x, l) = 1
  <2>1. m \in 0 .. TreeHeight /\ TreeHeight \in Nat
    BY InstancesNat, Powers DEF At
  <2>2. DOMAIN s.treehash = 0 .. m - 1 /\ DOMAIN u.treehash = 0 .. m - 1
    BY DEF At, Shape, HasInstances
  <2>3. lv \in DOMAIN s.treehash /\ x \in Nat /\ lv \in Busy(s) /\ h \in DOMAIN u.treehash
    BY ReadyIs DEF Ready, Busy
  <2>4. \A l \in TailsOf(s, lv) : l \in 0 .. lv - 1 /\ Bit(x, l) = 1
    BY DEF TailsOf, Tails
  <2> QED
    BY <2>1, <2>2, <2>3, <2>4
<1> HIDE DEF m
<1>2. \A i \in 0 .. m - 1 : f[i] = Term(s, t, h, i) /\ g[i] = Term(u, t, h, i)
                            /\ f[i] \in Int /\ g[i] \in Int
  <2>1. \A i \in 0 .. m - 1 : Term(s, t, h, i) \in Int
    BY <1>1, TermIs
  <2>2. \A i \in 0 .. m - 1 : Term(u, t, h, i) \in Int
    BY <1>1, TermIs
  <2> QED
    BY <1>1, <2>1, <2>2 DEF Terms
<1>3. \A i \in 0 .. m - 1 : i # lv => g[i] = f[i]
  <2> SUFFICES ASSUME NEW i \in 0 .. m - 1, i # lv
               PROVE  Term(u, t, h, i) = Term(s, t, h, i)
    BY <1>2
  <2>1. i \in DOMAIN s.treehash \ {lv}
    BY <1>1
  <2>2. u.treehash[i] = s.treehash[i] /\ (i \in Busy(u) <=> i \in Busy(s))
    BY <2>1, OthersSame
  <2>3. Done(u, i) = Done(s, i)
    BY <2>2 DEF Done
  <2> QED
    BY <2>2, <2>3 DEF Term
<1>4. g[lv] <= f[lv] - 2
  <2>1. lv \in DOMAIN s.treehash /\ lv \in DOMAIN u.treehash /\ h \in DOMAIN s.treehash
        /\ h \in DOMAIN u.treehash
    BY <1>1
  <2>2. /\ lv \in 0 .. TreeHeight /\ lv \in 0 .. TreeHeight + 1 /\ h \in 0 .. TreeHeight
        /\ 2^lv \in Nat \ {0}
        /\ Low(t, lv + 1) \in Int
    <3>1. lv \in 0 .. TreeHeight - 1 /\ 2^lv \in Nat \ {0} /\ 2^(lv + 1) = 2 * 2^lv
          /\ Low(t, lv + 1) \in 0 .. 2^(lv + 1) - 1
      BY <2>1, TermIs
    <3>2. Low(t, lv + 1) \in Int
      BY <3>1
    <3> QED
      BY <1>1, <3>1, <3>2
  <2>3. \/ lv \notin Busy(u) /\ Full(x, lv)
        \/ lv \in Busy(u) /\ ~ Full(x, lv) /\ u.treehash[lv].next_idx = x + 1
    BY DEF Moved
  <2>6. /\ lv <= h => Term(s, t, h, lv) = Low(t, lv + 1) - 2 * Done(s, lv)
        /\ lv > h /\ lv \in Busy(s) => Term(s, t, h, lv) = 2 * Gap(x, h)
        /\ lv \in Busy(s) => Done(s, lv) = Low(x, lv)
    BY <2>1, TermIs
  <2>7. /\ lv <= h => Term(u, t, h, lv) = Low(t, lv + 1) - 2 * Done(u, lv)
        /\ lv > h /\ lv \notin Busy(u) => Term(u, t, h, lv) = 0
        /\ lv > h /\ lv \in Busy(u) =>
             Term(u, t, h, lv) = 2 * Gap(u.treehash[lv].next_idx, h)
    BY <2>1, TermIs
  <2>8. f[lv] = Term(s, t, h, lv) /\ g[lv] = Term(u, t, h, lv)
    BY <1>1, <1>2
  <2> HIDE DEF f, g, x
  <2>4. CASE lv <= h
    <3>1. f[lv] = Low(t, lv + 1) - 2 * Done(s, lv) /\ Done(s, lv) = Low(x, lv)
      BY <1>1, <2>4, <2>6, <2>8
    <3>2. g[lv] = Low(t, lv + 1) - 2 * Done(u, lv)
      BY <1>1, <2>4, <2>7, <2>8
    <3>3. Done(u, lv) = Done(s, lv) + 1
      <4>1. CASE lv \notin Busy(u) /\ Full(x, lv)
        <5>1. Done(u, lv) = 2^lv
          BY <4>1 DEF Done
        <5>2. Low(x, lv) = 2^lv - 1
          BY <4>1 DEF Full
        <5> QED
          BY <2>2, <3>1, <5>1, <5>2
      <4>2. CASE lv \in Busy(u) /\ ~ Full(x, lv) /\ u.treehash[lv].next_idx = x + 1
        <5>1. Low(x + 1, lv) = Low(x, lv) + 1
          BY <1>1, <2>2, <4>2, CountOn
        <5>2. Done(u, lv) = Low(x + 1, lv)
          BY <4>2 DEF Done
        <5> QED
          BY <3>1, <5>1, <5>2
      <4> QED
        BY <2>3, <4>1, <4>2
    <3>4. Done(s, lv) \in Int
      <4>1. Done(s, lv) \in 0 .. 2^lv - 1
        BY <1>1, <2>1, TermIs
      <4> QED
        BY <4>1
    <3> QED
      BY <2>2, <3>1, <3>2, <3>3, <3>4
  <2>5. CASE lv > h
    <3>1. f[lv] = 2 * Gap(x, h)
      BY <1>1, <2>5, <2>6, <2>8
    <3>2. Low(x, h) # 0
      <4>1. PICK l \in TailsOf(s, lv) : l < h
        BY <1>1, <2>5
      <4>2. l \in 0 .. h /\ Bit(x, l) = 1 /\ h \in 0 .. TreeHeight + 1
        BY <1>1, <4>1
      <4>3. Low(x, h) = 0 => Bit(x, l) = 0
        BY <1>1, <4>1, <4>2, LowZero
      <4> QED
        BY <4>2, <4>3
    <3>3. /\ Gap(x, h) \in Nat /\ Gap(x + 1, h) = Gap(x, h) - 1
          /\ Full(x, h) => Gap(x, h) = 1
      BY <1>1, <2>2, <3>2, GapIs
    <3>4. CASE lv \notin Busy(u) /\ Full(x, lv)
      <4>1. Full(x, h)
        <5>1. h \in 0 .. lv
          BY <1>1, <2>5
        <5> QED
          BY <1>1, <2>2, <3>4, <5>1, FullBits
      <4>2. g[lv] = 0
        BY <1>1, <2>5, <2>7, <2>8, <3>4
      <4> QED
        BY <3>1, <3>3, <4>1, <4>2
    <3>5. CASE lv \in Busy(u) /\ ~ Full(x, lv) /\ u.treehash[lv].next_idx = x + 1
      <4>1. g[lv] = 2 * Gap(x + 1, h)
        BY <1>1, <2>5, <2>7, <2>8, <3>5
      <4> QED
        BY <3>1, <3>3, <4>1
    <3> QED
      BY <2>3, <3>4, <3>5
  <2> QED
    BY <1>1, <2>4, <2>5
<1>5. b[0] = 0 /\ b[m] = -2 /\ \A i \in 0 .. m : b[i] \in Int
  BY <1>1
<1>6. \A i \in 0 .. m - 1 : /\ i # lv => b[i + 1] = b[i]
                            /\ i = lv => b[i] = 0 /\ b[i + 1] = -2
  BY <1>1
<1> HIDE DEF f, g, b, x
<1>7. \A i \in 0 .. m - 1 : g[i] + b[i] <= f[i] + b[i + 1]
  <2> SUFFICES ASSUME NEW i \in 0 .. m - 1
               PROVE  g[i] + b[i] <= f[i] + b[i + 1]
    OBVIOUS
  <2>1. f[i] \in Int /\ g[i] \in Int /\ b[i] \in Int /\ i \in 0 .. m
    BY <1>1, <1>2, <1>5
  <2>2. CASE i = lv
    BY <1>4, <1>6, <2>1, <2>2
  <2>3. CASE i # lv
    BY <1>3, <1>6, <2>1, <2>3
  <2> QED
    BY <2>2, <2>3
<1>8. Grows(f, g, b, m) /\ m \in Nat
  BY <1>1, <1>2, <1>5, <1>7 DEF Grows
<1>9. Sum(f, m) \in Int /\ Sum(g, m) \in Int /\ Sum(g, m) + b[0] <= Sum(f, m) + b[m]
  BY <1>8, SumLe
<1>10. Load(par, u, t, h) = Sum(g, m) /\ Load(par, s, t, h) = Sum(f, m)
  BY DEF Load, f, g, m
<1> QED
  BY <1>5, <1>9, <1>10

-----------------------------------------------------------------------------

\* Sets of numbers have a least element.
LEMMA MinIs ==
  ASSUME NEW S, S \subseteq Nat, S # {}
  PROVE  Min(S) \in S /\ \A n \in S : Min(S) <= n
<1>1. \E m \in S : \A n \in S : m <= n
  <2> SUFFICES ASSUME \A m \in S : \E n \in S : n < m
               PROVE  FALSE
    OBVIOUS
  <2> DEFINE T == {n \in Nat : \A m \in 0 .. n : m \notin S}
  <2>1. 0 \in T
    <3>1. 0 \notin S
      OBVIOUS
    <3> QED
      BY <3>1
  <2>2. ASSUME NEW n \in Nat, n \in T
        PROVE  n + 1 \in T
    <3>1. n + 1 \notin S
      <4> SUFFICES ASSUME n + 1 \in S
                   PROVE  FALSE
        OBVIOUS
      <4>1. PICK m \in S : m < n + 1
        OBVIOUS
      <4>2. m \in 0 .. n
        BY <4>1
      <4> QED
        BY <2>2, <4>2
    <3>2. \A m \in 0 .. n + 1 : m \in 0 .. n \/ m = n + 1
      OBVIOUS
    <3> QED
      BY <2>2, <3>1, <3>2
  <2> HIDE DEF T
  <2>3. Nat \subseteq T
    BY <2>1, <2>2, Rules!SetInduction
  <2>4. \A n \in Nat : n \notin S
    BY <2>3 DEF T
  <2> QED
    BY <2>4
<1> QED
  BY <1>1 DEF Min

\* How far down an instance is: busy ones with tail nodes all as far as the
\* top of the stack.
LEMMA LowNodeIs ==
  ASSUME NEW par, NEW s, NEW t, At(par, s, t), NEW i \in DOMAIN s.treehash
  PROVE  /\ i \notin Busy(s) => LowNode(par, s, i) = TreeHeight
         /\ i \in Busy(s) /\ TailsOf(s, i) = {} => LowNode(par, s, i) = i
         /\ i \in Busy(s) /\ TailsOf(s, i) # {} =>
              LowNode(par, s, i) = s.stacklevels[s.stackoffset - 1]
<1> DEFINE L == Levels(s)
           T == TailsOf(s, i)
           o == s.stackoffset
           levels == s.stacklevels
           k == s.treehash[i].stackusage
<1>1. par.tree_height = TreeHeight /\ TreeHeight \in Nat
  BY Powers DEF At, Sized
<1>2. s.treehash[i].completed \in {0, 1} /\ (i \in Busy(s) <=> s.treehash[i].completed = 0)
      /\ (i \in Busy(s) => k = Cardinality(T))
  BY DEF At, Traversal, InstanceAt, Busy
<1>3. i \notin Busy(s) => LowNode(par, s, i) = TreeHeight
  BY <1>1, <1>2 DEF LowNode
<1>4. /\ L \in Heights /\ OnStack(levels, o, L) /\ \A l \in L : l \in Nat /\ l < TreeHeight
      /\ i \in Busy(s) => T \in SUBSET L
  <2>1. /\ L \in Heights /\ \A l \in L : l < TreeHeight
        /\ \A j \in Busy(s) : TailsOf(s, j) \in SUBSET L
    BY TailsAre DEF At, Shape
  <2>2. OnStack(levels, o, L)
    BY DEF At, Traversal
  <2>3. \A l \in L : l \in Nat
    BY <1>1, <2>1 DEF Heights
  <2> QED
    BY <2>1, <2>2, <2>3
<1>5. ASSUME i \in Busy(s), T = {}
      PROVE  LowNode(par, s, i) = i
  <2>1. k = 0
    BY <1>2, <1>5, FS_EmptySet
  <2> QED
    BY <1>2, <1>5, <2>1 DEF LowNode
<1>6. ASSUME i \in Busy(s), T # {}
      PROVE  LowNode(par, s, i) = levels[o - 1]
  <2> DEFINE S == {par.tree_height} \union {levels[o - q - 1] : q \in 0 .. k - 1}
             c == levels[o - 1]
  <2>1. k \in Nat /\ k > 0 /\ k <= o /\ o \in Nat
    <3> HIDE DEF L, T, o, k, levels
    <3>1. T \in SUBSET L /\ k = Cardinality(T) /\ o = Cardinality(L)
      BY <1>2, <1>4, <1>6 DEF OnStack
    <3>2. /\ Cardinality(T) \in Nat /\ Cardinality(T) <= Cardinality(L) /\ IsFiniteSet(T)
          /\ Cardinality(L) \in 0 .. TreeHeight + 1
      BY <1>4, <3>1, HeightsFinite
    <3>3. Cardinality(T) # 0
      BY <1>6, <3>2, FS_EmptySet
    <3> QED
      BY <3>1, <3>2, <3>3
  <2>2. LowNode(par, s, i) = Min(S)
    BY <1>2, <1>6, <2>1 DEF LowNode, treehash_minheight_on_stack
  <2> HIDE DEF L, T, o, k, levels
  <2>3. c \in L /\ \A l \in L : c <= l
    <3>1. L # {}
      BY <1>4, <1>6
    <3> QED
      BY <1>4, <3>1, StackLow
  <2>4. c \in S
    <3>1. 0 \in 0 .. k - 1 /\ o - 0 - 1 = o - 1
      BY <2>1
    <3> QED
      BY <3>1
  <2>5. ASSUME NEW q \in 0 .. k - 1
        PROVE  levels[o - q - 1] \in L
    <3>1. o - q - 1 \in 0 .. o - 1
      BY <2>1
    <3> QED
      BY <1>4, <3>1 DEF OnStack
  <2>6. S \subseteq Nat
    BY <1>1, <1>4, <2>5
  <2>7. \A n \in S : c <= n
    BY <1>1, <1>4, <2>3, <2>5
  <2> HIDE DEF S, c
  <2>8. Min(S) \in S /\ \A n \in S : Min(S) <= n
    BY <2>4, <2>6, MinIs
  <2>9. Min(S) \in Nat /\ c \in Nat /\ Min(S) <= c /\ c <= Min(S)
    BY <2>4, <2>6, <2>7, <2>8
  <2>10. Min(S) = c
    BY <2>9
  <2> QED
    BY <2>2, <2>10 DEF c
<1> QED
  BY <1>3, <1>5, <1>6

\* The instance that needs an update most may be given one, and those below
\* it wait for its tail nodes.
LEMMA NeediestIs ==
  ASSUME NEW par, NEW s, NEW t, At(par, s, t), NEW lv, lv = NeediestInstance(par, s)
  PROVE  /\ Busy(s) = {} <=> lv = Instances(par)
         /\ lv < Instances(par) <=> Busy(s) # {}
         /\ Busy(s) # {} =>
              /\ Ready(par, s, t, lv)
              /\ \A h \in Busy(s) : h < lv => \E l \in TailsOf(s, lv) : l < h
<1> DEFINE low == [i \in DOMAIN s.treehash |-> LowNode(par, s, i)]
           open == {i \in DOMAIN low : low[i] < par.tree_height}
           least == {i \in open : \A j \in open : low[i] <= low[j]}
           m == s.stacklevels[s.stackoffset - 1]
           L == Levels(s)
<1>1. /\ par.tree_height = TreeHeight /\ TreeHeight \in Nat
      /\ DOMAIN s.treehash = 0 .. Instances(par) - 1 /\ Instances(par) \in 0 .. TreeHeight
      /\ HasInstances(par, s) /\ Sized(par) /\ Busy(s) \subseteq DOMAIN s.treehash
  BY Powers, InstancesNat DEF At, Sized, Shape, HasInstances, Busy
<1>2. /\ \A j \in DOMAIN s.treehash : j \in 0 .. TreeHeight - 1
      /\ L \in Heights /\ \A l \in L : l < TreeHeight
      /\ \A j \in Busy(s) : TailsOf(s, j) \in SUBSET L
      /\ \A j \in Busy(s) : \A l \in TailsOf(s, j) : l \in 0 .. j - 1
  BY <1>1, TailsAre
<1>3. lv = IF open = {} THEN Instances(par) ELSE Min(least)
  BY DEF NeediestInstance
<1>4. /\ \A i \in DOMAIN s.treehash : i \notin Busy(s) => low[i] = TreeHeight
      /\ \A i \in Busy(s) : /\ TailsOf(s, i) = {} => low[i] = i
                            /\ TailsOf(s, i) # {} => low[i] = m
  BY <1>1, LowNodeIs
<1>5. ASSUME NEW i \in Busy(s), TailsOf(s, i) # {}
      PROVE  m \in L /\ m \in Nat /\ m < i /\ \A l \in L : m <= l
  <2>1. OnStack(s.stacklevels, s.stackoffset, L)
    BY DEF At, Traversal
  <2>2. L # {}
    BY <1>2, <1>5
  <2>3. m \in L /\ \A l \in L : m <= l
    BY <1>2, <2>1, <2>2, StackLow
  <2>4. PICK l \in TailsOf(s, i) : TRUE
    BY <1>5
  <2>5. m \in 0 .. TreeHeight /\ l \in 0 .. i - 1 /\ m <= l
    BY <1>2, <2>3, <2>4 DEF Heights
  <2>6. i \in 0 .. TreeHeight - 1
    BY <1>1, <1>2
  <2> HIDE DEF m
  <2> QED
    BY <2>3, <2>5, <2>6
<1> HIDE DEF m, L
<1>6. ASSUME NEW i \in Busy(s)
      PROVE  low[i] \in Nat /\ low[i] <= i /\ i < TreeHeight /\ i \in Nat
  <2>1. i \in 0 .. TreeHeight - 1
    BY <1>1, <1>2
  <2>2. CASE TailsOf(s, i) = {}
    <3>1. low[i] = i
      BY <1>4, <2>2
    <3> HIDE DEF low
    <3> QED
      BY <1>1, <2>1, <3>1
  <2>3. CASE TailsOf(s, i) # {}
    <3>1. low[i] = m /\ m \in Nat /\ m < i
      BY <1>4, <1>5, <2>3
    <3> HIDE DEF low
    <3> QED
      BY <1>1, <2>1, <3>1
  <2> QED
    BY <2>2, <2>3
<1>7. open = Busy(s)
  <2>1. DOMAIN low = DOMAIN s.treehash
    OBVIOUS
  <2> HIDE DEF low
  <2>2. ASSUME NEW i \in DOMAIN s.treehash
        PROVE  low[i] < par.tree_height <=> i \in Busy(s)
    <3>1. CASE i \in Busy(s)
      BY <1>1, <1>6, <3>1
    <3>2. CASE i \notin Busy(s)
      BY <1>1, <1>4, <3>2
    <3> QED
      BY <3>1, <3>2
  <2> QED
    BY <1>1, <2>1, <2>2
<1> HIDE DEF low, open
<1>8. CASE Busy(s) = {}
  BY <1>1, <1>3, <1>7, <1>8
<1>9. CASE Busy(s) # {}
  <2>1. least # {} /\ least \subseteq Nat
    <3> DEFINE S == {low[i] : i \in Busy(s)}
    <3>1. S # {} /\ S \subseteq Nat
      BY <1>6, <1>9
    <3> HIDE DEF S
    <3>2. Min(S) \in S /\ \A n \in S : Min(S) <= n
      BY <3>1, MinIs
    <3>3. PICK i \in Busy(s) : Min(S) = low[i]
      BY <3>2 DEF S
    <3>4. i \in least
      BY <1>7, <3>2, <3>3 DEF S
    <3>5. least \subseteq Nat
      BY <1>6, <1>7
    <3> QED
      BY <3>4, <3>5
  <2>2. lv = Min(least)
    BY <1>3, <1>7, <1>9
  <2>3. lv \in least /\ \A i \in least : lv <= i
    <3> HIDE DEF least
    <3> QED
      BY <2>1, <2>2, MinIs
  <2>4. lv \in Busy(s) /\ \A j \in Busy(s) : low[lv] <= low[j]
    BY <1>7, <2>3
  <2>5. \A j \in Busy(s) : low[j] = low[lv] => lv <= j
    <3> SUFFICES ASSUME NEW j \in Busy(s), low[j] = low[lv]
                 PROVE  j \in least
      BY <2>3
    <3> QED
      BY <1>7, <2>4
  <2>6. lv \in Nat /\ lv < Instances(par)
    <3>1. lv \in 0 .. Instances(par) - 1
      BY <1>1, <2>4
    <3> QED
      BY <1>1, <3>1
  <2> HIDE DEF least
  <2>7. Lowest(s, lv)
    <3> SUFFICES ASSUME NEW l \in L, l \notin TailsOf(s, lv)
                 PROVE  lv <= l
      BY DEF Lowest, L
    <3>1. PICK j \in Busy(s) : l \in TailsOf(s, j)
      BY DEF L, Levels
    <3>2. low[j] = m /\ m <= l /\ m \in Nat /\ l \in Nat /\ j # lv
      <4>1. TailsOf(s, j) # {}
        BY <3>1
      <4>2. l \in 0 .. TreeHeight
        BY <1>2 DEF Heights
      <4>3. low[j] = m /\ m <= l /\ m \in Nat
        BY <1>4, <1>5, <4>1
      <4> QED
        BY <3>1, <4>2, <4>3
    <3>3. CASE TailsOf(s, lv) = {}
      <4>1. low[lv] = lv /\ low[lv] <= low[j]
        BY <1>4, <2>4, <3>3
      <4> QED
        BY <2>6, <3>2, <4>1
    <3>4. CASE TailsOf(s, lv) # {}
      <4>1. low[lv] = m
        BY <1>4, <2>4, <3>4
      <4>2. lv <= j /\ j \in Nat
        BY <1>6, <2>5, <3>2, <4>1
      <4>3. lv < j
        BY <2>6, <3>2, <4>2
      <4> QED
        BY <2>4, <3>1, <3>4, <4>3 DEF At, Traversal, Apart
    <3> QED
      BY <3>3, <3>4
  <2>8. ASSUME NEW h \in Busy(s), h < lv
        PROVE  \E l \in TailsOf(s, lv) : l < h
    <3>1. low[lv] <= low[h] /\ low[h] # low[lv] /\ low[h] <= h /\ low[h] \in Nat /\ h \in Nat
          /\ low[lv] \in Nat
      <4>1. low[h] <= h /\ low[h] \in Nat /\ h \in Nat /\ low[lv] \in Nat
        BY <1>6, <2>4
      <4>2. ~ lv <= h
        BY <2>6, <2>8, <4>1
      <4> QED
        BY <2>4, <2>5, <4>1, <4>2
    <3>2. TailsOf(s, lv) # {}
      <4> SUFFICES ASSUME TailsOf(s, lv) = {}
                   PROVE  FALSE
        OBVIOUS
      <4>1. low[lv] = lv
        BY <1>4, <2>4
      <4> QED
        BY <2>6, <2>8, <3>1, <4>1
    <3>3. low[lv] = m /\ m \in L
      BY <1>4, <1>5, <2>4, <3>2
    <3>4. m < h /\ m \in Nat
      BY <3>1, <3>3
    <3>5. m \in TailsOf(s, lv) \/ lv <= m
      BY <2>7, <3>3 DEF Lowest, L
    <3>6. ~ lv <= m
      BY <2>6, <2>8, <3>1, <3>4
    <3> QED
      BY <3>4, <3>5, <3>6
  <2>9. Ready(par, s, t, lv)
    BY <2>4, <2>7 DEF Ready, At
  <2>10. lv # Instances(par)
    BY <1>1, <2>6
  <2> QED
    BY <1>9, <2>6, <2>8, <2>9, <2>10
<1> QED
  BY <1>8, <1>9

-----------------------------------------------------------------------------

(***************************************************************************)
(* The schedule: for each instance h at work, the load is at most what the *)
(* updates until h is needed come to.  Until the path moves on at height h *)
(* there are Left rounds, of as many updates as there are pairs of         *)
(* instances; used of them have been spent at this index.                  *)
(***************************************************************************)
Spare(par, h) == 2 * Shr(Instances(par), 1) - h - 1
Left(t, h) == 2^(h + 1) - Low(t, h + 1)
Sched(par, s, t, used) ==
  \A h \in Busy(s) : Load(par, s, t, h) <= Spare(par, h) * Left(t, h) - 2 * used

\* Loads are numbers.
LEMMA LoadInt ==
  ASSUME NEW par, NEW s, NEW t, At(par, s, t), NEW h \in DOMAIN s.treehash
  PROVE  Load(par, s, t, h) \in Int
<1> DEFINE m == Instances(par)
           f == Terms(s, t, h)
           b == [i \in 0 .. m |-> 0]
<1>1. m \in Nat /\ DOMAIN s.treehash = 0 .. m - 1
  BY InstancesNat DEF At, Shape, HasInstances
<1>2. \A i \in 0 .. m - 1 : f[i] \in Int
  <2>1. \A i \in 0 .. m - 1 : Term(s, t, h, i) \in Int
    BY <1>1, TermIs
  <2> QED
    BY <1>1, <2>1 DEF Terms
<1>3. \A i \in 0 .. m : b[i] = 0
  OBVIOUS
<1> HIDE DEF f, b, m
<1>4. \A i \in 0 .. m - 1 : i \in 0 .. m /\ i + 1 \in 0 .. m
  BY <1>1
<1>5. Grows(f, f, b, m)
  BY <1>2, <1>3, <1>4 DEF Grows
<1>6. Sum(f, m) \in Int
  BY <1>1, <1>5, SumLe
<1> QED
  BY <1>6 DEF Load, f, m

\* And so are the factors of their bounds.
LEMMA LeftIs ==
  ASSUME NEW par, NEW s, NEW t, At(par, s, t), NEW h \in DOMAIN s.treehash
  PROVE  /\ Spare(par, h) \in Int /\ Left(t, h) \in Nat /\ Left(t, h) > 0
         /\ Spare(par, h) * Left(t, h) \in Int
<1>1. TreeHeight \in Nat /\ t \in Nat /\ h \in 0 .. TreeHeight - 1
      /\ Instances(par) \in 0 .. TreeHeight
  BY Powers, TailsAre, InstancesNat DEF At, Shape
<1>2. h + 1 \in 0 .. TreeHeight + 1 /\ 1 \in 0 .. TreeHeight + 1 /\ Instances(par) \in Nat
  BY <1>1
<1>3. Shr(Instances(par), 1) \in Nat
  BY <1>2, Parts
<1>4. Low(t, h + 1) \in 0 .. 2^(h + 1) - 1 /\ 2^(h + 1) \in Nat
  BY <1>1, <1>2, Parts
<1>5. Spare(par, h) \in Int
  BY <1>1, <1>3 DEF Spare
<1>6. Left(t, h) \in Nat /\ Left(t, h) > 0
  BY <1>4 DEF Left
<1> HIDE DEF Spare, Left
<1> QED
  BY <1>5, <1>6

\* The loop of bds_treehash_update, called with p: params, the state, the index.
SpendTurn(p, w, i) ==
  IF NeediestInstance(p[1], w.state) < Instances(p[1])
  THEN [state |-> treehash_update(p[1], w.state, NeediestInstance(p[1], w.state),
                                  RealSeed, TheTree),
        used  |-> w.used + 1]
  ELSE w

SpendInv(p, w, i) ==
  /\ {"state", "used"} \subseteq DOMAIN w
  /\ At(p[1], w.state, p[3]) /\ SamePath(p[2], w.state)
  /\ w.used \in Nat /\ (w.used = i \/ Busy(w.state) = {})
  /\ Sched(p[1], w.state, p[3], w.used)

Spending == INSTANCE LoopRules WITH Body <- SpendTurn, Inv <- SpendInv

\* bds_treehash_update is that loop.
LEMMA SpendingIs ==
  ASSUME NEW par, Sized(par), NEW s, NEW t, NEW n
  PROVE  bds_treehash_update(par, s, n, RealSeed, TheTree).state =
           Spending!TheFor(<<par, s, t>>, Min({n, 2^TreeHeight}),
                           [state |-> s, used |-> 0]).state
<1> DEFINE p == <<par, s, t>>
<1>1. p[1] = par /\ p[2] = s /\ par.tree_height = TreeHeight
  BY DEF Sized
<1> HIDE DEF p
<1>2. bds_treehash_update(p[1], p[2], n, RealSeed, TheTree).state =
        Spending!TheFor(p, Min({n, 2^p[1].tree_height}), [state |-> p[2], used |-> 0]).state
  BY DEF bds_treehash_update, SpendTurn, While, For, Spending!TheFor, Spending!For
<1> QED
  BY <1>1, <1>2 DEF p

\* One update.
LEMMA SpendKeeps ==
  ASSUME NEW par, NEW s, NEW t, NEW p, p[1] = par, p[2] = s, p[3] = t,
         NEW w, NEW i \in Nat, SpendInv(p, w, i)
  PROVE  SpendInv(p, SpendTurn(p, w, i), i + 1)
<1> DEFINE y == w.state
           lv == NeediestInstance(par, y)
           u == treehash_update(par, y, lv, RealSeed, TheTree)
           v == [state |-> u, used |-> w.used + 1]
<1>1. /\ At(par, y, t) /\ SamePath(s, y) /\ w.used \in Nat /\ (w.used = i \/ Busy(y) = {})
      /\ Sched(par, y, t, w.used)
  BY DEF SpendInv
<1>2. /\ lv < Instances(par) <=> Busy(y) # {}
      /\ Busy(y) # {} =>
           /\ Ready(par, y, t, lv)
           /\ \A h \in Busy(y) : h < lv => \E l \in TailsOf(y, lv) : l < h
  <2> HIDE DEF y
  <2> QED
    BY <1>1, NeediestIs
<1>3. CASE Busy(y) = {}
  <2>1. SpendTurn(p, w, i) = w
    BY <1>2, <1>3 DEF SpendTurn
  <2> QED
    BY <1>3, <2>1 DEF SpendInv
<1>4. CASE Busy(y) # {}
  <2>1. SpendTurn(p, w, i) = v
    BY <1>2, <1>4 DEF SpendTurn
  <2>2. v.state = u /\ v.used = w.used + 1 /\ {"state", "used"} \subseteq DOMAIN v
    OBVIOUS
  <2>3. Ready(par, y, t, lv)
        /\ \A h \in Busy(y) : h < lv => \E l \in TailsOf(y, lv) : l < h
    BY <1>2, <1>4
  <2> HIDE DEF y, lv
  <2>4. Shape(par, u) /\ Traversal(u, t) /\ SamePath(y, u) /\ Moved(y, u, lv)
    BY <2>3, Updated
  <2> HIDE DEF u, v
  <2>5. At(par, u, t)
    BY <1>1, <2>4 DEF At
  <2>6. SamePath(s, u)
    BY <1>1, <2>4 DEF SamePath
  <2>7. Sched(par, u, t, w.used + 1)
    <3> SUFFICES ASSUME NEW h \in Busy(u)
                 PROVE  Load(par, u, t, h) <= Spare(par, h) * Left(t, h) - 2 * (w.used + 1)
      BY DEF Sched
    <3>1. h \in Busy(y)
      <4>1. h \in DOMAIN u.treehash /\ DOMAIN u.treehash = DOMAIN y.treehash /\ lv \in Busy(y)
        BY <2>3, <2>4 DEF Busy, Moved, Ready
      <4>2. CASE h = lv
        BY <4>1, <4>2
      <4>3. CASE h # lv
        BY <2>4, <4>1, <4>3, OthersSame
      <4> QED
        BY <4>2, <4>3
    <3>2. h < lv => \E l \in TailsOf(y, lv) : l < h
      BY <2>3, <3>1
    <3>3. Load(par, u, t, h) + 2 <= Load(par, y, t, h)
      BY <1>1, <2>3, <2>4, <2>5, <3>2, UpdateLowers
    <3>4. Load(par, y, t, h) <= Spare(par, h) * Left(t, h) - 2 * w.used
      BY <1>1, <3>1 DEF Sched
    <3>5. Load(par, u, t, h) \in Int /\ Load(par, y, t, h) \in Int
      <4>1. h \in DOMAIN u.treehash /\ h \in DOMAIN y.treehash
        BY <3>1 DEF Busy
      <4> QED
        BY <1>1, <2>5, <4>1, LoadInt
    <3>6. Spare(par, h) * Left(t, h) \in Int
      <4>1. h \in DOMAIN y.treehash
        BY <3>1 DEF Busy
      <4> QED
        BY <1>1, <4>1, LeftIs
    <3> QED
      BY <1>1, <3>3, <3>4, <3>5, <3>6
  <2>8. w.used + 1 \in Nat /\ w.used + 1 = i + 1
    BY <1>1, <1>4
  <2> QED
    BY <2>1, <2>2, <2>5, <2>6, <2>7, <2>8 DEF SpendInv
<1> QED
  BY <1>3, <1>4

\* All updates of one signature.
LEMMA Spent ==
  ASSUME NEW par, NEW s, NEW t, At(par, s, t), Sched(par, s, t, 0),
         NEW n \in Nat, n <= 2^TreeHeight,
         NEW u, u = bds_treehash_update(par, s, n, RealSeed, TheTree).state
  PROVE  At(par, u, t) /\ SamePath(s, u) /\ Sched(par, u, t, n)
<1> DEFINE p == <<par, s, t>>
           start == [state |-> s, used |-> 0]
           w == Spending!TheFor(p, n, start)
<1>1. Min({n, 2^TreeHeight}) = n
  <2>1. 2^TreeHeight \in Nat
    BY LeavesNat
  <2> DEFINE S == {n, 2^TreeHeight}
  <2>2. S \subseteq Nat /\ n \in S
    BY <2>1
  <2>3. Min(S) \in S /\ \A q \in S : Min(S) <= q
    <3> HIDE DEF S
    <3> QED
      BY <2>2, MinIs
  <2>4. Min(S) <= n /\ (Min(S) = n \/ Min(S) = 2^TreeHeight)
    BY <2>2, <2>3
  <2> HIDE DEF S
  <2>5. Min(S) = n
    BY <2>1, <2>4
  <2> QED
    BY <2>5 DEF S
<1>2. u = w.state
  BY <1>1, SpendingIs DEF At
<1>3. p[1] = par /\ p[2] = s /\ p[3] = t
  OBVIOUS
<1>4. SpendInv(p, start, 0)
  BY <1>3 DEF SpendInv, SamePath
<1> HIDE DEF p, start
<1>5. ASSUME NEW v, NEW i \in 0 .. n - 1, SpendInv(p, v, i)
      PROVE  SpendInv(p, SpendTurn(p, v, i), i + 1)
  <2>1. i \in Nat
    OBVIOUS
  <2> QED
    BY <1>3, <1>5, <2>1, SpendKeeps
<1>6. SpendInv(p, w, n)
  BY <1>4, <1>5, Spending!ForRule
<1> HIDE DEF w
<1>7. At(par, u, t) /\ SamePath(s, u) /\ Sched(par, u, t, w.used) /\ (w.used = n \/ Busy(u) = {})
  BY <1>2, <1>3, <1>6 DEF SpendInv
<1>8. Sched(par, u, t, n)
  <2>1. CASE w.used = n
    BY <1>7, <2>1
  <2>2. CASE Busy(u) = {}
    BY <2>2 DEF Sched
  <2> QED
    BY <1>7, <2>1, <2>2
<1> QED
  BY <1>7, <1>8

-----------------------------------------------------------------------------

\* A number below the number of leaves has fewer bits.
LEMMA ShrBelow ==
  ASSUME NEW h \in 0 .. TreeHeight, NEW q \in Nat, NEW r \in Nat, r < 2^h
  PROVE  /\ 2^(TreeHeight - h) \in Nat \ {0} /\ 2^h \in Nat \ {0}
         /\ q * 2^h + r < 2^TreeHeight <=> q < 2^(TreeHeight - h)
<1>1. h \in Nat /\ TreeHeight - h \in Nat /\ TreeHeight - h \in 0 .. TreeHeight + 1
      /\ h \in 0 .. TreeHeight + 1 /\ (TreeHeight - h) + h = TreeHeight /\ TreeHeight \in Nat
  BY Powers
<1>2. 2^TreeHeight = 2^(TreeHeight - h) * 2^h
  <2>1. \A i \in 0 .. TreeHeight : 2^(i + 1) = 2 * 2^i
    BY Powers
  <2> DEFINE k == TreeHeight - h
  <2>2. k \in Nat /\ h \in Nat /\ k + h = TreeHeight /\ k + h <= TreeHeight + 1
    BY <1>1
  <2> HIDE DEF k
  <2>3. 2^(k + h) = 2^k * 2^h
    BY <1>1, <2>1, <2>2, Rules!PowSum
  <2> QED
    BY <2>2, <2>3 DEF k
<1> DEFINE a == 2^(TreeHeight - h)
           b == 2^h
<1>3. a \in Nat \ {0} /\ b \in Nat \ {0} /\ r < b /\ 2^TreeHeight = a * b
  BY <1>1, <1>2, Powers
<1> HIDE DEF a, b
<1>4. ASSUME q < a
      PROVE  q * b + r < a * b
  <2>1. (q + 1) * b <= a * b
    BY <1>3, <1>4
  <2> QED
    BY <1>3, <2>1
<1>5. ASSUME ~ q < a
      PROVE  ~ q * b + r < a * b
  <2>1. a * b <= q * b
    BY <1>3, <1>5
  <2> QED
    BY <1>3, <2>1
<1>6. q * b + r < 2^TreeHeight <=> q < a
  BY <1>3, <1>4, <1>5
<1> QED
  BY <1>3, <1>6 DEF a, b

\* The height at which the path moves on.
LEMMA TauIs ==
  ASSUME NEW par, Sized(par), NEW t \in Nat, t < LastIndex, NEW tau, tau = Tau(par, t)
  PROVE  tau \in 0 .. TreeHeight - 1 /\ Full(t, tau) /\ Bit(t, tau) = 0
<1> DEFINE S == {i \in 0 .. TreeHeight - 1 : Bit(t, i) = 0}
           M == {TreeHeight} \union S
<1>1. TreeHeight \in Nat /\ tau = Min(M) /\ M \subseteq Nat /\ M # {}
  <2>1. par.tree_height = TreeHeight /\ TreeHeight \in Nat
    BY Powers DEF Sized
  <2> QED
    BY <2>1 DEF Tau
<1>2. tau \in M /\ \A n \in M : tau <= n
  <2> HIDE DEF M
  <2> QED
    BY <1>1, MinIs
<1>3. S # {}
  <2> SUFFICES ASSUME S = {}
               PROVE  FALSE
    OBVIOUS
  <2>1. ASSUME NEW h \in 0 .. TreeHeight - 1
        PROVE  Bit(t, h) = 1
    <3>1. h \in 0 .. TreeHeight + 1
      BY <1>1
    <3>2. Bit(t, h) \in {0, 1}
      BY <3>1, Parts
    <3> QED
      BY <3>2
  <2>2. TreeHeight \in 0 .. TreeHeight + 1
    BY <1>1
  <2>3. Full(t, TreeHeight)
    BY <2>1, <2>2, AllBits
  <2> DEFINE q == Shr(t, TreeHeight)
             b == 2^TreeHeight
  <2>4. q \in Nat /\ b \in Nat \ {0} /\ t = q * b + (b - 1)
    BY <2>2, <2>3, Parts DEF Full
  <2>5. t < b - 1
    BY LeavesNat
  <2> HIDE DEF q, b
  <2>6. q * b \in Nat
    BY <2>4
  <2> QED
    BY <2>4, <2>5, <2>6
<1>4. tau \in S
  <2>1. PICK i \in S : TRUE
    BY <1>3
  <2>2. tau <= i /\ i < TreeHeight /\ i \in Nat
    BY <1>1, <1>2
  <2>3. tau # TreeHeight
    BY <1>1, <2>2
  <2> QED
    BY <1>2, <2>3
<1>5. \A h \in 0 .. tau - 1 : Bit(t, h) = 1
  <2> SUFFICES ASSUME NEW h \in 0 .. tau - 1
               PROVE  Bit(t, h) = 1
    OBVIOUS
  <2>1. h \in 0 .. TreeHeight - 1 /\ h \in 0 .. TreeHeight + 1 /\ ~ tau <= h
    BY <1>1, <1>4
  <2>2. Bit(t, h) # 0
    BY <1>2, <2>1
  <2>3. Bit(t, h) \in {0, 1}
    BY <2>1, Parts
  <2> QED
    BY <2>2, <2>3
<1>6. tau \in 0 .. TreeHeight + 1
  BY <1>1, <1>4
<1> QED
  BY <1>4, <1>5, <1>6, AllBits

\* The path moves on at height tau.
MovesAt(t, tau) ==
  t \in Nat /\ t < LastIndex /\ tau \in 0 .. TreeHeight - 1 /\ Full(t, tau) /\ Bit(t, tau) = 0

\* What the next index has in common with the one before.
LEMMA NextIndex ==
  ASSUME NEW t, NEW tau, MovesAt(t, tau)
  PROVE  /\ TreeHeight \in Nat /\ tau \in 0 .. TreeHeight
         /\ t + 1 \in Nat /\ t + 1 > 0 /\ t + 1 < 2^TreeHeight
         /\ Shr(t + 1, tau) = Shr(t, tau) + 1 /\ Bit(t + 1, tau) = 1
         /\ \A h \in 0 .. tau - 1 :
              /\ Full(t, h) /\ Full(t, h + 1) /\ Bit(t, h) = 1 /\ Bit(t + 1, h) = 0
              /\ Low(t + 1, h) = 0 /\ Low(t + 1, h + 1) = 0
              /\ Shr(t + 1, h) = Shr(t, h) + 1 /\ Shr(t + 1, h + 1) = Shr(t, h + 1) + 1
         /\ \A h \in tau + 1 .. TreeHeight + 1 :
              /\ Shr(t + 1, h) = Shr(t, h) /\ Low(t + 1, h) = Low(t, h) + 1
              /\ Bit(t + 1, h) = Bit(t, h)
<1>1. /\ TreeHeight \in Nat /\ tau \in 0 .. TreeHeight /\ tau \in 0 .. TreeHeight + 1
      /\ t \in Nat /\ Full(t, tau) /\ Bit(t, tau) = 0
  BY Powers DEF MovesAt
<1>2. t + 1 \in Nat /\ t + 1 > 0 /\ t + 1 < 2^TreeHeight
  BY <1>1, LeavesNat DEF MovesAt
<1>3. Shr(t + 1, tau) = Shr(t, tau) + 1 /\ Bit(t + 1, tau) = 1
  BY <1>1, FlipUp
<1>4. ASSUME NEW h \in 0 .. tau - 1
      PROVE  /\ Full(t, h) /\ Full(t, h + 1) /\ Bit(t, h) = 1 /\ Bit(t + 1, h) = 0
             /\ Low(t + 1, h) = 0 /\ Low(t + 1, h + 1) = 0
             /\ Shr(t + 1, h) = Shr(t, h) + 1 /\ Shr(t + 1, h + 1) = Shr(t, h + 1) + 1
  <2>1. h \in 0 .. tau /\ h + 1 \in 0 .. tau /\ h < tau /\ h \in 0 .. TreeHeight + 1
        /\ h + 1 \in 0 .. TreeHeight + 1
    BY <1>1
  <2>2. Full(t, h) /\ Full(t, h + 1) /\ Bit(t, h) = 1 /\ Bit(t + 1, h) = 0
    BY <1>1, <2>1, FullBits
  <2> QED
    BY <1>1, <2>1, <2>2, CountOn
<1>5. ASSUME NEW h \in tau + 1 .. TreeHeight + 1
      PROVE  /\ Shr(t + 1, h) = Shr(t, h) /\ Low(t + 1, h) = Low(t, h) + 1
             /\ Bit(t + 1, h) = Bit(t, h)
  <2>1. h \in 0 .. TreeHeight + 1
    BY <1>1
  <2>2. ~ Full(t, h)
    BY <1>1, NotFull
  <2> QED
    BY <1>1, <2>1, <2>2, CountOn
<1> QED
  BY <1>1, <1>2, <1>3, <1>4, <1>5

\* The number of updates after a signature.
Updates(par) == Shr(Instances(par), 1)

(***************************************************************************)
(* The instances needed now have finished: the load of one that had not    *)
(* would be greater than its bound.                                        *)
(***************************************************************************)
LEMMA IdleBelow ==
  ASSUME NEW par, NEW s, NEW t, At(par, s, t), NEW tau, MovesAt(t, tau),
         Sched(par, s, t, Updates(par))
  PROVE  \A h \in Busy(s) : tau <= h
<1> SUFFICES ASSUME NEW h \in Busy(s), ~ tau <= h
             PROVE  FALSE
  OBVIOUS
<1> DEFINE m == Instances(par)
           f == Terms(s, t, h)
           b == [i \in 0 .. m |-> IF i <= h THEN 0 - i ELSE 1 - h]
           n == Shr(m, 1)
<1>1. /\ m \in 0 .. TreeHeight /\ TreeHeight \in Nat
      /\ DOMAIN s.treehash = 0 .. m - 1 /\ h \in 0 .. m - 1 /\ h \in DOMAIN s.treehash
  BY InstancesNat, Powers DEF At, Shape, HasInstances, Busy
<1>2. /\ n \in Nat
      /\ Load(par, s, t, h) <= (2 * n - h - 1) * (2^(h + 1) - Low(t, h + 1)) - 2 * n
  <2>1. m \in Nat /\ 1 \in 0 .. TreeHeight + 1
    BY <1>1
  <2>2. n \in Nat
    BY <2>1, Parts
  <2> QED
    BY <2>2 DEF Sched, Updates, Spare, Left
<1> HIDE DEF m, n
<1>3. h \in 0 .. tau - 1 /\ tau \in 0 .. TreeHeight - 1
  BY <1>1 DEF MovesAt
<1>4. 2^(h + 1) - Low(t, h + 1) = 1
  <2>1. Low(t, h + 1) = 2^(h + 1) - 1 /\ 2^(h + 1) \in Nat
    <3>1. h + 1 \in 0 .. TreeHeight + 1
      BY <1>1
    <3>2. Full(t, h + 1)
      BY <1>3, NextIndex
    <3> QED
      BY <3>1, <3>2, Powers DEF Full
  <2> QED
    BY <2>1
<1>5. Load(par, s, t, h) <= - h - 1
  <2>1. Load(par, s, t, h) \in Int
    BY <1>1, LoadInt
  <2>2. (2 * n - h - 1) * (2^(h + 1) - Low(t, h + 1)) = 2 * n - h - 1
    BY <1>1, <1>2, <1>4
  <2> QED
    BY <1>1, <1>2, <2>1, <2>2
<1>6. ASSUME NEW i \in 0 .. m - 1
      PROVE  /\ f[i] \in Int
             /\ i < h => f[i] >= -1
             /\ i = h => f[i] >= 1
             /\ i > h => f[i] >= 0
  <2>1. i \in DOMAIN s.treehash /\ h \in DOMAIN s.treehash
    BY <1>1
  <2>2. f[i] = Term(s, t, h, i)
    BY <2>1 DEF Terms
  <2> HIDE DEF f
  <2>3. /\ Term(s, t, h, i) \in Int
        /\ i <= h => Term(s, t, h, i) = Low(t, i + 1) - 2 * Done(s, i)
        /\ i > h /\ i \notin Busy(s) => Term(s, t, h, i) = 0
        /\ i > h /\ i \in Busy(s) =>
             Term(s, t, h, i) = 2 * Gap(s.treehash[i].next_idx, h)
        /\ 2^i \in Nat \ {0} /\ 2^(i + 1) = 2 * 2^i
    BY <2>1, TermIs
  <2>4. /\ i \in Busy(s) => s.treehash[i].next_idx \in Nat /\ Done(s, i) \in 0 .. 2^i - 1
        /\ i \notin Busy(s) => Done(s, i) = 2^i
    BY <2>1, TermIs
  <2>5. CASE i <= h
    <3>1. i \in 0 .. tau - 1
      BY <1>1, <1>3, <2>5
    <3>2. Low(t, i + 1) = 2^(i + 1) - 1
      BY <3>1, NextIndex DEF Full
    <3>3. CASE i \in Busy(s)
      <4>1. Term(s, t, h, i) >= 1
        BY <2>3, <2>4, <2>5, <3>2, <3>3
      <4> QED
        BY <1>1, <2>2, <2>3, <2>5, <4>1
    <3>4. CASE i \notin Busy(s)
      <4>1. Term(s, t, h, i) = -1
        BY <2>3, <2>4, <2>5, <3>2, <3>4
      <4>2. i # h
        BY <3>4
      <4> QED
        BY <1>1, <2>2, <2>5, <4>1, <4>2
    <3> QED
      BY <3>3, <3>4
  <2>6. CASE i > h
    <3>1. CASE i \in Busy(s)
      <4>1. h \in 0 .. TreeHeight
        BY <1>1
      <4>2. Gap(s.treehash[i].next_idx, h) \in Nat
        BY <2>4, <3>1, <4>1, GapIs
      <4> QED
        BY <1>1, <2>2, <2>3, <2>6, <3>1, <4>2
    <3>2. CASE i \notin Busy(s)
      BY <1>1, <2>2, <2>3, <2>6, <3>2
    <3> QED
      BY <3>1, <3>2
  <2>7. i <= h \/ i > h
    BY <1>1
  <2> QED
    BY <2>5, <2>6, <2>7
<1>7. b[0] = 0 /\ b[m] = 1 - h /\ \A i \in 0 .. m : b[i] \in Int
  <2>1. 0 \in 0 .. m /\ m \in 0 .. m /\ h \in Int /\ ~ m <= h /\ 0 <= h /\ 0 - 0 = 0
    BY <1>1
  <2>2. b[0] = 0
    BY <2>1
  <2>3. b[m] = 1 - h
    BY <2>1
  <2>4. \A i \in 0 .. m : b[i] \in Int
    BY <2>1
  <2> QED
    BY <2>2, <2>3, <2>4
<1>8. \A i \in 0 .. m - 1 : /\ i < h => b[i] = 0 - i /\ b[i + 1] = 0 - (i + 1)
                            /\ i = h => b[i] = 0 - h /\ b[i + 1] = 1 - h
                            /\ i > h => b[i] = 1 - h /\ b[i + 1] = 1 - h
  BY <1>1
<1> HIDE DEF f, b
<1> DEFINE c == [i \in 0 .. m |-> - b[i]]
           z == Zeros(m)
<1>9. ASSUME NEW i \in 0 .. m - 1
      PROVE  b[i + 1] <= f[i] + b[i]
  BY <1>1, <1>6, <1>8, SMTT(30)
<1>10. m \in Nat /\ \A i \in 0 .. m - 1 : z[i] = 0 /\ c[i] = - b[i] /\ c[i + 1] = - b[i + 1]
       /\ i \in 0 .. m /\ i + 1 \in 0 .. m
  BY <1>1 DEF Zeros
<1>11. \A i \in 0 .. m : c[i] \in Int
  BY <1>7
<1>12. c[0] = 0 /\ c[m] = h - 1
  BY <1>1, <1>7
<1> HIDE DEF c, z
<1>13. Grows(f, z, c, m)
  <2> SUFFICES ASSUME NEW i \in 0 .. m - 1
               PROVE  f[i] \in Int /\ z[i] \in Int /\ z[i] + c[i] <= f[i] + c[i + 1]
    BY <1>11 DEF Grows
  <2>1. b[i] \in Int /\ b[i + 1] \in Int /\ f[i] \in Int /\ b[i + 1] <= f[i] + b[i]
    BY <1>6, <1>7, <1>9, <1>10
  <2>2. z[i] = 0 /\ c[i] = - b[i] /\ c[i + 1] = - b[i + 1]
    BY <1>10
  <2> QED
    BY <2>1, <2>2
<1>14. Sum(f, m) \in Int /\ Sum(z, m) + c[0] <= Sum(f, m) + c[m]
  BY <1>10, <1>13, SumLe
<1>15. Sum(z, m) = 0
  BY <1>10, SumZeros DEF z
<1>16. Load(par, s, t, h) = Sum(f, m)
  BY DEF Load, f, m
<1> QED
  BY <1>1, <1>5, <1>12, <1>14, <1>15, <1>16

-----------------------------------------------------------------------------

\* The first leaf of the right node after the next one.
Start(t, i) == t + 1 + 3 * 2^i

\* The instances below tau start again, unless there is no such leaf.
Again(t, tau, i) == i < tau /\ Start(t, i) < 2^TreeHeight
Restarts(s, t, tau, v) ==
  /\ DOMAIN v.treehash = DOMAIN s.treehash
  /\ \A i \in DOMAIN s.treehash :
       /\ Again(t, tau, i) => v.treehash[i] = [s.treehash[i] EXCEPT !.h = i, !.next_idx = Start(t, i),
                                                            !.completed = 0, !.stackusage = 0]
       /\ ~ Again(t, tau, i) => v.treehash[i] = s.treehash[i]

\* The stack is not touched, nor what is kept for the highest levels.
SameStack(s, v) ==
  /\ v.stack = s.stack /\ v.stacklevels = s.stacklevels /\ v.stackoffset = s.stackoffset
  /\ v.retain = s.retain

\* What bds_round changes.
LEMMA RoundIs ==
  ASSUME NEW par, NEW s, NEW t, At(par, s, t), NEW tau, MovesAt(t, tau), tau = Tau(par, t),
         NEW v, v = bds_round(par, s, t, RealSeed, TheTree)
  PROVE  /\ SameStack(s, v) /\ Restarts(s, t, tau, v) /\ HasFields(v)
         /\ v.keep = IF Bit(t, tau + 1) = 0 /\ tau < TreeHeight - 1
                     THEN Put(s.keep, tau \div 2, s.auth[tau]) ELSE s.keep
         /\ tau = 0 => v.auth = Put(s.auth, 0, gen_leaf_wots(RealSeed, TheTree, t))
         /\ tau # 0 => v.auth = NextPath(par, s, t, tau, RealSeed, TheTree)
<1> DEFINE kept == IF Bit(t, tau + 1) = 0 /\ tau < TreeHeight - 1
                   THEN Put(s.keep, tau \div 2, s.auth[tau]) ELSE s.keep
           leaf == gen_leaf_wots(RealSeed, TheTree, t)
           path == NextPath(par, s, t, tau, RealSeed, TheTree)
           again == Restarted(par, s.treehash, t, tau)
<1>1. par.tree_height = TreeHeight /\ HasFields(s) /\ TreeHeight \in Nat /\ tau \in 0 .. TreeHeight - 1
      /\ DOMAIN s.treehash = 0 .. Instances(par) - 1 /\ Instances(par) \in 0 .. TreeHeight
  BY Powers, InstancesNat DEF At, Sized, Shape, HasInstances, MovesAt
<1>2. v = IF tau = 0
          THEN [s EXCEPT !.keep = kept, !.auth = Put(@, 0, leaf)]
          ELSE [s EXCEPT !.keep = kept, !.auth = path, !.treehash = again]
  BY <1>1 DEF bds_round
<1>3. /\ DOMAIN again = DOMAIN s.treehash
      /\ \A i \in DOMAIN s.treehash :
           /\ Again(t, tau, i) => again[i] = [s.treehash[i] EXCEPT !.h = i, !.next_idx = Start(t, i),
                                                            !.completed = 0, !.stackusage = 0]
           /\ ~ Again(t, tau, i) => again[i] = s.treehash[i]
  BY <1>1 DEF Restarted, Again, Start
<1> HIDE DEF kept, leaf, path, again
<1>4. CASE tau = 0
  <2>1. /\ v.keep = kept /\ v.auth = Put(s.auth, 0, leaf) /\ v.treehash = s.treehash
        /\ SameStack(s, v) /\ DOMAIN v = DOMAIN s
    BY <1>1, <1>2, <1>4 DEF HasFields, SameStack
  <2>2. \A i \in DOMAIN s.treehash : ~ Again(t, tau, i)
    BY <1>1, <1>4 DEF Again
  <2>3. Restarts(s, t, tau, v)
    BY <2>1, <2>2 DEF Restarts
  <2> QED
    BY <1>1, <1>4, <2>1, <2>3 DEF HasFields, kept, leaf
<1>5. CASE tau # 0
  <2>1. /\ v.keep = kept /\ v.auth = path /\ v.treehash = again
        /\ SameStack(s, v) /\ DOMAIN v = DOMAIN s
    BY <1>1, <1>2, <1>5 DEF HasFields, SameStack
  <2>2. Restarts(s, t, tau, v)
    BY <1>3, <2>1 DEF Restarts
  <2> QED
    BY <1>1, <1>5, <2>1, <2>2 DEF HasFields, kept, path
<1> QED
  BY <1>4, <1>5

\* An instance that starts again.
LEMMA StartIs ==
  ASSUME NEW t, NEW tau, MovesAt(t, tau), NEW i \in 0 .. tau - 1
  PROVE  /\ Start(t, i) \in Nat /\ Shr(Start(t, i), i) = Wanted(t + 1, i) /\ Low(Start(t, i), i) = 0
         /\ Wanted(t + 1, i) \in Nat /\ Shr(t + 1, i + 1) > 0
         /\ Start(t, i) < 2^TreeHeight <=> Wanted(t + 1, i) < 2^(TreeHeight - i)
         /\ Wanted(t, i) = Shr(t, i) + 2 /\ Wanted(t, i) = Shr(t + 1, i) + 1
         /\ Wanted(t, i) = Sibling(Shr(t + 1, i)) /\ Wanted(t, i) < 2^(TreeHeight - i)
<1> DEFINE T == t + 1
           a == Shr(T, i)
           c == Shr(T, i + 1)
           b == 2^i
           d == Shr(t, i + 1)
<1>1. /\ TreeHeight \in Nat /\ T \in Nat /\ T > 0 /\ T < 2^TreeHeight /\ t \in Nat
      /\ i \in 0 .. TreeHeight /\ i \in 0 .. TreeHeight + 1 /\ i + 1 \in 0 .. TreeHeight + 1
      /\ i + 1 \in 0 .. TreeHeight /\ i \in Nat
  <2>1. tau \in 0 .. TreeHeight - 1 /\ t \in Nat
    BY DEF MovesAt
  <2>2. TreeHeight \in Nat /\ T \in Nat /\ T > 0 /\ T < 2^TreeHeight
    BY NextIndex
  <2> QED
    BY <2>1, <2>2
<1>2. /\ Low(T, i) = 0 /\ Low(T, i + 1) = 0 /\ Bit(t, i) = 1 /\ Bit(T, i) = 0
      /\ a = Shr(t, i) + 1 /\ c = d + 1
  BY NextIndex
<1>3. a \in Nat /\ b \in Nat \ {0} /\ T = a * b /\ c \in Nat /\ T = c * 2^(i + 1) /\ d \in Nat
      /\ 2^(i + 1) \in Nat \ {0}
  <2>1. a \in Nat /\ b \in Nat \ {0} /\ T = a * b + Low(T, i)
    BY <1>1, Parts
  <2>2. c \in Nat /\ 2^(i + 1) \in Nat \ {0} /\ T = c * 2^(i + 1) + Low(T, i + 1)
    BY <1>1, Parts
  <2>3. d \in Nat
    BY <1>1, Parts
  <2> HIDE DEF a, b, c, d, T
  <2>4. a * b \in Nat /\ c * 2^(i + 1) \in Nat
    BY <2>1, <2>2
  <2> QED
    BY <1>2, <2>1, <2>2, <2>3, <2>4
<1>4. a = 2 * c /\ Shr(t, i) = 2 * d + 1
  <2>1. a = 2 * c + Bit(T, i) /\ Shr(t, i) = 2 * d + Bit(t, i)
    BY <1>1, PartsUp
  <2> HIDE DEF a, c, d, T
  <2> QED
    BY <1>2, <1>3, <2>1
<1>5. c > 0
  <2> HIDE DEF a, b, c, d, T
  <2>1. c = 0 => c * 2^(i + 1) = 0
    BY <1>3
  <2> QED
    BY <1>1, <1>3, <2>1
<1>6. Wanted(T, i) = a + 3 /\ Wanted(t, i) = a + 1 /\ Wanted(t, i) = Shr(t, i) + 2
  <2>1. Wanted(T, i) = 2 * c + 3 /\ Wanted(t, i) = 2 * d + 3
    BY DEF Wanted
  <2> HIDE DEF a, b, c, d, T
  <2> QED
    BY <1>2, <1>3, <1>4, <2>1
<1>7. Start(t, i) = (a + 3) * b + 0
  <2>1. Start(t, i) = T + 3 * b
    BY DEF Start
  <2> HIDE DEF a, b, c, d, T
  <2> QED
    BY <1>3, <2>1
<1>8. Shr(Start(t, i), i) = a + 3 /\ Low(Start(t, i), i) = 0
      /\ (Start(t, i) < 2^TreeHeight <=> a + 3 < 2^(TreeHeight - i)) /\ Start(t, i) \in Nat
  <2> DEFINE q == a + 3
  <2>1. q \in Nat /\ 0 \in Nat /\ 0 < 2^i /\ Start(t, i) = q * 2^i + 0 /\ 2^i \in Nat
    BY <1>3, <1>7
  <2> HIDE DEF q
  <2>2. Shr(q * 2^i + 0, i) = q /\ Low(q * 2^i + 0, i) = 0
    BY <1>1, <2>1, PartsUnique
  <2>3. q * 2^i + 0 < 2^TreeHeight <=> q < 2^(TreeHeight - i)
    BY <1>1, <2>1, ShrBelow
  <2>4. q * 2^i + 0 \in Nat
    BY <2>1
  <2> QED
    BY <2>1, <2>2, <2>3, <2>4 DEF q
<1>9. Wanted(t, i) = Sibling(a)
  <2>1. a % 2 = 0
    <3> HIDE DEF a, c
    <3> QED
      BY <1>3, <1>4
  <2> HIDE DEF a
  <2> QED
    BY <1>6, <2>1 DEF Sibling
<1>10. Wanted(t, i) < 2^(TreeHeight - i)
  <2> DEFINE k == i + 1
             n == TreeHeight - k
  <2>1. k \in 0 .. TreeHeight /\ T = c * 2^k + 0 /\ 0 \in Nat /\ 0 < 2^k /\ T < 2^TreeHeight
    <3> HIDE DEF c, T
    <3> QED
      BY <1>1, <1>3
  <2> HIDE DEF k
  <2>2. 2^n \in Nat \ {0} /\ (c * 2^k + 0 < 2^TreeHeight <=> c < 2^n)
    <3> HIDE DEF c
    <3> QED
      BY <1>3, <2>1, ShrBelow
  <2>3. n \in 0 .. TreeHeight /\ n + 1 = TreeHeight - i
    BY <1>1 DEF k
  <2> HIDE DEF n
  <2>4. 2^(n + 1) = 2 * 2^n
    BY <2>3, Powers
  <2>5. a + 1 < 2^(n + 1)
    <3> HIDE DEF a, c, T
    <3> QED
      BY <1>3, <1>4, <2>1, <2>2, <2>4
  <2> QED
    BY <1>6, <2>3, <2>5
<1> HIDE DEF a, b, c, d, T
<1>11. a + 3 \in Nat
  BY <1>3
<1> QED
  BY <1>5, <1>6, <1>8, <1>9, <1>10, <1>11 DEF a, c, T

\* The instances at work are not below tau.
Idle(s, tau) == \A h \in Busy(s) : tau <= h

\* The instances after bds_round: those that start again, and the others.
LEMMA RestartsAre ==
  ASSUME NEW par, NEW s, NEW t, At(par, s, t), NEW tau, MovesAt(t, tau), Idle(s, tau),
         NEW v, Restarts(s, t, tau, v)
  PROVE  /\ HasInstances(par, v) /\ DOMAIN v.treehash = DOMAIN s.treehash
         /\ \A i \in DOMAIN s.treehash :
              /\ Again(t, tau, i) =>
                   /\ i \in 0 .. tau - 1 /\ i \in Busy(v) /\ i \notin Busy(s)
                   /\ v.treehash[i].h = i /\ v.treehash[i].next_idx = Start(t, i)
                   /\ v.treehash[i].completed = 0
                   /\ v.treehash[i].stackusage = 0 /\ TailsOf(v, i) = {}
              /\ ~ Again(t, tau, i) =>
                   /\ v.treehash[i] = s.treehash[i] /\ TailsOf(v, i) = TailsOf(s, i)
                   /\ i \in Busy(v) <=> i \in Busy(s)
<1>1. /\ DOMAIN v.treehash = DOMAIN s.treehash /\ HasInstances(par, s)
      /\ TreeHeight \in Nat /\ tau \in 0 .. TreeHeight - 1
      /\ \A i \in DOMAIN s.treehash : i \in 0 .. TreeHeight - 1
  BY Powers, TailsAre DEF Restarts, At, Shape, MovesAt
<1>2. ASSUME NEW i \in DOMAIN s.treehash, Again(t, tau, i)
      PROVE  /\ i \in 0 .. tau - 1 /\ i \in Busy(v) /\ i \notin Busy(s)
             /\ v.treehash[i].h = i /\ v.treehash[i].next_idx = Start(t, i)
             /\ v.treehash[i].completed = 0
             /\ v.treehash[i].stackusage = 0 /\ TailsOf(v, i) = {}
             /\ DOMAIN v.treehash[i] = DOMAIN s.treehash[i]
  <2>1. i < tau /\ i \in 0 .. tau - 1
    BY <1>1, <1>2 DEF Again
  <2>2. {"h", "next_idx", "stackusage", "completed", "node"} \subseteq DOMAIN s.treehash[i]
    BY <1>1 DEF HasInstances
  <2>3. v.treehash[i] = [s.treehash[i] EXCEPT !.h = i, !.next_idx = Start(t, i),
                                              !.completed = 0, !.stackusage = 0]
    BY <1>2 DEF Restarts
  <2>4. /\ v.treehash[i].h = i /\ v.treehash[i].next_idx = Start(t, i)
        /\ v.treehash[i].completed = 0 /\ v.treehash[i].stackusage = 0
        /\ DOMAIN v.treehash[i] = DOMAIN s.treehash[i]
    BY <2>2, <2>3
  <2>5. i \in Busy(v)
    BY <1>1, <2>4 DEF Busy
  <2>6. i \notin Busy(s)
    <3>1. ~ tau <= i
      BY <1>1, <2>1
    <3> QED
      BY <3>1 DEF Idle
  <2>7. TailsOf(v, i) = {}
    <3> SUFFICES ASSUME NEW l \in TailsOf(v, i)
                 PROVE  FALSE
      OBVIOUS
    <3> DEFINE x == Start(t, i)
    <3>1. x \in Nat /\ Low(x, i) = 0
      BY <2>1, StartIs
    <3>2. l \in 0 .. i - 1 /\ Bit(x, l) = 1
      BY <2>4 DEF TailsOf, Tails
    <3> HIDE DEF x
    <3>3. i \in 0 .. TreeHeight + 1 /\ l \in 0 .. i /\ l < i
      BY <1>1, <3>2
    <3>4. Bit(x, l) = 0
      BY <3>1, <3>3, LowZero
    <3> QED
      BY <3>2, <3>4
  <2> QED
    BY <2>1, <2>4, <2>5, <2>6, <2>7
<1>3. ASSUME NEW i \in DOMAIN s.treehash, ~ Again(t, tau, i)
      PROVE  /\ v.treehash[i] = s.treehash[i] /\ TailsOf(v, i) = TailsOf(s, i)
             /\ i \in Busy(v) <=> i \in Busy(s)
  <2>1. v.treehash[i] = s.treehash[i]
    BY <1>3 DEF Restarts
  <2> QED
    BY <1>1, <2>1 DEF TailsOf, Busy
<1>4. HasInstances(par, v)
  <2>1. ASSUME NEW i \in DOMAIN s.treehash
        PROVE  {"h", "next_idx", "stackusage", "completed", "node"} \subseteq DOMAIN v.treehash[i]
    <3>1. {"h", "next_idx", "stackusage", "completed", "node"} \subseteq DOMAIN s.treehash[i]
      BY <1>1 DEF HasInstances
    <3>2. DOMAIN v.treehash[i] = DOMAIN s.treehash[i]
      <4>1. CASE Again(t, tau, i)
        BY <1>2, <4>1
      <4>2. CASE ~ Again(t, tau, i)
        <5>1. v.treehash[i] = s.treehash[i]
          BY <1>3, <4>2
        <5> QED
          BY <5>1
      <4> QED
        BY <4>1, <4>2
    <3> QED
      BY <3>1, <3>2
  <2> QED
    BY <1>1, <2>1 DEF HasInstances
<1> QED
  BY <1>1, <1>2, <1>3, <1>4

\* The traversal at the next index.
LEMMA RoundTraversal ==
  ASSUME NEW par, NEW s, NEW t, At(par, s, t), NEW tau, MovesAt(t, tau), Idle(s, tau),
         NEW v, Restarts(s, t, tau, v), SameStack(s, v)
  PROVE  Traversal(v, t + 1)
<1>1. /\ DOMAIN v.treehash = DOMAIN s.treehash
      /\ \A i \in DOMAIN s.treehash :
           /\ Again(t, tau, i) =>
                /\ i \in 0 .. tau - 1 /\ i \in Busy(v) /\ i \notin Busy(s)
                /\ v.treehash[i].h = i /\ v.treehash[i].next_idx = Start(t, i)
                /\ v.treehash[i].completed = 0
                /\ v.treehash[i].stackusage = 0 /\ TailsOf(v, i) = {}
           /\ ~ Again(t, tau, i) =>
                /\ v.treehash[i] = s.treehash[i] /\ TailsOf(v, i) = TailsOf(s, i)
                /\ i \in Busy(v) <=> i \in Busy(s)
  BY RestartsAre
<1>2. /\ OnStack(s.stacklevels, s.stackoffset, Levels(s)) /\ TailNodes(s) /\ Apart(s)
      /\ \A j \in DOMAIN s.treehash : InstanceAt(s, t, j)
      /\ v.stack = s.stack /\ v.stacklevels = s.stacklevels /\ v.stackoffset = s.stackoffset
  BY DEF At, Traversal, SameStack
<1>3. /\ Busy(s) \subseteq DOMAIN s.treehash /\ Busy(v) \subseteq DOMAIN s.treehash
      /\ TreeHeight \in Nat /\ tau \in 0 .. TreeHeight - 1 /\ t \in Nat
      /\ \A i \in DOMAIN s.treehash : i \in 0 .. TreeHeight - 1
  BY <1>1, Powers, TailsAre DEF Busy, At, Shape, MovesAt
<1>4. \A j \in Busy(v) : TailsOf(v, j) # {} =>
        j \in Busy(s) /\ v.treehash[j] = s.treehash[j] /\ TailsOf(v, j) = TailsOf(s, j)
  BY <1>1, <1>3
<1>5. \A j \in Busy(s) : TailsOf(s, j) # {} =>
        j \in Busy(v) /\ v.treehash[j] = s.treehash[j] /\ TailsOf(v, j) = TailsOf(s, j)
  BY <1>1, <1>3
<1>6. Levels(v) = Levels(s)
  <2>1. ASSUME NEW l \in Levels(v)
        PROVE  l \in Levels(s)
    <3>1. PICK j \in Busy(v) : l \in TailsOf(v, j)
      BY DEF Levels
    <3>2. j \in Busy(s) /\ l \in TailsOf(s, j)
      BY <1>4, <3>1
    <3> QED
      BY <3>2 DEF Levels
  <2>2. ASSUME NEW l \in Levels(s)
        PROVE  l \in Levels(v)
    <3>1. PICK j \in Busy(s) : l \in TailsOf(s, j)
      BY DEF Levels
    <3>2. j \in Busy(v) /\ l \in TailsOf(v, j)
      BY <1>5, <3>1
    <3> QED
      BY <3>2 DEF Levels
  <2> QED
    BY <2>1, <2>2
<1>7. TailNodes(v)
  <2> SUFFICES ASSUME NEW j \in Busy(v), NEW l \in TailsOf(v, j)
               PROVE  v.stack[Rank(Levels(v), l)] =
                        NodeAt(l, Shr(v.treehash[j].next_idx, l) - 1)
    BY DEF TailNodes
  <2>1. j \in Busy(s) /\ v.treehash[j] = s.treehash[j] /\ l \in TailsOf(s, j)
    BY <1>4
  <2> QED
    BY <1>2, <1>6, <2>1 DEF TailNodes
<1>8. Apart(v)
  <2> SUFFICES ASSUME NEW j \in Busy(v), NEW i \in Busy(v), j < i, TailsOf(v, j) # {},
                      NEW l \in TailsOf(v, i)
               PROVE  j <= l
    BY DEF Apart
  <2>1. /\ j \in Busy(s) /\ TailsOf(v, j) = TailsOf(s, j)
        /\ i \in Busy(s) /\ TailsOf(v, i) = TailsOf(s, i)
    BY <1>4
  <2> QED
    BY <1>2, <2>1 DEF Apart
<1>9. ASSUME NEW j \in DOMAIN s.treehash
      PROVE  InstanceAt(v, t + 1, j)
  <2>1. CASE Again(t, tau, j)
    <3>1. /\ j \in 0 .. tau - 1 /\ j \in Busy(v) /\ v.treehash[j].h = j
          /\ v.treehash[j].next_idx = Start(t, j) /\ v.treehash[j].completed = 0
          /\ v.treehash[j].stackusage = 0 /\ TailsOf(v, j) = {}
          /\ Start(t, j) < 2^TreeHeight
      BY <1>1, <2>1 DEF Again
    <3>2. /\ Start(t, j) \in Nat /\ Shr(Start(t, j), j) = Wanted(t + 1, j)
          /\ Wanted(t + 1, j) < 2^(TreeHeight - j) /\ Shr(t + 1, j + 1) > 0
      BY <3>1, StartIs
    <3>3. Cardinality(TailsOf(v, j)) = 0
      BY <3>1, FS_EmptySet
    <3> QED
      BY <3>1, <3>2, <3>3 DEF InstanceAt
  <2>2. CASE ~ Again(t, tau, j)
    <3>1. /\ v.treehash[j] = s.treehash[j] /\ TailsOf(v, j) = TailsOf(s, j)
          /\ j \in Busy(v) <=> j \in Busy(s)
      BY <1>1, <2>2
    <3>2. InstanceAt(s, t, j)
      BY <1>2
    <3>3. CASE tau <= j
      <4>1. j + 1 \in tau + 1 .. TreeHeight + 1
        BY <1>3, <3>3
      <4>2. Shr(t + 1, j + 1) = Shr(t, j + 1)
        BY <4>1, NextIndex
      <4>3. Wanted(t + 1, j) = Wanted(t, j)
        BY <4>2 DEF Wanted
      <4> QED
        BY <3>1, <3>2, <4>2, <4>3 DEF InstanceAt
    <3>4. CASE ~ tau <= j
      <4>1. j \in 0 .. tau - 1 /\ j < tau
        BY <1>3, <3>4
      <4>2. j \notin Busy(s) /\ j \notin Busy(v)
        BY <3>1, <3>4 DEF Idle
      <4>3. ~ Wanted(t + 1, j) < 2^(TreeHeight - j)
        <5>1. ~ Start(t, j) < 2^TreeHeight
          BY <2>2, <4>1 DEF Again
        <5> QED
          BY <4>1, <5>1, StartIs
      <4> QED
        BY <3>1, <3>2, <4>2, <4>3 DEF InstanceAt
    <3> QED
      BY <3>3, <3>4
  <2> QED
    BY <2>1, <2>2
<1> QED
  BY <1>1, <1>2, <1>6, <1>7, <1>8, <1>9 DEF Traversal

-----------------------------------------------------------------------------

(***************************************************************************)
(* Enough updates are made when the instances come in pairs, or when the   *)
(* highest two, which are never restarted, make up for the odd one.        *)
(***************************************************************************)
Paired(par) == par.bds_k <= 1 \/ Instances(par) % 2 = 0

\* The instances that are ever restarted are below this one.
Top(par) == IF par.bds_k <= 1 THEN TreeHeight - 2 ELSE Instances(par)

\* Two updates for each pair of them.
LEMMA TopIs ==
  ASSUME NEW par, Sized(par), Paired(par)
  PROVE  Top(par) \in Int /\ Updates(par) \in Nat /\ Top(par) <= 2 * Updates(par)
<1> DEFINE m == Instances(par)
           n == Updates(par)
<1>1. m \in 0 .. TreeHeight /\ m = TreeHeight - par.bds_k /\ TreeHeight \in Nat
      /\ par.bds_k \in 0 .. TreeHeight /\ m \in Nat
  BY InstancesNat, Powers DEF Sized
<1>2. n \in Nat /\ m = 2 * n + (m % 2)
  <2>1. 0 \in 0 .. TreeHeight /\ 0 + 1 = 1 /\ 1 \in 0 .. TreeHeight + 1 /\ 0 \in 0 .. TreeHeight + 1
    BY <1>1
  <2>2. Shr(m, 0) = 2 * Shr(m, 1) + Bit(m, 0)
    BY <1>1, <2>1, PartsUp
  <2>3. Shr(m, 0) = m /\ Shr(m, 1) \in Nat
    BY <1>1, <2>1, Parts
  <2>4. Bit(m, 0) = m % 2
    BY <2>3 DEF Bit
  <2>5. n = Shr(m, 1)
    BY DEF Updates, m, n
  <2> HIDE DEF m, n
  <2> QED
    BY <1>1, <2>2, <2>3, <2>4, <2>5
<1> HIDE DEF m, n
<1>3. m % 2 \in {0, 1}
  BY <1>1
<1>4. CASE par.bds_k <= 1
  <2>1. Top(par) = TreeHeight - 2 /\ m >= TreeHeight - 1
    BY <1>1, <1>4 DEF Top
  <2> QED
    BY <1>1, <1>2, <1>3, <2>1 DEF n
<1>5. CASE ~ par.bds_k <= 1
  <2>1. Top(par) = m /\ m % 2 = 0
    BY <1>5 DEF Top, Paired, m
  <2> QED
    BY <1>1, <1>2, <2>1 DEF n
<1> QED
  BY <1>4, <1>5

\* An instance at work is below the top.
LEMMA BelowTop ==
  ASSUME NEW par, NEW s, NEW t, At(par, s, t), NEW j \in Busy(s)
  PROVE  j < Top(par)
<1>1. /\ TreeHeight \in Nat /\ j \in DOMAIN s.treehash /\ j \in 0 .. TreeHeight - 1
      /\ DOMAIN s.treehash = 0 .. Instances(par) - 1 /\ Instances(par) \in 0 .. TreeHeight
      /\ t \in Nat
  BY Powers, TailsAre, InstancesNat DEF At, Shape, HasInstances, Busy
<1>2. Wanted(t, j) < 2^(TreeHeight - j) /\ Shr(t, j + 1) > 0
  BY <1>1 DEF At, Traversal, InstanceAt
<1>3. Shr(t, j + 1) \in Nat
  <2>1. j + 1 \in 0 .. TreeHeight + 1
    BY <1>1
  <2> QED
    BY <1>1, <2>1, Parts
<1>4. Wanted(t, j) >= 5
  BY <1>2, <1>3 DEF Wanted
<1>5. 2^1 = 2 /\ 2^2 = 4
  <2>1. 0 \in 0 .. TreeHeight /\ 1 \in 0 .. TreeHeight
    BY <1>1, Powers
  <2>2. 2^(0 + 1) = 2 * 2^0 /\ 2^(1 + 1) = 2 * 2^1 /\ 2^0 = 1
    BY <2>1, Powers
  <2> QED
    BY <2>2
<1>6. TreeHeight - j \notin {1, 2}
  <2> DEFINE k == TreeHeight - j
  <2>1. k = 1 => 2^k = 2
    BY <1>5
  <2>2. k = 2 => 2^k = 4
    BY <1>5
  <2>3. Wanted(t, j) < 2^k /\ Wanted(t, j) \in Int
    BY <1>2, <1>3 DEF Wanted
  <2> HIDE DEF k
  <2>4. k \notin {1, 2}
    BY <1>4, <2>1, <2>2, <2>3
  <2> QED
    BY <2>4 DEF k
<1>7. j < TreeHeight - 2
  BY <1>1, <1>6
<1>8. j < Instances(par)
  BY <1>1
<1> QED
  BY <1>7, <1>8 DEF Top

\* The schedule of an instance that starts again.
LEMMA FreshSched ==
  ASSUME NEW par, Paired(par), NEW v, NEW t, NEW tau, MovesAt(t, tau), At(par, v, t + 1),
         NEW h \in Busy(v), h < tau
  PROVE  Load(par, v, t + 1, h) <= Spare(par, h) * Left(t + 1, h)
<1> DEFINE T == t + 1
           m == Instances(par)
           e == Top(par)
           n == Updates(par)
           P == 2^(h + 1)
           c == P - 2
           g == Terms(v, T, h)
           z == Zeros(m)
           b == [i \in 0 .. m |-> IF i <= h THEN 0
                                  ELSE IF i <= e THEN (i - h - 1) * c ELSE (e - h - 1) * c]
<1>1. /\ m \in 0 .. TreeHeight /\ TreeHeight \in Nat /\ m \in Nat
      /\ DOMAIN v.treehash = 0 .. m - 1 /\ h \in 0 .. m - 1 /\ h \in Nat
      /\ tau \in 0 .. TreeHeight - 1 /\ h \in 0 .. tau - 1
  <2>1. /\ m \in 0 .. TreeHeight /\ TreeHeight \in Nat
        /\ DOMAIN v.treehash = 0 .. m - 1 /\ h \in 0 .. m - 1
        /\ tau \in 0 .. TreeHeight - 1
    BY Powers, InstancesNat DEF At, Shape, HasInstances, Busy, MovesAt
  <2> HIDE DEF m
  <2> QED
    BY <2>1
<1>2. e \in Int /\ n \in Nat /\ e <= 2 * n /\ h < e
  <2>1. Sized(par)
    BY DEF At
  <2>2. e \in Int /\ n \in Nat /\ e <= 2 * n
    BY <2>1, TopIs
  <2>3. h < e
    BY BelowTop
  <2> QED
    BY <2>2, <2>3
<1>3. 2^h \in Nat \ {0} /\ P = 2 * 2^h /\ P \in Nat /\ c \in Nat
  <2>1. h \in DOMAIN v.treehash
    BY <1>1
  <2>2. 2^h \in Nat \ {0} /\ P = 2 * 2^h
    BY <2>1, TermIs
  <2> QED
    BY <2>2
<1>4. ASSUME NEW i \in 0 .. m - 1
      PROVE  /\ g[i] \in Int
             /\ i <= h => g[i] <= 0
             /\ i > h => g[i] <= c
             /\ i > h /\ ~ i < e => g[i] = 0
  <2>1. i \in DOMAIN v.treehash /\ h \in DOMAIN v.treehash
    BY <1>1
  <2>2. g[i] = Term(v, T, h, i)
    BY <2>1 DEF Terms
  <2>3. /\ Term(v, T, h, i) \in Int
        /\ i <= h => Term(v, T, h, i) = Low(T, i + 1) - 2 * Done(v, i)
        /\ i > h /\ i \notin Busy(v) => Term(v, T, h, i) = 0
        /\ i > h /\ i \in Busy(v) =>
             Term(v, T, h, i) = 2 * Gap(v.treehash[i].next_idx, h)
        /\ 2^i \in Nat \ {0}
    BY <2>1, TermIs
  <2>4. /\ i \in Busy(v) => v.treehash[i].next_idx \in Nat /\ Done(v, i) \in 0 .. 2^i - 1
        /\ i \notin Busy(v) => Done(v, i) = 2^i
    BY <2>1, TermIs
  <2> HIDE DEF g, c, T, e, m
  <2>5. CASE i <= h
    <3>1. Low(T, i + 1) = 0
      <4>1. i \in 0 .. tau - 1
        BY <1>1, <2>5
      <4> QED
        BY <4>1, NextIndex DEF T
    <3>2. Done(v, i) \in Nat
      BY <2>3, <2>4
    <3>3. g[i] <= 0
      BY <2>2, <2>3, <2>5, <3>1, <3>2
    <3> QED
      BY <1>1, <2>2, <2>3, <2>5, <3>3
  <2>6. CASE i > h /\ i \in Busy(v)
    <3>1. h \in 0 .. TreeHeight
      BY <1>1
    <3>2. Gap(v.treehash[i].next_idx, h) \in Nat /\ Gap(v.treehash[i].next_idx, h) <= 2^h - 1
      BY <2>4, <2>6, <3>1, GapIs
    <3>3. c = 2 * 2^h - 2
      BY <1>3 DEF c
    <3>4. g[i] <= c
      BY <1>3, <2>2, <2>3, <2>6, <3>2, <3>3
    <3>5. i < e
      BY <2>6, BelowTop DEF e, T
    <3> QED
      BY <1>1, <2>2, <2>3, <2>6, <3>4, <3>5
  <2>7. CASE i > h /\ i \notin Busy(v)
    BY <1>1, <1>3, <2>2, <2>3, <2>7
  <2>8. i <= h \/ i > h
    BY <1>1
  <2> QED
    BY <2>5, <2>6, <2>7, <2>8
<1> HIDE DEF c, m, e, g, n, T
<1>5. \A k \in Int : k * c \in Int /\ (k + 1) * c = k * c + c
  BY <1>3
<1>6. 0 * c = 0
  BY <1>3
<1>7. \A i \in 0 .. m : b[i] \in Int
  <2>1. h \in Int /\ e \in Int /\ e - h - 1 \in Int /\ \A i \in 0 .. m : i - h - 1 \in Int
    BY <1>1, <1>2
  <2> QED
    BY <1>5, <2>1
<1>8. b[0] = 0
  BY <1>1
<1>9. ASSUME NEW i \in 0 .. m - 1
      PROVE  /\ i <= h => b[i + 1] = b[i]
             /\ i > h /\ i < e => b[i + 1] = b[i] + c
             /\ i > h /\ ~ i < e => b[i + 1] = b[i]
  <2>1. i \in 0 .. m /\ i + 1 \in 0 .. m /\ i \in Int /\ h \in Int /\ e \in Int
    BY <1>1, <1>2
  <2>2. CASE i < h
    BY <2>1, <2>2
  <2>3. CASE i = h
    <3>1. b[i] = 0
      BY <2>1, <2>3
    <3>2. b[i + 1] = (i + 1 - h - 1) * c
      BY <1>2, <2>1, <2>3
    <3>3. i + 1 - h - 1 = 0
      BY <2>1, <2>3
    <3> HIDE DEF b
    <3> QED
      BY <1>6, <2>3, <3>1, <3>2, <3>3
  <2>4. CASE i > h /\ i < e
    <3>1. b[i] = (i - h - 1) * c
      BY <2>1, <2>4
    <3>2. b[i + 1] = (i + 1 - h - 1) * c
      BY <2>1, <2>4
    <3>3. i - h - 1 \in Int /\ i + 1 - h - 1 = (i - h - 1) + 1
      BY <2>1
    <3>4. ((i - h - 1) + 1) * c = (i - h - 1) * c + c
      BY <1>5, <3>3
    <3> HIDE DEF b
    <3> QED
      BY <2>1, <2>4, <3>1, <3>2, <3>3, <3>4
  <2>5. CASE i > h /\ i = e
    <3>1. b[i] = (i - h - 1) * c /\ b[i + 1] = (e - h - 1) * c
      BY <2>1, <2>5
    <3> HIDE DEF b
    <3> QED
      BY <2>1, <2>5, <3>1
  <2>6. CASE i > h /\ i > e
    <3>1. b[i] = (e - h - 1) * c /\ b[i + 1] = (e - h - 1) * c
      BY <2>1, <2>6
    <3> HIDE DEF b
    <3> QED
      BY <2>1, <2>6, <3>1
  <2> QED
    BY <2>1, <2>2, <2>3, <2>4, <2>5, <2>6
<1>10. b[m] \in Int /\ b[m] <= Spare(par, h) * P
  <2> DEFINE A == 2 * n - h - 1
  <2>1. A \in Nat /\ Spare(par, h) = A
    <3>1. Spare(par, h) = 2 * n - h - 1
      BY DEF Spare, n, Updates
    <3> QED
      BY <1>1, <1>2, <3>1
  <2>2. PICK k \in Int : 0 <= k /\ k <= A /\ b[m] = k * c
    <3>1. CASE m <= e
      <4>1. b[m] = (m - h - 1) * c
        BY <1>1, <3>1
      <4>2. m - h - 1 \in Int /\ 0 <= m - h - 1 /\ m - h - 1 <= A
        BY <1>1, <1>2, <3>1
      <4> QED
        BY <4>1, <4>2
    <3>2. CASE ~ m <= e
      <4>1. b[m] = (e - h - 1) * c
        BY <1>1, <3>2
      <4>2. e - h - 1 \in Int /\ 0 <= e - h - 1 /\ e - h - 1 <= A
        BY <1>1, <1>2, <3>2
      <4> QED
        BY <4>1, <4>2
    <3> QED
      BY <3>1, <3>2
  <2>3. c <= P /\ c \in Nat /\ P \in Nat
    BY <1>3 DEF c
  <2> HIDE DEF A, b
  <2>4. k * c <= A * c
    BY <2>1, <2>2, <2>3
  <2>5. A * c <= A * P
    BY <2>1, <2>3
  <2>6. k * c \in Int /\ A * c \in Int /\ A * P \in Int
    BY <2>1, <2>2, <2>3
  <2> QED
    BY <2>1, <2>2, <2>4, <2>5, <2>6
<1> HIDE DEF b
<1>11. \A i \in 0 .. m - 1 : z[i] = 0 /\ i \in 0 .. m /\ i + 1 \in 0 .. m
  BY <1>1 DEF Zeros
<1>12. Grows(z, g, b, m)
  <2> SUFFICES ASSUME NEW i \in 0 .. m - 1
               PROVE  z[i] \in Int /\ g[i] \in Int /\ g[i] + b[i] <= z[i] + b[i + 1]
    BY <1>7 DEF Grows
  <2>1. z[i] = 0 /\ b[i] \in Int /\ b[i + 1] \in Int /\ g[i] \in Int
    BY <1>4, <1>7, <1>11
  <2>2. /\ i <= h => g[i] <= 0 /\ b[i + 1] = b[i]
        /\ i > h /\ i < e => g[i] <= c /\ b[i + 1] = b[i] + c
        /\ i > h /\ ~ i < e => g[i] = 0 /\ b[i + 1] = b[i]
    BY <1>4, <1>9
  <2>3. (i <= h) \/ (i > h /\ i < e) \/ (i > h /\ ~ i < e)
    BY <1>1
  <2> HIDE DEF z
  <2> QED
    BY <1>3, <2>1, <2>2, <2>3
<1>13. Sum(g, m) \in Int /\ Sum(g, m) + b[0] <= Sum(z, m) + b[m]
  BY <1>1, <1>12, SumLe
<1>14. Sum(z, m) = 0
  BY <1>1, SumZeros
<1>15. Load(par, v, T, h) = Sum(g, m)
  BY DEF Load, g, m
<1>16. Left(T, h) = P
  <2>1. Low(T, h + 1) = 0
    BY <1>1, NextIndex DEF T
  <2> QED
    BY <1>3, <2>1 DEF Left
<1>17. Load(par, v, T, h) <= b[m]
  <2> HIDE DEF z
  <2> QED
    BY <1>8, <1>10, <1>13, <1>14, <1>15
<1>18. Spare(par, h) * Left(T, h) \in Int /\ Load(par, v, T, h) \in Int
  <2>1. At(par, v, T) /\ h \in DOMAIN v.treehash
    BY <1>1 DEF T
  <2> QED
    BY <1>13, <1>15, <2>1, LeftIs
<1>19. Load(par, v, T, h) <= Spare(par, h) * Left(T, h)
  BY <1>10, <1>16, <1>17, <1>18
<1> QED
  BY <1>19 DEF T

\* The schedule of an instance that goes on.
LEMMA OlderSched ==
  ASSUME NEW par, NEW s, NEW t, At(par, s, t), NEW tau, MovesAt(t, tau), Idle(s, tau),
         Sched(par, s, t, Updates(par)),
         NEW v, Restarts(s, t, tau, v), At(par, v, t + 1),
         NEW h \in Busy(s), tau <= h
  PROVE  Load(par, v, t + 1, h) <= Spare(par, h) * Left(t + 1, h)
<1> DEFINE T == t + 1
           m == Instances(par)
           n == Updates(par)
           f == Terms(s, t, h)
           g == Terms(v, T, h)
           b == [i \in 0 .. m |-> IF i <= h THEN i ELSE h + 1]
<1>1. /\ m \in 0 .. TreeHeight /\ TreeHeight \in Nat
      /\ DOMAIN s.treehash = 0 .. m - 1 /\ h \in 0 .. m - 1 /\ h \in DOMAIN s.treehash
      /\ tau \in 0 .. TreeHeight - 1 /\ DOMAIN v.treehash = DOMAIN s.treehash
  BY InstancesNat, Powers DEF At, Shape, HasInstances, Busy, MovesAt, Restarts
<1>2. \A i \in DOMAIN s.treehash :
        /\ Again(t, tau, i) => i \in 0 .. tau - 1 /\ i \in Busy(v) /\ v.treehash[i].next_idx = Start(t, i)
        /\ ~ Again(t, tau, i) =>
             v.treehash[i] = s.treehash[i] /\ (i \in Busy(v) <=> i \in Busy(s))
  BY RestartsAre
<1>3. ASSUME NEW i \in 0 .. m - 1
      PROVE  /\ f[i] \in Int /\ g[i] \in Int
             /\ i <= h => g[i] <= f[i] + 1
             /\ i > h => g[i] = f[i]
  <2>1. i \in DOMAIN s.treehash /\ i \in DOMAIN v.treehash /\ h \in DOMAIN v.treehash
    BY <1>1
  <2>2. f[i] = Term(s, t, h, i) /\ g[i] = Term(v, T, h, i)
    BY <2>1 DEF Terms
  <2> HIDE DEF f, g, m
  <2>3. /\ Term(s, t, h, i) \in Int
        /\ i <= h => Term(s, t, h, i) = Low(t, i + 1) - 2 * Done(s, i)
        /\ i \notin Busy(s) => Done(s, i) = 2^i
        /\ i \in Busy(s) => Done(s, i) \in 0 .. 2^i - 1
        /\ 2^i \in Nat \ {0} /\ 2^(i + 1) = 2 * 2^i /\ Low(t, i + 1) \in 0 .. 2^(i + 1) - 1
    <3> h \in DOMAIN s.treehash
      BY <1>1
    <3> QED
      BY <2>1, TermIs
  <2>4. /\ Term(v, T, h, i) \in Int
        /\ i <= h => Term(v, T, h, i) = Low(T, i + 1) - 2 * Done(v, i)
        /\ i \notin Busy(v) => Done(v, i) = 2^i
        /\ i \in Busy(v) => Done(v, i) \in 0 .. 2^i - 1
    BY <2>1, TermIs
  <2>5. CASE i <= h /\ i < tau
    <3>1. i \in 0 .. tau - 1 /\ ~ tau <= i
      BY <1>1, <2>5
    <3>2. Low(T, i + 1) = 0 /\ Low(t, i + 1) = 2^(i + 1) - 1
      BY <3>1, NextIndex DEF T, Full
    <3>3. i \notin Busy(s)
      BY <3>1 DEF Idle
    <3>4. Term(s, t, h, i) = -1
      BY <2>3, <2>5, <3>2, <3>3
    <3>5. Done(v, i) \in Nat
      BY <2>3, <2>4
    <3>6. g[i] <= f[i] + 1
      BY <2>2, <2>4, <2>5, <3>2, <3>4, <3>5
    <3> QED
      BY <1>1, <2>2, <2>3, <2>4, <2>5, <3>6
  <2>6. CASE ~ i < tau
    <3>1. ~ Again(t, tau, i)
      BY <2>6 DEF Again
    <3>2. v.treehash[i] = s.treehash[i] /\ (i \in Busy(v) <=> i \in Busy(s))
      BY <1>2, <2>1, <3>1
    <3>3. Done(v, i) = Done(s, i)
      BY <3>2 DEF Done
    <3>4. CASE i <= h
      <4>1. i + 1 \in tau + 1 .. TreeHeight + 1
        BY <1>1, <2>6
      <4>2. Low(T, i + 1) = Low(t, i + 1) + 1
        BY <4>1, NextIndex DEF T
      <4>3. Done(s, i) \in Int
        BY <2>3
      <4>4. Low(t, i + 1) \in Int
        BY <2>3
      <4>5. g[i] <= f[i] + 1
        BY <2>2, <2>3, <2>4, <3>3, <3>4, <4>2, <4>3, <4>4
      <4> QED
        BY <1>1, <2>2, <2>3, <2>4, <3>4, <4>5
    <3>5. CASE i > h
      <4>1. Term(v, T, h, i) = Term(s, t, h, i)
        <5>1. ~ i <= h
          BY <1>1, <3>5
        <5> QED
          BY <3>2, <5>1 DEF Term
      <4> QED
        BY <1>1, <2>2, <2>3, <2>4, <3>5, <4>1
    <3>6. i <= h \/ i > h
      BY <1>1
    <3> QED
      BY <3>4, <3>5, <3>6
  <2>7. i < tau => i <= h
    BY <1>1
  <2> QED
    BY <2>5, <2>6, <2>7
<1> HIDE DEF f, g, m, n, T
<1>4. b[0] = 0 /\ b[m] = h + 1 /\ \A i \in 0 .. m : b[i] \in Int
  <2>1. 0 \in 0 .. m /\ m \in 0 .. m /\ h \in Int /\ ~ m <= h /\ 0 <= h
    BY <1>1
  <2>2. b[0] = 0
    BY <2>1
  <2>3. b[m] = h + 1
    BY <2>1
  <2>4. \A i \in 0 .. m : b[i] \in Int
    BY <2>1
  <2> QED
    BY <2>2, <2>3, <2>4
<1>5. \A i \in 0 .. m - 1 : /\ i <= h => b[i + 1] = b[i] + 1
                            /\ i > h => b[i + 1] = b[i]
                            /\ i \in 0 .. m /\ i + 1 \in 0 .. m
  <2> SUFFICES ASSUME NEW i \in 0 .. m - 1
               PROVE  /\ i <= h => b[i + 1] = b[i] + 1
                      /\ i > h => b[i + 1] = b[i]
                      /\ i \in 0 .. m /\ i + 1 \in 0 .. m
    OBVIOUS
  <2>1. i \in 0 .. m /\ i + 1 \in 0 .. m /\ i \in Int /\ h \in Int
    BY <1>1
  <2>2. CASE i < h
    BY <2>1, <2>2
  <2>3. CASE i = h
    BY <2>1, <2>3
  <2>4. CASE i > h
    BY <2>1, <2>4
  <2> QED
    BY <2>1, <2>2, <2>3, <2>4
<1> HIDE DEF b
<1>6. Grows(f, g, b, m)
  <2> SUFFICES ASSUME NEW i \in 0 .. m - 1
               PROVE  f[i] \in Int /\ g[i] \in Int /\ g[i] + b[i] <= f[i] + b[i + 1]
    BY <1>4 DEF Grows
  <2>1. f[i] \in Int /\ g[i] \in Int /\ b[i] \in Int /\ b[i + 1] \in Int
    BY <1>3, <1>4, <1>5
  <2>2. CASE i <= h
    <3>1. g[i] <= f[i] + 1 /\ b[i + 1] = b[i] + 1
      BY <1>3, <1>5, <2>2
    <3> QED
      BY <2>1, <3>1
  <2>3. CASE i > h
    <3>1. g[i] = f[i] /\ b[i + 1] = b[i]
      BY <1>3, <1>5, <2>3
    <3> QED
      BY <2>1, <3>1
  <2>4. i <= h \/ i > h
    BY <1>1
  <2> QED
    BY <2>2, <2>3, <2>4
<1>7. Sum(f, m) \in Int /\ Sum(g, m) \in Int /\ Sum(g, m) + b[0] <= Sum(f, m) + b[m]
  <2>1. m \in Nat
    BY <1>1
  <2> QED
    BY <1>6, <2>1, SumLe
<1>8. Load(par, v, T, h) = Sum(g, m) /\ Load(par, s, t, h) = Sum(f, m)
  BY DEF Load, f, g, m
<1>9. Load(par, v, T, h) <= Load(par, s, t, h) + h + 1
  BY <1>1, <1>4, <1>7, <1>8
<1>10. Load(par, s, t, h) <= Spare(par, h) * Left(t, h) - 2 * n
  BY DEF Sched, n
<1>11. Left(T, h) = Left(t, h) - 1
  <2>1. h + 1 \in tau + 1 .. TreeHeight + 1 /\ h + 1 \in 0 .. TreeHeight + 1
    BY <1>1
  <2>2. Low(T, h + 1) = Low(t, h + 1) + 1
    BY <2>1, NextIndex DEF T
  <2>3. Low(t, h + 1) \in Int /\ 2^(h + 1) \in Int
    <3>1. t \in Nat
      BY DEF MovesAt
    <3>2. Low(t, h + 1) \in 0 .. 2^(h + 1) - 1 /\ 2^(h + 1) \in Nat \ {0}
      BY <2>1, <3>1, Parts
    <3> QED
      BY <3>2
  <2> QED
    BY <2>2, <2>3 DEF Left
<1>12. Spare(par, h) = 2 * n - h - 1 /\ n \in Nat
  <2>1. n = Shr(m, 1) /\ m \in Nat /\ 1 \in 0 .. TreeHeight + 1
    BY <1>1 DEF n, m, Updates
  <2>2. n \in Nat
    BY <2>1, Parts
  <2> QED
    BY <2>2 DEF Spare, n, Updates
<1>13. Spare(par, h) \in Int /\ Left(t, h) \in Int
  BY <1>1, LeftIs
<1>14. Spare(par, h) * Left(T, h) = Spare(par, h) * Left(t, h) - 2 * n + h + 1
  <2> DEFINE A == Spare(par, h)
             B == Left(t, h)
  <2>1. A * (B - 1) = A * B - A
    <3>1. A \in Int /\ B \in Int
      BY <1>13
    <3> HIDE DEF A, B
    <3> QED
      BY <3>1
  <2>2. A * B \in Int /\ A \in Int
    <3>1. A \in Int /\ B \in Int
      BY <1>13
    <3> HIDE DEF A, B
    <3> QED
      BY <3>1
  <2>3. Left(T, h) = B - 1 /\ A = 2 * n - h - 1
    BY <1>11, <1>12
  <2> DEFINE C == A * B
  <2>4. A * Left(T, h) = C - A /\ C \in Int
    BY <2>1, <2>2, <2>3
  <2> HIDE DEF C
  <2>5. C - A = C - 2 * n + h + 1
    BY <1>1, <1>12, <2>2, <2>3, <2>4
  <2> QED
    BY <2>4, <2>5 DEF C
<1>15. Load(par, v, T, h) <= Spare(par, h) * Left(T, h)
  <2> DEFINE C == Spare(par, h) * Left(t, h)
  <2>1. C \in Int
    BY <1>1, LeftIs
  <2>2. Load(par, s, t, h) <= C - 2 * n /\ Spare(par, h) * Left(T, h) = C - 2 * n + h + 1
    BY <1>10, <1>14
  <2> HIDE DEF C
  <2> QED
    BY <1>1, <1>7, <1>8, <1>9, <1>12, <2>1, <2>2
<1> QED
  BY <1>15 DEF T

\* The schedule at the next index.
LEMMA RoundSched ==
  ASSUME NEW par, Paired(par), NEW s, NEW t, At(par, s, t), NEW tau, MovesAt(t, tau),
         Idle(s, tau), Sched(par, s, t, Updates(par)),
         NEW v, Restarts(s, t, tau, v), At(par, v, t + 1)
  PROVE  Sched(par, v, t + 1, 0)
<1> SUFFICES ASSUME NEW h \in Busy(v)
             PROVE  Load(par, v, t + 1, h) <= Spare(par, h) * Left(t + 1, h) - 2 * 0
  BY DEF Sched
<1>1. h \in DOMAIN v.treehash /\ h \in DOMAIN s.treehash
  BY DEF Busy, Restarts
<1>2. Spare(par, h) * Left(t + 1, h) \in Int
  BY <1>1, LeftIs
<1>3. /\ Again(t, tau, h) => h < tau
      /\ ~ Again(t, tau, h) => h \in Busy(s)
  BY <1>1, RestartsAre DEF Again
<1>4. Load(par, v, t + 1, h) <= Spare(par, h) * Left(t + 1, h)
  <2>1. CASE Again(t, tau, h)
    BY <1>3, <2>1, FreshSched
  <2>2. CASE ~ Again(t, tau, h)
    <3>1. h \in Busy(s) /\ tau <= h
      BY <1>3, <2>2 DEF Idle
    <3> QED
      BY <3>1, OlderSched
  <2> QED
    BY <2>1, <2>2
<1> DEFINE C == Spare(par, h) * Left(t + 1, h)
<1>5. C \in Int /\ Load(par, v, t + 1, h) <= C
  BY <1>2, <1>4
<1>6. C - 2 * 0 = C
  <2> HIDE DEF C
  <2> QED
    BY <1>5
<1> QED
  BY <1>5, <1>6

-----------------------------------------------------------------------------

(***************************************************************************)
(* What the signatures are read from at index t: the authentication path,  *)
(* the left nodes that the next paths are hashed from, and the right nodes *)
(* kept for the highest levels.                                            *)
(***************************************************************************)
AuthAt(s, t) == \A h \in 0 .. TreeHeight - 1 : s.auth[h] = NodeAt(h, Sibling(Shr(t, h)))
KeepAt(s, t) ==
  \A h \in 0 .. TreeHeight - 2 :
    Bit(t, h) = 1 /\ Bit(t, h + 1) = 0 => s.keep[h \div 2] = NodeAt(h, Shr(t, h))
RetainBase(h) == 2^(TreeHeight - 1 - h) + h - TreeHeight
RetainAt(par, s) ==
  \A h \in 0 .. TreeHeight - 1 : Instances(par) <= h =>
    \A i \in Nat : 2 * i + 3 < 2^(TreeHeight - h) =>
      s.retain[RetainBase(h) + i] = NodeAt(h, 2 * i + 3)
PathAt(par, s, t) == AuthAt(s, t) /\ KeepAt(s, t) /\ RetainAt(par, s)

\* The node below tau that an instance or retain has for the next path.
LEMMA NextRight ==
  ASSUME NEW par, NEW s, NEW t, At(par, s, t), NEW tau, MovesAt(t, tau), Idle(s, tau),
         RetainAt(par, s), NEW h \in 0 .. tau - 1
  PROVE  (IF h < Instances(par) THEN s.treehash[h].node
          ELSE s.retain[RetainBase(h) + Shr(Shr(t, h) - 1, 1)]) =
           NodeAt(h, Sibling(Shr(t + 1, h)))
<1>1. /\ TreeHeight \in Nat /\ tau \in 0 .. TreeHeight - 1 /\ t \in Nat
      /\ Instances(par) \in 0 .. TreeHeight /\ DOMAIN s.treehash = 0 .. Instances(par) - 1
  BY Powers, InstancesNat DEF MovesAt, At, Shape, HasInstances
<1>2. Wanted(t, h) = Sibling(Shr(t + 1, h)) /\ Wanted(t, h) < 2^(TreeHeight - h)
      /\ Wanted(t, h) = Shr(t, h) + 2
  BY StartIs
<1>3. CASE h < Instances(par)
  <2>1. h \in DOMAIN s.treehash /\ ~ tau <= h
    BY <1>1, <1>3
  <2>2. h \notin Busy(s)
    BY <2>1 DEF Idle
  <2>3. s.treehash[h].node = NodeAt(h, Wanted(t, h))
    BY <1>2, <2>1, <2>2 DEF At, Traversal, InstanceAt
  <2> QED
    BY <1>2, <1>3, <2>3
<1>4. CASE ~ h < Instances(par)
  <2> DEFINE d == Shr(t, h + 1)
  <2>1. h + 1 \in 0 .. TreeHeight + 1 /\ h \in 0 .. TreeHeight /\ h \in 0 .. TreeHeight - 1
        /\ Instances(par) <= h /\ 0 \in 0 .. TreeHeight
    BY <1>1, <1>4
  <2>2. d \in Nat
    BY <1>1, <2>1, Parts
  <2>3. Wanted(t, h) = 2 * d + 3
    BY DEF Wanted
  <2> HIDE DEF d
  <2>4. Shr(t, h) - 1 = 2 * d
    <3>1. Shr(t, h) \in Nat
      <4>1. h \in 0 .. TreeHeight + 1
        BY <1>1, <2>1
      <4> QED
        BY <1>1, <4>1, Parts
    <3> QED
      BY <1>2, <2>2, <2>3, <3>1
  <2>5. 2^1 = 2
    <3>1. 2^(0 + 1) = 2 * 2^0 /\ 2^0 = 1 /\ 0 + 1 = 1
      BY <2>1, Powers
    <3> QED
      BY <3>1
  <2>6. Shr(Shr(t, h) - 1, 1) = d
    <3>1. (2 * d) \div 2 = d
      BY <2>2
    <3> QED
      BY <2>4, <2>5, <3>1 DEF Shr
  <2>7. s.retain[RetainBase(h) + d] = NodeAt(h, 2 * d + 3)
    BY <1>2, <2>1, <2>2, <2>3 DEF RetainAt
  <2> QED
    BY <1>2, <1>4, <2>3, <2>6, <2>7
<1> QED
  BY <1>3, <1>4

\* The left node at tau, hashed from the path and the kept node.
LEMMA NextLeft ==
  ASSUME NEW par, NEW s, NEW t, At(par, s, t), NEW tau, MovesAt(t, tau), tau # 0,
         AuthAt(s, t), KeepAt(s, t)
  PROVE  thash_h(s.auth[tau - 1], s.keep[(tau - 1) \div 2], RealSeed, TheTree, tau - 1,
                 Shr(t, tau)) = NodeAt(tau, Shr(t, tau))
<1> DEFINE l == tau - 1
           q == Shr(t, tau)
<1>1. /\ TreeHeight \in Nat /\ tau \in 0 .. TreeHeight - 1 /\ t \in Nat
      /\ l \in 0 .. tau - 1 /\ l \in 0 .. TreeHeight - 1 /\ l \in 0 .. TreeHeight - 2
      /\ l \in 0 .. TreeHeight /\ l + 1 = tau /\ tau \in 0 .. TreeHeight + 1
      /\ Bit(t, tau) = 0
  BY Powers DEF MovesAt
<1>2. q \in Nat
  BY <1>1, Parts
<1> HIDE DEF l, q
<1>3. Bit(t, l) = 1
  BY <1>1, NextIndex
<1>4. Shr(t, l) = 2 * q + 1
  BY <1>1, <1>3, PartsUp DEF q
<1>5. Sibling(Shr(t, l)) = 2 * q
  BY <1>2, <1>4 DEF Sibling
<1>6. s.auth[l] = NodeAt(l, 2 * q)
  BY <1>1, <1>5 DEF AuthAt
<1>7. s.keep[l \div 2] = NodeAt(l, 2 * q + 1)
  BY <1>1, <1>3, <1>4 DEF KeepAt
<1>8. thash_h(s.auth[l], s.keep[l \div 2], RealSeed, TheTree, l, q) = NodeAt(l + 1, q)
  BY <1>6, <1>7, NodesAre
<1> QED
  BY <1>1, <1>8 DEF l, q

\* The authentication path of the next leaf.
LEMMA RoundAuth ==
  ASSUME NEW par, NEW s, NEW t, At(par, s, t), NEW tau, MovesAt(t, tau), Idle(s, tau),
         PathAt(par, s, t), NEW v,
         tau = 0 => v.auth = Put(s.auth, 0, gen_leaf_wots(RealSeed, TheTree, t)),
         tau # 0 => v.auth = NextPath(par, s, t, tau, RealSeed, TheTree)
  PROVE  AuthAt(v, t + 1) /\ DOMAIN v.auth = 0 .. TreeHeight - 1
<1>1. /\ TreeHeight \in Nat /\ tau \in 0 .. TreeHeight - 1 /\ t \in Nat
      /\ DOMAIN s.auth = 0 .. TreeHeight - 1 /\ par.tree_height = TreeHeight
      /\ tau \in 0 .. TreeHeight + 1 /\ Bit(t, tau) = 0
  BY Powers DEF MovesAt, At, Shape, HasArrays, Sized
<1>2. AuthAt(s, t) /\ KeepAt(s, t) /\ RetainAt(par, s)
  BY DEF PathAt
<1>3. Sibling(Shr(t + 1, tau)) = Shr(t, tau)
  <2>1. Shr(t + 1, tau) = Shr(t, tau) + 1
    BY NextIndex
  <2>2. Shr(t, tau) \in Nat /\ Shr(t, tau) % 2 = 0
    BY <1>1, Parts DEF Bit
  <2> QED
    BY <2>1, <2>2 DEF Sibling
<1>4. ASSUME NEW h \in 0 .. TreeHeight - 1, h > tau
      PROVE  s.auth[h] = NodeAt(h, Sibling(Shr(t + 1, h)))
  <2>1. h \in tau + 1 .. TreeHeight + 1
    BY <1>1, <1>4
  <2>2. Shr(t + 1, h) = Shr(t, h)
    BY <2>1, NextIndex
  <2> QED
    BY <1>2, <2>2 DEF AuthAt
<1>5. CASE tau = 0
  <2> DEFINE leaf == gen_leaf_wots(RealSeed, TheTree, t)
  <2>1. 0 \in DOMAIN s.auth
    BY <1>1, <1>5
  <2>2. leaf = NodeAt(0, Shr(t, 0))
    BY <1>1, <1>5, Parts, NodesAre
  <2> HIDE DEF leaf
  <2>3. v.auth = [s.auth EXCEPT ![0] = leaf]
    BY <1>5, <2>1 DEF Put, leaf
  <2>4. ASSUME NEW h \in 0 .. TreeHeight - 1
        PROVE  v.auth[h] = NodeAt(h, Sibling(Shr(t + 1, h)))
    <3>1. CASE h = 0
      BY <1>1, <1>3, <1>5, <2>2, <2>3, <3>1
    <3>2. CASE h # 0
      <4>1. h > tau /\ v.auth[h] = s.auth[h]
        BY <1>1, <1>5, <2>3, <3>2
      <4> QED
        BY <1>4, <4>1
    <3> QED
      BY <3>1, <3>2
  <2> QED
    BY <1>1, <2>3, <2>4 DEF AuthAt
<1>6. CASE tau # 0
  <2>1. v.auth = NextPath(par, s, t, tau, RealSeed, TheTree)
    BY <1>6
  <2>2. DOMAIN v.auth = 0 .. TreeHeight - 1
    BY <1>1, <2>1 DEF NextPath
  <2>3. ASSUME NEW h \in 0 .. TreeHeight - 1
        PROVE  v.auth[h] =
                 IF h = tau
                 THEN thash_h(s.auth[tau - 1], s.keep[(tau - 1) \div 2],
                              RealSeed, TheTree, tau - 1, Shr(t, tau))
                 ELSE IF h > tau THEN s.auth[h]
                 ELSE IF h < Instances(par) THEN s.treehash[h].node
                 ELSE s.retain[RetainBase(h) + Shr(Shr(t, h) - 1, 1)]
    BY <1>1, <2>1, <2>3 DEF NextPath, RetainBase
  <2>4. ASSUME NEW h \in 0 .. TreeHeight - 1
        PROVE  v.auth[h] = NodeAt(h, Sibling(Shr(t + 1, h)))
    <3>1. CASE h = tau
      BY <1>2, <1>3, <1>6, <2>3, <3>1, NextLeft
    <3>2. CASE h > tau
      <4>1. h # tau
        BY <1>1, <3>2
      <4> QED
        BY <1>4, <2>3, <3>2, <4>1
    <3>3. CASE ~ h > tau /\ h # tau
      <4>1. h \in 0 .. tau - 1
        BY <1>1, <3>3
      <4> QED
        BY <1>2, <2>3, <3>3, <4>1, NextRight
    <3> QED
      BY <3>1, <3>2, <3>3
  <2> QED
    BY <2>2, <2>4 DEF AuthAt
<1> QED
  BY <1>5, <1>6

\* The nodes kept for the paths after that.
LEMMA RoundKeep ==
  ASSUME NEW par, NEW s, NEW t, At(par, s, t), NEW tau, MovesAt(t, tau),
         PathAt(par, s, t), NEW v,
         v.keep = IF Bit(t, tau + 1) = 0 /\ tau < TreeHeight - 1
                  THEN Put(s.keep, tau \div 2, s.auth[tau]) ELSE s.keep
  PROVE  KeepAt(v, t + 1) /\ DOMAIN v.keep = 0 .. (TreeHeight \div 2) - 1
<1>1. /\ TreeHeight \in Nat /\ tau \in 0 .. TreeHeight - 1 /\ t \in Nat
      /\ DOMAIN s.keep = 0 .. (TreeHeight \div 2) - 1
      /\ tau \in 0 .. TreeHeight + 1 /\ Bit(t, tau) = 0
  BY Powers DEF MovesAt, At, Shape, HasArrays
<1>2. AuthAt(s, t) /\ KeepAt(s, t)
  BY DEF PathAt
<1>3. s.auth[tau] = NodeAt(tau, Shr(t + 1, tau))
  <2>1. Shr(t + 1, tau) = Shr(t, tau) + 1
    BY NextIndex
  <2>2. Shr(t, tau) \in Nat /\ Shr(t, tau) % 2 = 0
    BY <1>1, Parts DEF Bit
  <2>3. Sibling(Shr(t, tau)) = Shr(t + 1, tau)
    BY <2>1, <2>2 DEF Sibling
  <2> QED
    BY <1>1, <1>2, <2>3 DEF AuthAt
<1> DEFINE C == Bit(t, tau + 1) = 0 /\ tau < TreeHeight - 1
<1>4. C => tau \div 2 \in DOMAIN s.keep
  BY <1>1
<1>5. /\ C => v.keep = [s.keep EXCEPT ![tau \div 2] = s.auth[tau]]
      /\ ~ C => v.keep = s.keep
  BY <1>4 DEF Put
<1>6. ASSUME NEW h \in 0 .. TreeHeight - 2, Bit(t + 1, h) = 1, Bit(t + 1, h + 1) = 0
      PROVE  v.keep[h \div 2] = NodeAt(h, Shr(t + 1, h))
  <2>1. h \in 0 .. tau - 1 \/ h = tau \/ h \in tau + 1 .. TreeHeight + 1
    BY <1>1
  <2>2. h \notin 0 .. tau - 1
    <3> SUFFICES ASSUME h \in 0 .. tau - 1
                 PROVE  FALSE
      OBVIOUS
    <3>1. Bit(t + 1, h) = 0
      BY NextIndex
    <3> QED
      BY <1>6, <3>1
  <2>3. CASE h = tau
    <3>1. tau + 1 \in tau + 1 .. TreeHeight + 1
      BY <1>1
    <3>2. Bit(t, tau + 1) = Bit(t + 1, tau + 1)
      BY <3>1, NextIndex
    <3>3. C
      BY <1>1, <1>6, <2>3, <3>2
    <3> HIDE DEF C
    <3>4. v.keep[tau \div 2] = s.auth[tau]
      BY <1>4, <1>5, <3>3
    <3> QED
      BY <1>3, <2>3, <3>4
  <2>4. CASE h \in tau + 1 .. TreeHeight + 1
    <3>1. h + 1 \in tau + 1 .. TreeHeight + 1
      BY <1>1, <2>4
    <3>2. Bit(t, h) = 1 /\ Bit(t, h + 1) = 0 /\ Shr(t + 1, h) = Shr(t, h)
      BY <1>6, <2>4, <3>1, NextIndex
    <3>3. s.keep[h \div 2] = NodeAt(h, Shr(t + 1, h))
      BY <1>2, <3>2 DEF KeepAt
    <3>4. CASE C
      <4>1. h # tau + 1
        BY <3>2, <3>4
      <4>2. h \div 2 # tau \div 2
        BY <1>1, <2>4, <4>1
      <4> HIDE DEF C
      <4>3. h \div 2 \in DOMAIN s.keep
        BY <1>1
      <4>4. v.keep[h \div 2] = s.keep[h \div 2]
        BY <1>5, <3>4, <4>2, <4>3
      <4> QED
        BY <3>3, <4>4
    <3>5. CASE ~ C
      BY <1>5, <3>3, <3>5
    <3> QED
      BY <3>4, <3>5
  <2> QED
    BY <2>1, <2>2, <2>3, <2>4
<1>7. DOMAIN v.keep = DOMAIN s.keep
  BY <1>5
<1> QED
  BY <1>1, <1>6, <1>7 DEF KeepAt

-----------------------------------------------------------------------------

(***************************************************************************)
(* A tree at index t, between two signatures: the traversal goes on, all   *)
(* updates of the index have been made, and the path is the one of t.      *)
(***************************************************************************)
Between(par, s, t) == At(par, s, t) /\ Sched(par, s, t, Updates(par)) /\ PathAt(par, s, t)

\* What xmss_core_sign does to the state before it is written.
AdvancedState(par, s, t) ==
  bds_treehash_update(par, bds_round(par, s, t, RealSeed, TheTree),
                      Shr(Instances(par), 1), RealSeed, TheTree).state

\* One signature moves the tree on to the next index.
LEMMA AdvancedIs ==
  ASSUME NEW par, Paired(par), NEW s, NEW t, Between(par, s, t), t < LastIndex
  PROVE  Between(par, AdvancedState(par, s, t), t + 1)
<1> DEFINE tau == Tau(par, t)
           v == bds_round(par, s, t, RealSeed, TheTree)
           n == Updates(par)
           u == bds_treehash_update(par, v, n, RealSeed, TheTree).state
<1>1. /\ At(par, s, t) /\ Sched(par, s, t, n) /\ PathAt(par, s, t)
      /\ Sized(par) /\ Shape(par, s) /\ t \in Nat
  BY DEF Between, At
<1>2. tau \in 0 .. TreeHeight - 1 /\ Full(t, tau) /\ Bit(t, tau) = 0
  <2> HIDE DEF tau
  <2> QED
    BY <1>1, TauIs DEF tau
<1>3. MovesAt(t, tau)
  BY <1>1, <1>2 DEF MovesAt
<1>4. tau = Tau(par, t) /\ v = bds_round(par, s, t, RealSeed, TheTree)
      /\ u = bds_treehash_update(par, v, n, RealSeed, TheTree).state
  OBVIOUS
<1> HIDE DEF tau, v, u, n
<1>5. /\ SameStack(s, v) /\ Restarts(s, t, tau, v) /\ HasFields(v)
      /\ v.keep = IF Bit(t, tau + 1) = 0 /\ tau < TreeHeight - 1
                  THEN Put(s.keep, tau \div 2, s.auth[tau]) ELSE s.keep
      /\ tau = 0 => v.auth = Put(s.auth, 0, gen_leaf_wots(RealSeed, TheTree, t))
      /\ tau # 0 => v.auth = NextPath(par, s, t, tau, RealSeed, TheTree)
  BY <1>1, <1>3, <1>4, RoundIs
<1>6. Idle(s, tau)
  <2>1. \A h \in Busy(s) : tau <= h
    BY <1>1, <1>3, IdleBelow DEF n
  <2> QED
    BY <2>1 DEF Idle
<1>7. HasInstances(par, v) /\ Traversal(v, t + 1)
  BY <1>1, <1>3, <1>5, <1>6, RestartsAre, RoundTraversal
<1>8. AuthAt(v, t + 1) /\ DOMAIN v.auth = 0 .. TreeHeight - 1
  BY <1>1, <1>3, <1>5, <1>6, RoundAuth
<1>9. KeepAt(v, t + 1) /\ DOMAIN v.keep = 0 .. (TreeHeight \div 2) - 1
  BY <1>1, <1>3, <1>5, RoundKeep
<1>10. HasArrays(par, v) /\ RetainAt(par, v)
  <2>1. HasArrays(par, s) /\ RetainAt(par, s)
    BY <1>1 DEF Shape, PathAt
  <2> QED
    BY <1>5, <1>8, <1>9, <2>1 DEF HasArrays, RetainAt, SameStack
<1>11. At(par, v, t + 1)
  BY <1>1, <1>5, <1>7, <1>10 DEF At, Shape
<1>12. Sched(par, v, t + 1, 0)
  BY <1>1, <1>3, <1>5, <1>6, <1>11, RoundSched DEF n
<1>13. n \in Nat /\ n <= 2^TreeHeight
  <2>1. Instances(par) \in 0 .. TreeHeight /\ TreeHeight \in Nat /\ TreeHeight < 2^TreeHeight
        /\ 2^TreeHeight \in Nat /\ Instances(par) \in Nat
    BY <1>1, InstancesNat, Powers, HeightBelowLeaves, LeavesNat
  <2>2. 1 \in 0 .. TreeHeight /\ 1 \in 0 .. TreeHeight + 1
    BY <2>1, Powers
  <2>3. /\ n \in Nat /\ 2^1 \in Nat \ {0} /\ Low(Instances(par), 1) \in 0 .. 2^1 - 1
        /\ Instances(par) = n * 2^1 + Low(Instances(par), 1)
    BY <2>1, <2>2, Parts DEF n, Updates
  <2> DEFINE b == 2^1
             m == Instances(par)
             r == Low(m, 1)
  <2>4. n \in Nat /\ b \in Nat \ {0} /\ r \in 0 .. b - 1 /\ m = n * b + r /\ m \in Nat
    BY <2>1, <2>3
  <2>5. m <= TreeHeight
    BY <2>1
  <2> HIDE DEF b, m, r
  <2>6. n <= n * b
    BY <2>4
  <2> QED
    BY <2>1, <2>4, <2>5, <2>6
<1>14. At(par, u, t + 1) /\ SamePath(v, u) /\ Sched(par, u, t + 1, n)
  <2> DEFINE T == t + 1
  <2>1. At(par, v, T) /\ Sched(par, v, T, 0)
    BY <1>11, <1>12
  <2> HIDE DEF T
  <2>2. At(par, u, T) /\ SamePath(v, u) /\ Sched(par, u, T, n)
    BY <1>4, <1>13, <2>1, Spent
  <2> QED
    BY <2>2 DEF T
<1>15. PathAt(par, u, t + 1)
  BY <1>8, <1>9, <1>10, <1>14 DEF PathAt, AuthAt, KeepAt, RetainAt, SamePath
<1> QED
  BY <1>4, <1>14, <1>15 DEF Between, AdvancedState, v, u, n, Updates

-----------------------------------------------------------------------------

(***************************************************************************)
(* The numbers of a state fit the fields they are written to: one byte for *)
(* a height, and an unsigned int for the number of a leaf.                 *)
(***************************************************************************)
Fits == TreeHeight < 256 /\ Leaves <= UINT_SPACE

\* Two states that differ in numbers that are not read again only.
Alike(s, v) ==
  /\ v.stack = s.stack /\ v.stackoffset = s.stackoffset /\ v.stacklevels = s.stacklevels
  /\ v.auth = s.auth /\ v.keep = s.keep /\ v.retain = s.retain
  /\ DOMAIN v = DOMAIN s /\ DOMAIN v.treehash = DOMAIN s.treehash
  /\ \A j \in DOMAIN s.treehash :
       /\ DOMAIN v.treehash[j] = DOMAIN s.treehash[j]
       /\ v.treehash[j].h = s.treehash[j].h
       /\ j \in Busy(s) => v.treehash[j].next_idx = s.treehash[j].next_idx
       /\ v.treehash[j].stackusage = s.treehash[j].stackusage
       /\ v.treehash[j].completed = s.treehash[j].completed
       /\ v.treehash[j].node = s.treehash[j].node

\* They are in the same place of the traversal.
LEMMA AlikeBetween ==
  ASSUME NEW par, NEW s, NEW t, Between(par, s, t), NEW v, Alike(s, v)
  PROVE  Between(par, v, t)
<1>1. /\ At(par, s, t) /\ Sched(par, s, t, Updates(par)) /\ PathAt(par, s, t)
      /\ Sized(par) /\ Shape(par, s) /\ t \in Nat /\ Traversal(s, t)
  BY DEF Between, At
<1>2. /\ DOMAIN v.treehash = DOMAIN s.treehash
      /\ \A j \in DOMAIN s.treehash :
           /\ j \in Busy(s) => v.treehash[j].next_idx = s.treehash[j].next_idx
           /\ v.treehash[j].completed = s.treehash[j].completed
  BY DEF Alike
<1>3. Busy(v) = Busy(s)
  BY <1>2 DEF Busy
<1>5. Busy(s) \subseteq DOMAIN s.treehash
  BY DEF Busy
<1>4. \A j \in Busy(s) : TailsOf(v, j) = TailsOf(s, j)
  BY <1>2, <1>5 DEF TailsOf
<1>6. Levels(v) = Levels(s)
  BY <1>3, <1>4, <1>5 DEF Levels
<1>7. Shape(par, v)
  <2>1. HasFields(v)
    BY <1>1 DEF Shape, HasFields, Alike
  <2>2. HasInstances(par, v)
    BY <1>1 DEF Shape, HasInstances, Alike
  <2>3. HasArrays(par, v)
    BY <1>1 DEF Shape, HasArrays, Alike
  <2> QED
    BY <2>1, <2>2, <2>3 DEF Shape
<1>8. OnStack(v.stacklevels, v.stackoffset, Levels(v))
  BY <1>1, <1>6 DEF Traversal, Alike
<1>9. TailNodes(v)
  <2> SUFFICES ASSUME NEW j \in Busy(v), NEW l \in TailsOf(v, j)
               PROVE  v.stack[Rank(Levels(v), l)] = NodeAt(l, Shr(v.treehash[j].next_idx, l) - 1)
    BY DEF TailNodes
  <2>1. j \in Busy(s) /\ l \in TailsOf(s, j) /\ v.treehash[j].next_idx = s.treehash[j].next_idx
    BY <1>2, <1>3, <1>4, <1>5
  <2>2. s.stack[Rank(Levels(s), l)] = NodeAt(l, Shr(s.treehash[j].next_idx, l) - 1)
    BY <1>1, <2>1 DEF Traversal, TailNodes
  <2> QED
    BY <1>6, <2>1, <2>2 DEF Alike
<1>10. Apart(v)
  <2>1. Apart(s)
    BY <1>1 DEF Traversal
  <2> QED
    BY <1>3, <1>4, <1>5, <2>1 DEF Apart
<1>11. ASSUME NEW j \in DOMAIN v.treehash
       PROVE  InstanceAt(v, t, j)
  <2>1. InstanceAt(s, t, j) /\ (j \in Busy(s) => TailsOf(v, j) = TailsOf(s, j))
    BY <1>1, <1>2, <1>4 DEF Traversal
  <2>2. /\ v.treehash[j].h = s.treehash[j].h
        /\ j \in Busy(s) => v.treehash[j].next_idx = s.treehash[j].next_idx
        /\ v.treehash[j].stackusage = s.treehash[j].stackusage
        /\ v.treehash[j].completed = s.treehash[j].completed
        /\ v.treehash[j].node = s.treehash[j].node
    BY <1>2 DEF Alike
  <2> QED
    BY <1>3, <2>1, <2>2 DEF InstanceAt
<1>12. At(par, v, t)
  BY <1>1, <1>7, <1>8, <1>9, <1>10, <1>11 DEF At, Traversal
<1>13. ASSUME NEW h \in Busy(s)
       PROVE  Load(par, v, t, h) = Load(par, s, t, h)
  <2>1. \A j \in DOMAIN s.treehash : Term(v, t, h, j) = Term(s, t, h, j)
    BY <1>2, <1>3 DEF Term, Done
  <2>2. Terms(v, t, h) = Terms(s, t, h)
    BY <1>2, <2>1 DEF Terms
  <2> QED
    BY <2>2 DEF Load
<1>14. Sched(par, v, t, Updates(par))
  BY <1>1, <1>3, <1>13 DEF Sched
<1>15. PathAt(par, v, t)
  BY <1>1 DEF PathAt, AuthAt, KeepAt, RetainAt, Alike
<1> QED
  BY <1>12, <1>14, <1>15 DEF Between

\* A state that is written and read back.
LEMMA SerializedIs ==
  ASSUME NEW par, NEW s, NEW t, Between(par, s, t), Fits
  PROVE  Alike(s, Serialized(s))
<1> DEFINE v == Serialized(s)
<1>1. /\ Sized(par) /\ Shape(par, s) /\ t \in Nat /\ Traversal(s, t)
      /\ TreeHeight \in Nat /\ TreeHeight < 256 /\ TreeHeight < Leaves /\ Leaves \in Nat
      /\ UINT_SPACE \in Nat \ {0} /\ Leaves <= UINT_SPACE /\ Leaves = 2^TreeHeight
  <2>1. TreeHeight \in Nat /\ Leaves \in Nat /\ Leaves = 2^TreeHeight
    BY Powers, LeavesNat
  <2>2. TreeHeight < 2^TreeHeight
    BY <2>1, HeightBelowLeaves
  <2> QED
    BY <2>1, <2>2, UnsignedAssumption DEF Between, At, Fits
<1>2. \A x \in Nat : x < Leaves => Unsigned(x) = x
  BY <1>1 DEF Unsigned
<1>3. \A x \in Nat : x <= TreeHeight => x % 256 = x
  BY <1>1
<1>6. /\ s.stackoffset \in Nat /\ s.stackoffset <= TreeHeight
      /\ s.stackoffset = Cardinality(Levels(s)) /\ Levels(s) \in Heights
  <2>1. s.stackoffset = Cardinality(Levels(s)) /\ Levels(s) \in Heights
        /\ (\A l \in Levels(s) : l < TreeHeight)
    BY <1>1, TailsAre DEF Traversal, OnStack, Shape
  <2>2. Levels(s) \subseteq 0 .. TreeHeight - 1
    BY <1>1, <2>1 DEF Heights
  <2>3. Cardinality(Levels(s)) <= Cardinality(0 .. TreeHeight - 1) /\ Cardinality(Levels(s)) \in Nat
    <3>1. IsFiniteSet(0 .. TreeHeight - 1)
      BY <1>1, FS_Interval
    <3>2. Cardinality(Levels(s)) <= Cardinality(0 .. TreeHeight - 1)
      BY <2>2, <3>1, FS_Subset
    <3> QED
      BY <2>1, <3>2, HeightsFinite
  <2>4. Cardinality(0 .. TreeHeight - 1) = TreeHeight
    BY <1>1, FS_Interval
  <2> QED
    BY <1>1, <2>1, <2>3, <2>4
<1>4. Unsigned(s.stackoffset) = s.stackoffset
  BY <1>1, <1>2, <1>6
<1>5. ASSUME NEW j \in DOMAIN s.treehash
      PROVE  /\ s.treehash[j].h % 256 = s.treehash[j].h
             /\ j \in Busy(s) => Unsigned(s.treehash[j].next_idx) = s.treehash[j].next_idx
             /\ s.treehash[j].stackusage % 256 = s.treehash[j].stackusage
             /\ s.treehash[j].completed % 256 = s.treehash[j].completed
  <2>1. InstanceAt(s, t, j) /\ j \in 0 .. TreeHeight - 1
    BY <1>1, TailsAre DEF Traversal, Shape
  <2>2. s.treehash[j].h % 256 = s.treehash[j].h
    BY <1>1, <1>3, <2>1 DEF InstanceAt
  <2>3. s.treehash[j].completed % 256 = s.treehash[j].completed
    <3>1. s.treehash[j].completed \in {0, 1}
      BY <2>1 DEF InstanceAt
    <3> QED
      BY <3>1
  <2>4. ASSUME j \in Busy(s)
        PROVE  Unsigned(s.treehash[j].next_idx) = s.treehash[j].next_idx
    <3> DEFINE x == s.treehash[j].next_idx
    <3>1. x \in Nat /\ Shr(x, j) = Wanted(t, j) /\ Wanted(t, j) < 2^(TreeHeight - j)
      BY <2>1, <2>4 DEF InstanceAt
    <3> HIDE DEF x
    <3>2. j \in 0 .. TreeHeight + 1 /\ j \in 0 .. TreeHeight
      BY <1>1, <2>1
    <3>3. /\ Shr(x, j) \in Nat /\ Low(x, j) \in 0 .. 2^j - 1 /\ 2^j \in Nat
          /\ x = Shr(x, j) * 2^j + Low(x, j)
      BY <3>1, <3>2, Parts
    <3>4. Low(x, j) \in Nat /\ Low(x, j) < 2^j
      BY <3>3
    <3>5. Shr(x, j) * 2^j + Low(x, j) < 2^TreeHeight
      BY <3>1, <3>2, <3>3, <3>4, ShrBelow
    <3>6. x < Leaves
      BY <1>1, <3>3, <3>5
    <3> QED
      BY <1>2, <3>1, <3>6 DEF x
  <2>5. s.treehash[j].stackusage \in Nat /\ s.treehash[j].stackusage <= TreeHeight
    <3>1. CASE j \in Busy(s)
      <4>1. TailsOf(s, j) \in SUBSET Levels(s)
        BY <1>1, <3>1, TailsAre DEF Shape
      <4>2. /\ Cardinality(TailsOf(s, j)) \in Nat
            /\ Cardinality(TailsOf(s, j)) <= Cardinality(Levels(s))
        BY <1>6, <4>1, HeightsFinite
      <4>3. s.treehash[j].stackusage = Cardinality(TailsOf(s, j))
        BY <2>1, <3>1 DEF InstanceAt
      <4> QED
        BY <1>1, <1>6, <4>2, <4>3
    <3>2. CASE j \notin Busy(s)
      BY <1>1, <2>1, <3>2 DEF InstanceAt
    <3> QED
      BY <3>1, <3>2
  <2> QED
    BY <1>3, <2>2, <2>3, <2>4, <2>5
<1>7. HasFields(s) /\ HasInstances(par, s)
  BY <1>1 DEF Shape
<1>8. /\ v.stack = s.stack /\ v.stacklevels = s.stacklevels /\ v.stackoffset = Unsigned(s.stackoffset)
      /\ v.auth = s.auth /\ v.keep = s.keep /\ v.retain = s.retain /\ DOMAIN v = DOMAIN s
      /\ v.treehash = [j \in DOMAIN s.treehash |-> StoredInstance(s.treehash[j])]
  BY <1>7 DEF Serialized, HasFields
<1> HIDE DEF v
<1>9. ASSUME NEW j \in DOMAIN s.treehash
      PROVE  /\ DOMAIN v.treehash[j] = DOMAIN s.treehash[j]
             /\ v.treehash[j].h = s.treehash[j].h % 256
             /\ v.treehash[j].next_idx = Unsigned(s.treehash[j].next_idx)
             /\ v.treehash[j].stackusage = s.treehash[j].stackusage % 256
             /\ v.treehash[j].completed = s.treehash[j].completed % 256
             /\ v.treehash[j].node = s.treehash[j].node
  <2>1. v.treehash[j] = StoredInstance(s.treehash[j])
    BY <1>8
  <2>2. {"h", "next_idx", "stackusage", "completed", "node"} \subseteq DOMAIN s.treehash[j]
    BY <1>7 DEF HasInstances
  <2> QED
    BY <2>1, <2>2 DEF StoredInstance
<1>10. DOMAIN v.treehash = DOMAIN s.treehash
  BY <1>8
<1>11. ASSUME NEW j \in DOMAIN s.treehash
       PROVE  /\ DOMAIN v.treehash[j] = DOMAIN s.treehash[j]
              /\ v.treehash[j].h = s.treehash[j].h
              /\ j \in Busy(s) => v.treehash[j].next_idx = s.treehash[j].next_idx
              /\ v.treehash[j].stackusage = s.treehash[j].stackusage
              /\ v.treehash[j].completed = s.treehash[j].completed
              /\ v.treehash[j].node = s.treehash[j].node
  BY <1>5, <1>9
<1>12. Alike(s, v)
  BY <1>4, <1>8, <1>10, <1>11 DEF Alike
<1> QED
  BY <1>12 DEF v

-----------------------------------------------------------------------------

(***************************************************************************)
(* The slots of retain, height by height from the top: 2^u - 1 of them for *)
(* the height u below the highest but one.                                 *)
(***************************************************************************)
Off(u) == 2^u - u - 1
OffsetsUpTo(b) == \A a \in 0 .. b : a < b => Off(a) + 2^a - 1 <= Off(b)

\* Each height comes after the ones above it.
LEMMA OffGrows ==
  /\ \A b \in 0 .. TreeHeight : OffsetsUpTo(b)
  /\ \A a \in 0 .. TreeHeight : Off(a) \in Nat /\ 2^a \in Nat \ {0}
<1>1. TreeHeight \in Nat
  BY Powers
<1>2. ASSUME NEW a \in 0 .. TreeHeight
      PROVE  Off(a) \in Nat /\ 2^a \in Nat \ {0}
  <2>1. a \in 0 .. TreeHeight + 1 /\ a \in Nat
    BY <1>1
  <2>2. 2^a \in Nat \ {0} /\ a < 2^a
    BY <2>1, Powers, HeightBelowLeaves
  <2> QED
    BY <2>1, <2>2 DEF Off
<1> DEFINE S == {b \in Nat : b <= TreeHeight => OffsetsUpTo(b)}
<1>3. 0 \in S
  BY DEF OffsetsUpTo
<1>4. ASSUME NEW b \in Nat, b \in S
      PROVE  b + 1 \in S
  <2> SUFFICES ASSUME b + 1 <= TreeHeight
               PROVE  OffsetsUpTo(b + 1)
    OBVIOUS
  <2>1. b \in 0 .. TreeHeight /\ OffsetsUpTo(b)
    BY <1>1, <1>4
  <2>2. Off(b) + 2^b - 1 = Off(b + 1) /\ 2^b \in Nat \ {0} /\ Off(b) \in Nat /\ Off(b + 1) \in Int
    <3>1. 2^(b + 1) = 2 * 2^b
      BY <2>1, Powers
    <3> QED
      BY <1>2, <2>1, <3>1 DEF Off
  <2>3. ASSUME NEW a \in 0 .. b + 1, a < b + 1
        PROVE  Off(a) + 2^a - 1 <= Off(b + 1)
    <3>1. CASE a = b
      BY <2>2, <3>1
    <3>2. CASE a # b
      <4>1. a \in 0 .. b /\ a < b /\ a \in 0 .. TreeHeight
        BY <1>1, <2>1, <2>3, <3>2
      <4>2. Off(a) + 2^a - 1 <= Off(b) /\ Off(a) \in Nat /\ 2^a \in Nat
        BY <1>2, <2>1, <4>1 DEF OffsetsUpTo
      <4> QED
        BY <2>2, <4>2
    <3> QED
      BY <3>1, <3>2
  <2> QED
    BY <2>3 DEF OffsetsUpTo
<1> HIDE DEF S
<1>5. ASSUME NEW b \in 0 .. TreeHeight
      PROVE  OffsetsUpTo(b)
  <2>1. b \in Nat /\ b <= TreeHeight
    BY <1>1
  <2>2. b \in S
    BY <1>3, <1>4, <2>1, Rules!SetInduction
  <2> QED
    BY <2>1, <2>2 DEF S
<1> QED
  BY <1>2, <1>5

\* Node i of those that retain keeps for height h.
InRetain(par, h, i) ==
  h \in 0 .. TreeHeight - 1 /\ Instances(par) <= h /\ i \in Nat /\ 2 * i + 3 < 2^(TreeHeight - h)

\* Its slot is one of its height, and exists.
LEMMA SlotIs ==
  ASSUME NEW par, Sized(par), NEW h, NEW i, InRetain(par, h, i)
  PROVE  /\ TreeHeight - 1 - h \in 0 .. par.bds_k - 1 /\ par.bds_k \in 0 .. TreeHeight
         /\ RetainBase(h) = Off(TreeHeight - 1 - h)
         /\ i < 2^(TreeHeight - 1 - h) - 1
         /\ RetainBase(h) + i \in 0 .. Retained(par) - 1
         /\ RetainSlot(par, h, 2 * i + 3) = RetainBase(h) + i
<1> DEFINE u == TreeHeight - 1 - h
           k == par.bds_k
<1>1. /\ TreeHeight \in Nat /\ k \in 0 .. TreeHeight /\ Instances(par) = TreeHeight - k
      /\ h \in 0 .. TreeHeight - 1 /\ Instances(par) <= h /\ i \in Nat
      /\ 2 * i + 3 < 2^(TreeHeight - h) /\ par.tree_height = TreeHeight
  BY Powers, InstancesNat DEF InRetain, Sized
<1>2. u \in 0 .. k - 1 /\ u + 1 = TreeHeight - h /\ u \in 0 .. TreeHeight
      /\ k \in 0 .. TreeHeight + 1
  BY <1>1
<1>3. RetainBase(h) = Off(u)
  <2>1. h - TreeHeight = - u - 1
    BY <1>1
  <2>2. 2^u \in Int
    BY <1>2, OffGrows
  <2> QED
    BY <1>1, <2>1, <2>2 DEF RetainBase, Off
<1> HIDE DEF u, k
<1>4. 2 * i + 3 < 2 * 2^u /\ 2^u \in Nat
  <2>1. 2^(u + 1) = 2 * 2^u /\ 2^u \in Nat
    BY <1>2, Powers, OffGrows
  <2> QED
    BY <1>1, <1>2, <2>1
<1>5. i < 2^u - 1
  BY <1>1, <1>4
<1>6. Off(u) + i \in 0 .. Off(k) - 1
  <2>1. k \in 0 .. TreeHeight /\ u \in 0 .. k /\ u < k
    BY <1>1, <1>2
  <2>2. Off(u) + 2^u - 1 <= Off(k) /\ Off(u) \in Nat /\ Off(k) \in Nat
    BY <1>1, <1>2, <2>1, OffGrows DEF OffsetsUpTo, k
  <2> QED
    BY <1>1, <1>4, <1>5, <2>2
<1>7. Retained(par) = Off(k)
  BY DEF Retained, Off, k
<1>8. RetainSlot(par, h, 2 * i + 3) = RetainBase(h) + i
  <2>1. (2 * i + 3) - 3 = 2 * i /\ (2 * i) \div 2 = i
    BY <1>1
  <2>2. 2^1 = 2
    <3>1. 0 \in 0 .. TreeHeight /\ 0 + 1 = 1
      BY <1>1
    <3>2. 2^(0 + 1) = 2 * 2^0 /\ 2^0 = 1
      BY <3>1, Powers
    <3> QED
      BY <3>1, <3>2
  <2>3. Shr((2 * i + 3) - 3, 1) = i
    BY <2>1, <2>2 DEF Shr
  <2> QED
    BY <1>1, <2>3 DEF RetainSlot, RetainBase
<1> QED
  BY <1>1, <1>2, <1>3, <1>5, <1>6, <1>7, <1>8 DEF u, k

\* No two nodes share a slot.
LEMMA SlotsDiffer ==
  ASSUME NEW par, Sized(par), NEW h, NEW i, InRetain(par, h, i), NEW g, NEW j, InRetain(par, g, j),
         RetainBase(h) + i = RetainBase(g) + j
  PROVE  h = g /\ i = j
<1> DEFINE u == TreeHeight - 1 - h
           v == TreeHeight - 1 - g
<1>1. /\ u \in 0 .. TreeHeight /\ RetainBase(h) = Off(u) /\ i < 2^u - 1 /\ i \in Nat
      /\ v \in 0 .. TreeHeight /\ RetainBase(g) = Off(v) /\ j < 2^v - 1 /\ j \in Nat
      /\ TreeHeight \in Nat /\ h \in Int /\ g \in Int
  <2>1. TreeHeight \in Nat /\ i \in Nat /\ j \in Nat /\ h \in 0 .. TreeHeight - 1
        /\ g \in 0 .. TreeHeight - 1
    BY Powers DEF InRetain
  <2>2. RetainBase(h) = Off(u) /\ i < 2^u - 1
    BY SlotIs
  <2>3. RetainBase(g) = Off(v) /\ j < 2^v - 1
    BY SlotIs
  <2> QED
    BY <2>1, <2>2, <2>3
<1>2. u = v => h = g
  BY <1>1
<1> HIDE DEF u, v
<1>3. Off(u) \in Nat /\ Off(v) \in Nat /\ 2^u \in Nat /\ 2^v \in Nat
  BY <1>1, OffGrows
<1>4. u < v => Off(u) + 2^u - 1 <= Off(v)
  BY <1>1, OffGrows DEF OffsetsUpTo
<1>5. v < u => Off(v) + 2^v - 1 <= Off(u)
  BY <1>1, OffGrows DEF OffsetsUpTo
<1>6. u = v
  BY <1>1, <1>3, <1>4, <1>5
<1> QED
  BY <1>1, <1>2, <1>3, <1>6

-----------------------------------------------------------------------------

\* A state while its tree is built: the instances are complete.
Form(par, s) ==
  /\ Shape(par, s)
  /\ \A j \in DOMAIN s.treehash :
       s.treehash[j].h = j /\ s.treehash[j].completed = 1 /\ s.treehash[j].stackusage = 0

\* The right node pos of height h is where the traversal will look for it.
Kept(par, s, h, pos) ==
  /\ pos = 1 => s.auth[h] = NodeAt(h, 1)
  /\ pos = 3 /\ h < Instances(par) => s.treehash[h].node = NodeAt(h, 3)
  /\ pos # 1 /\ Instances(par) <= h => s.retain[RetainSlot(par, h, pos)] = NodeAt(h, pos)

\* Right node 2 i + 1 of height h.
IsRight(h, i) == h \in 0 .. TreeHeight - 1 /\ i \in Nat /\ 2 * i + 1 < 2^(TreeHeight - h)

\* A right node but the first, in the top heights.
LEMMA RightSlot ==
  ASSUME NEW par, Sized(par), NEW h, NEW i, IsRight(h, i), i # 0, Instances(par) <= h
  PROVE  /\ i - 1 \in Nat /\ InRetain(par, h, i - 1)
         /\ RetainSlot(par, h, 2 * i + 1) = RetainBase(h) + (i - 1)
         /\ RetainBase(h) + (i - 1) \in 0 .. Retained(par) - 1
<1> DEFINE l == i - 1
<1>1. l \in Nat /\ 2 * i + 1 = 2 * l + 3
  BY DEF IsRight
<1> HIDE DEF l
<1>2. InRetain(par, h, l)
  BY <1>1 DEF IsRight, InRetain
<1>3. RetainSlot(par, h, 2 * l + 3) = RetainBase(h) + l /\ RetainBase(h) + l \in 0 .. Retained(par) - 1
  BY <1>2, SlotIs
<1> QED
  BY <1>1, <1>2, <1>3 DEF l

\* Save keeps a right node, and all that was kept.
LEMMA SaveIs ==
  ASSUME NEW par, Sized(par), NEW s, Form(par, s), NEW h, NEW i, IsRight(h, i),
         NEW pos, pos = 2 * i + 1,
         NEW u, u = Save(par, s, h, pos, NodeAt(h, pos))
  PROVE  /\ Form(par, u) /\ Kept(par, u, h, pos)
         /\ \A g, j : IsRight(g, j) /\ Kept(par, s, g, 2 * j + 1) => Kept(par, u, g, 2 * j + 1)
         /\ u.stack = s.stack /\ u.stacklevels = s.stacklevels /\ u.stackoffset = s.stackoffset
<1> DEFINE m == Instances(par)
           x == NodeAt(h, pos)
           slot == RetainSlot(par, h, pos)
<1>1. /\ TreeHeight \in Nat /\ m \in 0 .. TreeHeight /\ h \in 0 .. TreeHeight - 1 /\ i \in Nat
      /\ pos \in Nat /\ HasFields(s) /\ HasInstances(par, s) /\ HasArrays(par, s)
      /\ DOMAIN s.treehash = 0 .. m - 1 /\ DOMAIN s.auth = 0 .. TreeHeight - 1
      /\ DOMAIN s.retain = 0 .. Retained(par) - 1
  BY Powers, InstancesNat DEF IsRight, Form, Shape, HasInstances, HasArrays
<1>2. u = IF pos = 1 THEN [s EXCEPT !.auth = Put(@, h, x)]
          ELSE IF h < m /\ pos = 3 THEN [s EXCEPT !.treehash[h].node = x]
          ELSE IF h >= m THEN [s EXCEPT !.retain = Put(@, slot, x)]
          ELSE s
  BY DEF Save
<1> HIDE DEF x, slot
<1>3. CASE pos = 1
  <2>1. u = [s EXCEPT !.auth = [s.auth EXCEPT ![h] = x]]
    BY <1>1, <1>2, <1>3 DEF Put
  <2>2. /\ u.auth = [s.auth EXCEPT ![h] = x] /\ u.treehash = s.treehash /\ u.retain = s.retain
        /\ u.stack = s.stack /\ u.stacklevels = s.stacklevels /\ u.stackoffset = s.stackoffset
        /\ u.keep = s.keep /\ DOMAIN u = DOMAIN s
    BY <1>1, <2>1 DEF HasFields
  <2>3. DOMAIN u.auth = DOMAIN s.auth /\ u.auth[h] = x
        /\ \A g \in 0 .. TreeHeight - 1 : g # h => u.auth[g] = s.auth[g]
    BY <1>1, <2>2
  <2>4. Form(par, u)
    <3>1. HasFields(u) /\ HasArrays(par, u)
      BY <1>1, <2>2, <2>3 DEF HasFields, HasArrays
    <3>2. HasInstances(par, u)
      BY <1>1, <2>2 DEF HasInstances
    <3> QED
      BY <2>2, <3>1, <3>2 DEF Form, Shape
  <2>5. Kept(par, u, h, pos)
    BY <1>3, <2>3 DEF Kept, x
  <2>6. ASSUME NEW g, NEW j, IsRight(g, j), Kept(par, s, g, 2 * j + 1)
        PROVE  Kept(par, u, g, 2 * j + 1)
    <3>1. g \in 0 .. TreeHeight - 1
      BY <2>6 DEF IsRight
    <3>2. 2 * j + 1 = 1 => u.auth[g] = NodeAt(g, 1)
      BY <1>3, <2>3, <2>6, <3>1 DEF Kept, x
    <3> QED
      BY <2>2, <2>6, <3>2 DEF Kept
  <2> QED
    BY <2>2, <2>4, <2>5, <2>6
<1>4. CASE pos # 1 /\ h < m /\ pos = 3
  <2>1. u = [s EXCEPT !.treehash[h].node = x]
    BY <1>2, <1>4
  <2>2. h \in DOMAIN s.treehash /\ ~ m <= h
    BY <1>1, <1>4
  <2>3. /\ u.auth = s.auth /\ u.retain = s.retain
        /\ u.stack = s.stack /\ u.stacklevels = s.stacklevels /\ u.stackoffset = s.stackoffset
        /\ u.keep = s.keep /\ DOMAIN u = DOMAIN s
        /\ u.treehash = [s.treehash EXCEPT ![h].node = x]
    BY <1>1, <2>1 DEF HasFields
  <2>4. {"h", "next_idx", "stackusage", "completed", "node"} \subseteq DOMAIN s.treehash[h]
    BY <1>1, <2>2 DEF HasInstances
  <2>5. /\ DOMAIN u.treehash = DOMAIN s.treehash
        /\ \A j \in DOMAIN s.treehash \ {h} : u.treehash[j] = s.treehash[j]
        /\ u.treehash[h] = [s.treehash[h] EXCEPT !.node = x]
    BY <2>2, <2>3
  <2>6. /\ u.treehash[h].node = x /\ DOMAIN u.treehash[h] = DOMAIN s.treehash[h]
        /\ u.treehash[h].h = s.treehash[h].h /\ u.treehash[h].completed = s.treehash[h].completed
        /\ u.treehash[h].stackusage = s.treehash[h].stackusage
    BY <2>4, <2>5
  <2>7. Form(par, u)
    <3>1. HasInstances(par, u)
      <4>1. ASSUME NEW j \in DOMAIN s.treehash
            PROVE  {"h", "next_idx", "stackusage", "completed", "node"} \subseteq DOMAIN u.treehash[j]
        <5>1. {"h", "next_idx", "stackusage", "completed", "node"} \subseteq DOMAIN s.treehash[j]
          BY <1>1 DEF HasInstances
        <5>2. DOMAIN u.treehash[j] = DOMAIN s.treehash[j]
          BY <2>5, <2>6
        <5> QED
          BY <5>1, <5>2
      <4> QED
        BY <1>1, <2>5, <4>1, ZenonT(60) DEF HasInstances
    <3>2. HasFields(u) /\ HasArrays(par, u)
      BY <1>1, <2>3 DEF HasFields, HasArrays
    <3>3. \A j \in DOMAIN u.treehash :
            u.treehash[j].h = j /\ u.treehash[j].completed = 1 /\ u.treehash[j].stackusage = 0
      BY <2>5, <2>6 DEF Form
    <3> QED
      BY <3>1, <3>2, <3>3 DEF Form, Shape
  <2>8. Kept(par, u, h, pos)
    BY <1>4, <2>2, <2>6 DEF Kept, x
  <2>9. ASSUME NEW g, NEW j, IsRight(g, j), Kept(par, s, g, 2 * j + 1)
        PROVE  Kept(par, u, g, 2 * j + 1)
    <3>1. g \in 0 .. TreeHeight - 1
      BY <2>9 DEF IsRight
    <3>2. 2 * j + 1 = 3 /\ g < m => u.treehash[g].node = NodeAt(g, 3)
      <4> SUFFICES ASSUME 2 * j + 1 = 3, g < m
                   PROVE  u.treehash[g].node = NodeAt(g, 3)
        OBVIOUS
      <4>1. g \in DOMAIN s.treehash
        BY <1>1, <3>1
      <4>2. CASE g = h
        BY <1>4, <2>6, <4>2 DEF x
      <4>3. CASE g # h
        BY <2>5, <2>9, <4>1, <4>3 DEF Kept
      <4> QED
        BY <4>2, <4>3
    <3> QED
      BY <2>3, <2>9, <3>2 DEF Kept
  <2> QED
    BY <2>3, <2>7, <2>8, <2>9
<1>5. CASE pos # 1 /\ m <= h
  <2>1. u = [s EXCEPT !.retain = Put(@, slot, x)]
    BY <1>1, <1>2, <1>5
  <2>2. i # 0 /\ Instances(par) <= h
    BY <1>1, <1>5
  <2>3. /\ InRetain(par, h, i - 1) /\ slot = RetainBase(h) + (i - 1) /\ slot \in DOMAIN s.retain
    BY <1>1, <2>2, RightSlot DEF slot
  <2>4. /\ u.auth = s.auth /\ u.treehash = s.treehash
        /\ u.stack = s.stack /\ u.stacklevels = s.stacklevels /\ u.stackoffset = s.stackoffset
        /\ u.keep = s.keep /\ DOMAIN u = DOMAIN s
        /\ u.retain = [s.retain EXCEPT ![slot] = x]
    BY <1>1, <2>1, <2>3 DEF HasFields, Put
  <2>5. DOMAIN u.retain = DOMAIN s.retain /\ u.retain[slot] = x
        /\ \A q \in DOMAIN s.retain : q # slot => u.retain[q] = s.retain[q]
    BY <2>3, <2>4
  <2>6. Form(par, u)
    <3>1. HasFields(u) /\ HasArrays(par, u)
      <4>1. HasFields(u)
        BY <1>1, <2>4 DEF HasFields
      <4>2. HasArrays(par, u)
        BY <1>1, <2>4, <2>5 DEF HasArrays
      <4> QED
        BY <4>1, <4>2
    <3>2. HasInstances(par, u)
      <4>1. HasInstances(par, s) /\ u.treehash = s.treehash
        BY <1>1, <2>4
      <4> QED
        BY <4>1 DEF HasInstances
    <3> QED
      BY <2>4, <3>1, <3>2 DEF Form, Shape
  <2>7. Kept(par, u, h, pos)
    <3>1. ~ h < m
      BY <1>1, <1>5
    <3> QED
      BY <1>5, <2>5, <3>1 DEF Kept, slot, x
  <2>8. ASSUME NEW g, NEW j, IsRight(g, j), Kept(par, s, g, 2 * j + 1)
        PROVE  Kept(par, u, g, 2 * j + 1)
    <3>1. 2 * j + 1 # 1 /\ m <= g =>
            u.retain[RetainSlot(par, g, 2 * j + 1)] = NodeAt(g, 2 * j + 1)
      <4> SUFFICES ASSUME 2 * j + 1 # 1, m <= g
                   PROVE  u.retain[RetainSlot(par, g, 2 * j + 1)] = NodeAt(g, 2 * j + 1)
        OBVIOUS
      <4>1. j # 0 /\ Instances(par) <= g /\ j \in Nat
        BY <2>8 DEF IsRight
      <4> DEFINE q == RetainSlot(par, g, 2 * j + 1)
      <4>2. InRetain(par, g, j - 1) /\ q = RetainBase(g) + (j - 1) /\ q \in DOMAIN s.retain
        BY <1>1, <2>8, <4>1, RightSlot
      <4>3. s.retain[q] = NodeAt(g, 2 * j + 1)
        BY <2>8, <4>1 DEF Kept
      <4> HIDE DEF q
      <4>4. CASE q = slot
        <5> DEFINE a == i - 1
                   b == j - 1
        <5>1. InRetain(par, h, a) /\ InRetain(par, g, b) /\ RetainBase(h) + a = RetainBase(g) + b
          BY <2>3, <4>2, <4>4
        <5>2. a \in Int /\ b \in Int /\ i = a + 1 /\ j = b + 1
          BY <1>1, <4>1
        <5> HIDE DEF a, b
        <5>3. h = g /\ a = b
          BY <5>1, SlotsDiffer
        <5>4. h = g /\ i = j
          BY <5>2, <5>3
        <5> QED
          BY <2>5, <4>4, <5>4 DEF x, q
      <4>5. CASE q # slot
        BY <2>5, <4>2, <4>3, <4>5 DEF q
      <4> QED
        BY <4>4, <4>5
    <3> QED
      BY <2>4, <2>8, <3>1 DEF Kept
  <2> QED
    BY <2>4, <2>6, <2>7, <2>8
<1>6. CASE pos # 1 /\ h < m /\ pos # 3
  <2>1. u = s /\ ~ m <= h
    BY <1>1, <1>2, <1>6
  <2> QED
    BY <1>6, <2>1 DEF Kept
<1> QED
  BY <1>1, <1>3, <1>4, <1>5, <1>6

-----------------------------------------------------------------------------

\* The heights of the nodes on the stack after n leaves.
Bits(n) == {l \in 0 .. TreeHeight : Bit(n, l) = 1}
Above(n, c) == {l \in Bits(n) : c <= l}

\* The right nodes that n leaves complete, and those being merged at leaf n.
KeptBefore(par, s, n) ==
  \A h, i : IsRight(h, i) /\ 2 * i + 1 < Shr(n, h) => Kept(par, s, h, 2 * i + 1)
KeptUnder(par, s, n, c) ==
  \A h, i : IsRight(h, i) /\ h < c /\ 2 * i + 1 = Shr(n, h) => Kept(par, s, h, 2 * i + 1)

\* The nodes on the stack, each the last complete one of its height.
NodesOf(s, n, L) == \A l \in L : s.stack[Rank(L, l)] = NodeAt(l, Shr(n, l) - 1)

(***************************************************************************)
(* The state after n leaves, and after leaf n and c merges.                *)
(***************************************************************************)
Built(par, s, n) ==
  /\ Form(par, s) /\ KeptBefore(par, s, n)
  /\ OnStack(s.stacklevels, s.stackoffset, Bits(n))
  /\ NodesOf(s, n, Bits(n))

Merged(par, s, n, c) ==
  /\ Form(par, s) /\ KeptBefore(par, s, n) /\ KeptUnder(par, s, n, c)
  /\ Full(n, c)
  /\ OnStack(s.stacklevels, s.stackoffset - 1, Above(n, c))
  /\ s.stackoffset \in Nat
  /\ NodesOf(s, n, Above(n, c))
  /\ s.stacklevels[s.stackoffset - 1] = c
  /\ s.stack[s.stackoffset - 1] = NodeAt(c, Shr(n, c))

\* A leaf of the tree has no bit at its height.
LEMMA LeafBits ==
  ASSUME NEW n \in Nat, n < 2^TreeHeight
  PROVE  /\ Bit(n, TreeHeight) = 0
         /\ \A c : /\ Above(n, c) \in Heights /\ Above(n, c) \subseteq 0 .. TreeHeight - 1
                   /\ Cardinality(Above(n, c)) <= TreeHeight
                   /\ \A l \in Above(n, c) : Bit(n, l) = 1 /\ c <= l
<1>1. TreeHeight \in Nat /\ TreeHeight \in 0 .. TreeHeight + 1
  BY Powers
<1>2. 2^TreeHeight \in Nat
  BY <1>1, Powers
<1>3. 0 * 2^TreeHeight + n = n
  BY <1>2
<1>4. Shr(n, TreeHeight) = 0
  BY <1>1, <1>3, PartsUnique
<1>5. Bit(n, TreeHeight) = 0
  BY <1>4 DEF Bit
<1>6. ASSUME NEW c
      PROVE  /\ Above(n, c) \in Heights /\ Above(n, c) \subseteq 0 .. TreeHeight - 1
             /\ Cardinality(Above(n, c)) <= TreeHeight
  <2>1. Above(n, c) \subseteq 0 .. TreeHeight
    BY DEF Above, Bits
  <2>2. Above(n, c) \in Heights
    BY <2>1 DEF Heights
  <2>3. TreeHeight \notin Above(n, c)
    BY <1>5 DEF Above, Bits
  <2>4. Above(n, c) \subseteq 0 .. TreeHeight - 1
    BY <1>1, <2>1, <2>3
  <2>5. IsFiniteSet(0 .. TreeHeight - 1) /\ Cardinality(0 .. TreeHeight - 1) = TreeHeight
    BY <1>1, FS_Interval
  <2> QED
    BY <2>2, <2>4, <2>5, FS_Subset, ZenonT(60)
<1>7. \A c : \A l \in Above(n, c) : Bit(n, l) = 1 /\ c <= l
  BY DEF Above, Bits
<1> QED
  BY <1>5, <1>6, <1>7

\* The two topmost nodes make a pair just if n has the bit.
LEMMA PairIs ==
  ASSUME NEW par, NEW w, NEW n \in Nat, n < 2^TreeHeight, NEW c \in 0 .. TreeHeight,
         Merged(par, w, n, c)
  PROVE  TopPair(w) <=> Bit(n, c) = 1
<1> DEFINE A == Above(n, c)
           o == w.stackoffset - 1
<1>1. A \in Heights /\ (\A l \in A : Bit(n, l) = 1 /\ c <= l)
  BY LeafBits
<1>2. OnStack(w.stacklevels, o, A) /\ w.stackoffset \in Nat /\ w.stacklevels[o] = c
  BY DEF Merged
<1>3. TopPair(w) <=> w.stackoffset > 1 /\ w.stacklevels[o] = w.stacklevels[w.stackoffset - 2]
  BY DEF TopPair
<1>4. w.stackoffset - 2 = o - 1 /\ (w.stackoffset > 1 <=> o > 0) /\ TreeHeight \in Nat
  BY <1>2, Powers
<1>5. Bit(n, c) = 1 => c \in A
  BY <1>4 DEF Above, Bits
<1> HIDE DEF A, o
<1>6. CASE Bit(n, c) = 1
  <2>1. o > 0 /\ w.stacklevels[o - 1] = c
    BY <1>1, <1>2, <1>5, <1>6, StackTop
  <2> QED
    BY <1>2, <1>3, <1>4, <1>6, <2>1
<1>7. CASE Bit(n, c) # 1
  <2>1. CASE A = {}
    <3>1. o = 0
      BY <1>2, <2>1, FS_EmptySet DEF OnStack
    <3> QED
      BY <1>3, <1>4, <1>7, <3>1
  <2>2. CASE A # {}
    <3>1. w.stacklevels[o - 1] \in A
      BY <1>1, <1>2, <2>2, StackLow
    <3>2. w.stacklevels[o - 1] # c
      BY <1>1, <1>7, <3>1
    <3> QED
      BY <1>2, <1>3, <1>4, <1>7, <3>2
  <2> QED
    BY <2>1, <2>2
<1> QED
  BY <1>6, <1>7

\* Equal levels hold the same heights.
LEMMA StackSame ==
  ASSUME NEW L \in Heights, NEW a, NEW o, OnStack(a, o, L), NEW b, \A q \in 0 .. o - 1 : b[q] = a[q]
  PROVE  OnStack(b, o, L) /\ \A l \in L : Rank(L, l) \in 0 .. o - 1
<1>1. o = Cardinality(L) /\ o \in Nat
  BY HeightsFinite DEF OnStack
<1>2. \A l \in L : Rank(L, l) \in 0 .. o - 1
  <2> SUFFICES ASSUME NEW l \in L
               PROVE  Rank(L, l) \in 0 .. o - 1
    OBVIOUS
  <2>1. Rank(L, l) \in Nat /\ Rank(L, l) < Cardinality(L)
    BY RankOrder
  <2> QED
    BY <1>1, <2>1
<1> QED
  BY <1>1, <1>2 DEF OnStack

\* One merge.
LEMMA MergeIs ==
  ASSUME NEW par, Sized(par), NEW w, NEW n \in Nat, n < 2^TreeHeight, NEW c \in 0 .. TreeHeight,
         Merged(par, w, n, c), Bit(n, c) = 1, NEW u, u = Merge(par, w, RealSeed, TheTree, n)
  PROVE  c + 1 \in 0 .. TreeHeight /\ Merged(par, u, n, c + 1)
<1> DEFINE A == Above(n, c)
           top == w.stackoffset - 1
           pos == Shr(n, c)
           i == Shr(n, c + 1)
           kept == Save(par, w, c, pos, w.stack[top])
           node == thash_h(w.stack[top - 1], w.stack[top], RealSeed, TheTree, c, i)
<1>1. /\ TreeHeight \in Nat /\ c \in 0 .. TreeHeight - 1 /\ c + 1 \in 0 .. TreeHeight
      /\ c \in 0 .. TreeHeight + 1 /\ c + 1 \in 0 .. TreeHeight + 1
  <2>1. TreeHeight \in Nat /\ c # TreeHeight
    BY Powers, LeafBits
  <2> QED
    BY <2>1
<1>2. /\ Form(par, w) /\ KeptBefore(par, w, n) /\ KeptUnder(par, w, n, c) /\ Full(n, c)
      /\ OnStack(w.stacklevels, top, A) /\ top \in Int /\ NodesOf(w, n, A)
      /\ w.stacklevels[top] = c /\ w.stack[top] = NodeAt(c, pos)
  BY DEF Merged
<1>3. A \in Heights /\ Cardinality(A) <= TreeHeight /\ c \in A /\ \A l \in A : c <= l
  <2>1. A \in Heights /\ Cardinality(A) <= TreeHeight /\ \A l \in A : c <= l
    BY LeafBits
  <2>2. c \in A
    BY <1>1 DEF Above, Bits
  <2> QED
    BY <2>1, <2>2
<1>4. pos = 2 * i + 1 /\ i \in Nat /\ 2 * i = pos - 1
  <2>1. pos = 2 * i + Bit(n, c)
    BY <1>1, PartsUp
  <2>2. i \in Nat
    BY <1>1, Parts
  <2> HIDE DEF pos, i
  <2> QED
    BY <2>1, <2>2
<1>5. IsRight(c, i)
  <2>1. /\ pos \in Nat /\ Low(n, c) \in 0 .. 2^c - 1 /\ 2^c \in Nat /\ n = pos * 2^c + Low(n, c)
    BY <1>1, Parts
  <2>2. Low(n, c) \in Nat /\ Low(n, c) < 2^c
    BY <2>1
  <2> HIDE DEF pos
  <2>3. pos < 2^(TreeHeight - c)
    BY <1>1, <2>1, <2>2, ShrBelow
  <2> HIDE DEF i
  <2> QED
    BY <1>1, <1>4, <2>3 DEF IsRight
<1>6. u = [kept EXCEPT !.stack = Put(@, top - 1, node), !.stacklevels = Put(@, top - 1, c + 1),
                       !.stackoffset = top]
  BY <1>2 DEF Merge
<1>7. kept = Save(par, w, c, pos, NodeAt(c, pos))
  BY <1>2
<1>8. i = Shr(n, c + 1)
  OBVIOUS
<1> HIDE DEF A, top, pos, i, kept, node
<1>9. /\ Form(par, kept) /\ Kept(par, kept, c, pos)
      /\ \A g, j : IsRight(g, j) /\ Kept(par, w, g, 2 * j + 1) => Kept(par, kept, g, 2 * j + 1)
      /\ kept.stack = w.stack /\ kept.stacklevels = w.stacklevels
      /\ kept.stackoffset = w.stackoffset
  BY <1>2, <1>4, <1>5, <1>7, SaveIs
<1>10. /\ top \in Nat /\ top > 0 /\ Rank(A, c) = top - 1 /\ top <= TreeHeight
       /\ OnStack(w.stacklevels, top - 1, A \ {c})
       /\ \A l \in A \ {c} : Rank(A \ {c}, l) = Rank(A, l)
  <2>1. top \in Nat /\ top > 0 /\ Rank(A, c) = top - 1
    BY <1>2, <1>3, StackTop
  <2>2. OnStack(w.stacklevels, top - 1, A \ {c}) /\ \A l \in A \ {c} : Rank(A \ {c}, l) = Rank(A, l)
    BY <1>2, <1>3, StackPop
  <2>3. top = Cardinality(A)
    BY <1>2 DEF OnStack
  <2> QED
    BY <1>3, <2>1, <2>2, <2>3
<1>11. node = NodeAt(c + 1, i)
  <2>1. w.stack[top - 1] = NodeAt(c, 2 * i)
    BY <1>2, <1>3, <1>4, <1>10 DEF NodesOf, pos
  <2>2. w.stack[top] = NodeAt(c, 2 * i + 1)
    BY <1>2, <1>4
  <2> QED
    BY <2>1, <2>2, NodesAre DEF node
<1>12. top - 1 \in 0 .. TreeHeight
  BY <1>1, <1>10
<1>13. HasFields(kept) /\ HasInstances(par, kept) /\ HasArrays(par, kept)
       /\ DOMAIN kept.stack = 0 .. TreeHeight /\ DOMAIN kept.stacklevels = 0 .. TreeHeight
  BY <1>9 DEF Form, Shape, HasArrays
<1>14. u = [kept EXCEPT !.stack = [kept.stack EXCEPT ![top - 1] = node],
                        !.stacklevels = [kept.stacklevels EXCEPT ![top - 1] = c + 1],
                        !.stackoffset = top]
  BY <1>6, <1>12, <1>13 DEF Put
<1>15. /\ u.stack = [kept.stack EXCEPT ![top - 1] = node]
       /\ u.stacklevels = [kept.stacklevels EXCEPT ![top - 1] = c + 1]
       /\ u.stackoffset = top /\ u.auth = kept.auth /\ u.keep = kept.keep
       /\ u.treehash = kept.treehash /\ u.retain = kept.retain /\ DOMAIN u = DOMAIN kept
  BY <1>13, <1>14 DEF HasFields
<1>16. /\ DOMAIN u.stack = 0 .. TreeHeight /\ DOMAIN u.stacklevels = 0 .. TreeHeight
       /\ u.stack[top - 1] = node /\ u.stacklevels[top - 1] = c + 1
       /\ \A q \in 0 .. TreeHeight : q # top - 1 =>
            u.stack[q] = w.stack[q] /\ u.stacklevels[q] = w.stacklevels[q]
  <2>1. /\ u.stack = [kept.stack EXCEPT ![top - 1] = node]
        /\ u.stacklevels = [kept.stacklevels EXCEPT ![top - 1] = c + 1]
        /\ kept.stack = w.stack /\ kept.stacklevels = w.stacklevels
        /\ DOMAIN kept.stack = 0 .. TreeHeight /\ DOMAIN kept.stacklevels = 0 .. TreeHeight
    BY <1>9, <1>13, <1>15
  <2> DEFINE k == top - 1
             N == 0 .. TreeHeight
  <2>2. k \in N
    BY <1>12
  <2> HIDE DEF k, N
  <2>3. /\ u.stack = [w.stack EXCEPT ![k] = node]
        /\ u.stacklevels = [w.stacklevels EXCEPT ![k] = c + 1]
        /\ DOMAIN w.stack = N /\ DOMAIN w.stacklevels = N
    BY <2>1 DEF k, N
  <2>4. /\ DOMAIN u.stack = N /\ DOMAIN u.stacklevels = N
        /\ u.stack[k] = node /\ u.stacklevels[k] = c + 1
        /\ \A q \in N : q # k => u.stack[q] = w.stack[q] /\ u.stacklevels[q] = w.stacklevels[q]
    BY <2>2, <2>3
  <2> QED
    BY <2>4 DEF k, N
<1>17. Form(par, u)
  <2>1. HasFields(u)
    BY <1>13, <1>15 DEF HasFields
  <2>2. HasInstances(par, u)
    <3>1. HasInstances(par, kept) /\ u.treehash = kept.treehash
      BY <1>13, <1>15
    <3> QED
      BY <3>1 DEF HasInstances
  <2>3. HasArrays(par, u)
    BY <1>13, <1>15, <1>16 DEF HasArrays
  <2> QED
    BY <1>9, <1>15, <2>1, <2>2, <2>3 DEF Form, Shape
<1>18. \A g, q : Kept(par, kept, g, q) => Kept(par, u, g, q)
  BY <1>15 DEF Kept
<1>19. KeptBefore(par, u, n)
  BY <1>2, <1>9, <1>18 DEF KeptBefore
<1>20. KeptUnder(par, u, n, c + 1)
  <2> SUFFICES ASSUME NEW h, NEW j, IsRight(h, j), h < c + 1, 2 * j + 1 = Shr(n, h)
               PROVE  Kept(par, u, h, 2 * j + 1)
    BY DEF KeptUnder
  <2>1. h \in 0 .. TreeHeight - 1
    BY DEF IsRight
  <2>2. CASE h = c
    BY <1>9, <1>18, <2>2 DEF pos
  <2>3. CASE h # c
    <3>1. h < c
      BY <1>1, <2>1, <2>3
    <3> QED
      BY <1>2, <1>9, <1>18, <3>1 DEF KeptUnder
  <2> QED
    BY <2>2, <2>3
<1>21. Full(n, c + 1)
  BY <1>2, FullUp
<1>22. Above(n, c + 1) = A \ {c}
  BY <1>1 DEF A, Above, Bits
<1> DEFINE M == A \ {c}
           o == top - 1
<1>23. M \in Heights
  BY <1>3 DEF Heights
<1>24. \A q \in 0 .. o - 1 : /\ u.stacklevels[q] = w.stacklevels[q]
                             /\ u.stack[q] = w.stack[q]
  BY <1>1, <1>10, <1>12, <1>16
<1>25. OnStack(w.stacklevels, o, M) /\ \A l \in M : Rank(M, l) = Rank(A, l)
  BY <1>10
<1> HIDE DEF M, o
<1>26. OnStack(u.stacklevels, o, M) /\ \A l \in M : Rank(M, l) \in 0 .. o - 1
  BY <1>23, <1>24, <1>25, StackSame
<1>27. NodesOf(u, n, M)
  <2> SUFFICES ASSUME NEW l \in M
               PROVE  u.stack[Rank(M, l)] = NodeAt(l, Shr(n, l) - 1)
    BY DEF NodesOf
  <2>1. Rank(M, l) \in 0 .. o - 1 /\ Rank(M, l) = Rank(A, l) /\ l \in A
    BY <1>25, <1>26 DEF M
  <2>2. w.stack[Rank(A, l)] = NodeAt(l, Shr(n, l) - 1)
    BY <1>2, <2>1 DEF NodesOf
  <2> QED
    BY <1>24, <2>1, <2>2
<1> QED
  BY <1>1, <1>8, <1>10, <1>11, <1>15, <1>16, <1>17, <1>19, <1>20, <1>21, <1>22, <1>26, <1>27
     DEF Merged, M, o

\* All merges of a leaf are made.
LEMMA MergesDone ==
  ASSUME NEW par, NEW w, NEW n \in Nat, n < 2^TreeHeight, NEW c \in 0 .. TreeHeight,
         Merged(par, w, n, c), Bit(n, c) = 0
  PROVE  Built(par, w, n + 1)
<1> DEFINE A == Above(n, c)
           M == A \union {c}
           o == w.stackoffset - 1
           T == n + 1
<1>1. /\ TreeHeight \in Nat /\ c \in 0 .. TreeHeight + 1 /\ T \in Nat /\ T = n + 1
  BY Powers
<1>2. /\ Form(par, w) /\ KeptBefore(par, w, n) /\ KeptUnder(par, w, n, c) /\ Full(n, c)
      /\ OnStack(w.stacklevels, o, A) /\ w.stackoffset \in Nat /\ NodesOf(w, n, A)
      /\ w.stacklevels[o] = c /\ w.stack[o] = NodeAt(c, Shr(n, c))
  BY DEF Merged
<1>3. A \in Heights /\ \A l \in A : Bit(n, l) = 1 /\ c <= l
  BY LeafBits
<1>4. \A l \in 0 .. TreeHeight : l < c => Full(n, l) /\ Bit(T, l) = 0 /\ Shr(T, l) = Shr(n, l) + 1
  <2> SUFFICES ASSUME NEW l \in 0 .. TreeHeight, l < c
               PROVE  Full(n, l) /\ Bit(T, l) = 0 /\ Shr(T, l) = Shr(n, l) + 1
    OBVIOUS
  <2>1. l \in 0 .. c /\ l \in 0 .. TreeHeight + 1
    BY <1>1
  <2>2. Full(n, l) /\ Bit(n + 1, l) = 0
    BY <1>1, <1>2, <2>1, FullBits
  <2> QED
    BY <2>1, <2>2, CountOn
<1>5. Bit(T, c) = 1 /\ Shr(T, c) = Shr(n, c) + 1 /\ Shr(n, c) \in Nat /\ Shr(n, c) % 2 = 0
  <2>1. Bit(n + 1, c) = 1 /\ Shr(n + 1, c) = Shr(n, c) + 1
    BY <1>2, FlipUp
  <2>2. Shr(n, c) \in Nat
    BY <1>1, Parts
  <2> QED
    BY <2>1, <2>2 DEF Bit
<1>6. \A l \in 0 .. TreeHeight : l > c => Bit(T, l) = Bit(n, l) /\ Shr(T, l) = Shr(n, l)
  <2> SUFFICES ASSUME NEW l \in 0 .. TreeHeight, l > c
               PROVE  Bit(T, l) = Bit(n, l) /\ Shr(T, l) = Shr(n, l)
    OBVIOUS
  <2>1. l \in c + 1 .. TreeHeight + 1 /\ l \in 0 .. TreeHeight + 1
    BY <1>1
  <2>2. ~ Full(n, l)
    BY <2>1, NotFull
  <2> QED
    BY <2>1, <2>2, CountOn
<1> HIDE DEF T
<1>7. Bits(T) = M
  <2>1. ASSUME NEW l \in 0 .. TreeHeight
        PROVE  Bit(T, l) = 1 <=> l \in M
    <3>1. CASE l < c
      <4>1. ~ c <= l /\ l # c
        BY <1>1, <3>1
      <4>2. l \notin M
        BY <4>1 DEF Above
      <4> QED
        BY <1>4, <3>1, <4>2
    <3>2. CASE l = c
      BY <1>5, <3>2
    <3>3. CASE l > c
      <4>1. c <= l /\ l # c
        BY <1>1, <3>3
      <4>2. l \in M <=> Bit(n, l) = 1
        BY <4>1 DEF Above, Bits
      <4> QED
        BY <1>6, <3>3, <4>2
    <3> QED
      BY <1>1, <3>1, <3>2, <3>3
  <2>2. \A l \in M : l \in 0 .. TreeHeight
    BY <1>3 DEF Heights
  <2> QED
    BY <2>1, <2>2 DEF Bits
<1>8. \A l \in A : c < l /\ l \in 0 .. TreeHeight
  <2> SUFFICES ASSUME NEW l \in A
               PROVE  c < l /\ l \in 0 .. TreeHeight
    OBVIOUS
  <2>1. l # c /\ c <= l /\ l \in 0 .. TreeHeight
    BY <1>3 DEF Heights
  <2> QED
    BY <1>1, <2>1
<1> HIDE DEF A, M, o
<1>9. Below(c, A)
  BY <1>8 DEF Below
<1>10. Pushed(w.stacklevels, o, c, w.stacklevels)
  BY <1>2 DEF Pushed
<1>11. M = A \union {c}
  BY DEF M
<1>12. /\ OnStack(w.stacklevels, o + 1, M) /\ Rank(M, c) = o
       /\ \A l \in A : Rank(M, l) = Rank(A, l)
  BY <1>2, <1>3, <1>9, <1>10, <1>11, StackPush
<1>13. OnStack(w.stacklevels, w.stackoffset, Bits(T))
  <2>1. o + 1 = w.stackoffset
    BY <1>2 DEF o
  <2> QED
    BY <1>7, <1>12, <2>1
<1>14. NodesOf(w, T, Bits(T))
  <2> SUFFICES ASSUME NEW l \in M
               PROVE  w.stack[Rank(M, l)] = NodeAt(l, Shr(T, l) - 1)
    BY <1>7 DEF NodesOf
  <2>1. CASE l = c
    <3>1. Shr(T, c) - 1 = Shr(n, c)
      BY <1>5
    <3> QED
      BY <1>2, <1>12, <2>1, <3>1
  <2>2. CASE l # c
    <3>1. l \in A
      BY <1>11, <2>2
    <3>2. Shr(T, l) = Shr(n, l)
      BY <1>6, <1>8, <3>1
    <3>3. w.stack[Rank(A, l)] = NodeAt(l, Shr(n, l) - 1)
      BY <1>2, <3>1 DEF NodesOf
    <3> QED
      BY <1>12, <3>1, <3>2, <3>3
  <2> QED
    BY <2>1, <2>2
<1>15. KeptBefore(par, w, T)
  <2> SUFFICES ASSUME NEW h, NEW i, IsRight(h, i), 2 * i + 1 < Shr(T, h)
               PROVE  Kept(par, w, h, 2 * i + 1)
    BY DEF KeptBefore
  <2>1. h \in 0 .. TreeHeight /\ i \in Nat /\ h \in 0 .. TreeHeight + 1
    BY <1>1 DEF IsRight
  <2>2. Shr(n, h) \in Nat
    BY <2>1, Parts
  <2>3. CASE h < c
    <3>1. 2 * i + 1 < Shr(n, h) \/ 2 * i + 1 = Shr(n, h)
      <4>1. Shr(T, h) = Shr(n, h) + 1
        BY <1>4, <2>1, <2>3
      <4> QED
        BY <2>1, <2>2, <4>1
    <3> QED
      BY <1>2, <2>3, <3>1 DEF KeptBefore, KeptUnder
  <2>4. CASE h = c
    <3>1. 2 * i + 1 < Shr(n, h)
      BY <1>5, <2>1, <2>4
    <3> QED
      BY <1>2, <3>1 DEF KeptBefore
  <2>5. CASE h > c
    <3>1. Shr(T, h) = Shr(n, h)
      BY <1>6, <2>1, <2>5
    <3> QED
      BY <1>2, <3>1 DEF KeptBefore
  <2> QED
    BY <1>1, <2>1, <2>3, <2>4, <2>5
<1>16. Built(par, w, T)
  BY <1>2, <1>13, <1>14, <1>15 DEF Built
<1> QED
  BY <1>1, <1>16

\* A leaf on the stack, before the merges.
Copied(par, s, n) ==
  LET pushed == [s EXCEPT
        !.stack = Put(@, s.stackoffset, gen_leaf_wots(RealSeed, TheTree, n)),
        !.stacklevels = Put(@, s.stackoffset, 0),
        !.stackoffset = @ + 1]
  IN  IF Instances(par) > 0 /\ n = 3
      THEN [pushed EXCEPT !.treehash[0].node = Junk]
      ELSE pushed

\* What the copy at leaf 3 overwrites is not a node yet.
LEMMA CopiedIs ==
  ASSUME NEW par, Sized(par), NEW s, NEW n \in Nat, n < 2^TreeHeight, Built(par, s, n),
         NEW u, u = Copied(par, s, n)
  PROVE  Merged(par, u, n, 0)
<1> DEFINE o == s.stackoffset
           L == Bits(n)
           v == [s EXCEPT
             !.stack = Put(@, s.stackoffset, gen_leaf_wots(RealSeed, TheTree, n)),
             !.stacklevels = Put(@, s.stackoffset, 0),
             !.stackoffset = @ + 1]
<1>1. /\ TreeHeight \in Nat /\ 0 \in 0 .. TreeHeight /\ 0 \in 0 .. TreeHeight + 1
      /\ Instances(par) \in 0 .. TreeHeight
  BY Powers, InstancesNat
<1>2. /\ Form(par, s) /\ KeptBefore(par, s, n) /\ OnStack(s.stacklevels, o, L) /\ NodesOf(s, n, L)
      /\ HasFields(s) /\ HasInstances(par, s) /\ HasArrays(par, s)
      /\ DOMAIN s.stack = 0 .. TreeHeight /\ DOMAIN s.stacklevels = 0 .. TreeHeight
      /\ DOMAIN s.treehash = 0 .. Instances(par) - 1
  BY DEF Built, Form, Shape, HasArrays, HasInstances
<1>3. Above(n, 0) = L /\ L \in Heights /\ Cardinality(L) <= TreeHeight
  <2>1. Above(n, 0) = L
    BY <1>1 DEF Above, Bits
  <2> QED
    BY <2>1, LeafBits
<1>4. o \in 0 .. TreeHeight
  <2>1. o = Cardinality(L) /\ Cardinality(L) \in Nat
    BY <1>2, <1>3, HeightsFinite DEF OnStack
  <2> QED
    BY <1>1, <1>3, <2>1
<1>5. Shr(n, 0) = n /\ Full(n, 0)
  BY <1>1, Parts, FullUp
<1> DEFINE leaf == gen_leaf_wots(RealSeed, TheTree, n)
<1>6. leaf = NodeAt(0, Shr(n, 0))
  BY <1>5, NodesAre
<1>7. v = [s EXCEPT !.stack = [s.stack EXCEPT ![o] = leaf],
                    !.stacklevels = [s.stacklevels EXCEPT ![o] = 0],
                    !.stackoffset = o + 1]
  BY <1>2, <1>4 DEF Put
<1>8. u = IF Instances(par) > 0 /\ n = 3 THEN [v EXCEPT !.treehash[0].node = Junk] ELSE v
  BY DEF Copied
<1> HIDE DEF v, leaf, o, L
<1>9. /\ v.stack = [s.stack EXCEPT ![o] = leaf] /\ v.stacklevels = [s.stacklevels EXCEPT ![o] = 0]
      /\ v.stackoffset = o + 1 /\ v.auth = s.auth /\ v.keep = s.keep
      /\ v.treehash = s.treehash /\ v.retain = s.retain /\ DOMAIN v = DOMAIN s
  BY <1>2, <1>7 DEF HasFields
<1>10. /\ u.stack = v.stack /\ u.stacklevels = v.stacklevels /\ u.stackoffset = v.stackoffset
       /\ u.auth = v.auth /\ u.keep = v.keep /\ u.retain = v.retain /\ DOMAIN u = DOMAIN v
       /\ DOMAIN u.treehash = DOMAIN s.treehash
       /\ \A j \in DOMAIN s.treehash :
            /\ DOMAIN u.treehash[j] = DOMAIN s.treehash[j] /\ u.treehash[j].h = s.treehash[j].h
            /\ u.treehash[j].completed = s.treehash[j].completed
            /\ u.treehash[j].stackusage = s.treehash[j].stackusage
            /\ u.treehash[j].node = s.treehash[j].node \/ (j = 0 /\ n = 3)
  <2>1. CASE Instances(par) > 0 /\ n = 3
    <3>1. u = [v EXCEPT !.treehash[0].node = Junk]
      BY <1>8, <2>1
    <3>2. 0 \in DOMAIN s.treehash
      BY <1>1, <1>2, <2>1
    <3>3. {"h", "next_idx", "stackusage", "completed", "node"} \subseteq DOMAIN s.treehash[0]
      BY <1>2, <3>2 DEF HasInstances
    <3>4. /\ u.stack = v.stack /\ u.stacklevels = v.stacklevels /\ u.stackoffset = v.stackoffset
          /\ u.auth = v.auth /\ u.keep = v.keep /\ u.retain = v.retain /\ DOMAIN u = DOMAIN v
          /\ u.treehash = [s.treehash EXCEPT ![0].node = Junk]
      BY <1>2, <1>9, <3>1 DEF HasFields
    <3>5. /\ DOMAIN u.treehash = DOMAIN s.treehash
          /\ \A j \in DOMAIN s.treehash \ {0} : u.treehash[j] = s.treehash[j]
          /\ u.treehash[0] = [s.treehash[0] EXCEPT !.node = Junk]
      BY <3>2, <3>4
    <3>6. /\ DOMAIN u.treehash[0] = DOMAIN s.treehash[0] /\ u.treehash[0].h = s.treehash[0].h
          /\ u.treehash[0].completed = s.treehash[0].completed
          /\ u.treehash[0].stackusage = s.treehash[0].stackusage
      BY <3>3, <3>5
    <3> QED
      BY <2>1, <3>4, <3>5, <3>6
  <2>2. CASE ~ (Instances(par) > 0 /\ n = 3)
    BY <1>8, <1>9, <2>2
  <2> QED
    BY <2>1, <2>2
<1>11. /\ DOMAIN u.stack = 0 .. TreeHeight /\ DOMAIN u.stacklevels = 0 .. TreeHeight
       /\ u.stack[o] = leaf /\ u.stacklevels[o] = 0
       /\ \A q \in 0 .. o - 1 : u.stack[q] = s.stack[q] /\ u.stacklevels[q] = s.stacklevels[q]
  BY <1>1, <1>2, <1>4, <1>9, <1>10
<1>12. Form(par, u)
  <2>1. HasFields(u)
    BY <1>2, <1>9, <1>10 DEF HasFields
  <2>2. HasInstances(par, u)
    BY <1>2, <1>10 DEF HasInstances
  <2>3. HasArrays(par, u)
    BY <1>2, <1>9, <1>10, <1>11 DEF HasArrays
  <2>4. \A j \in DOMAIN u.treehash :
          u.treehash[j].h = j /\ u.treehash[j].completed = 1 /\ u.treehash[j].stackusage = 0
    BY <1>2, <1>10 DEF Form
  <2> QED
    BY <2>1, <2>2, <2>3, <2>4 DEF Form, Shape
<1>13. KeptBefore(par, u, n)
  <2> SUFFICES ASSUME NEW h, NEW i, IsRight(h, i), 2 * i + 1 < Shr(n, h)
               PROVE  Kept(par, u, h, 2 * i + 1)
    BY DEF KeptBefore
  <2>1. Kept(par, s, h, 2 * i + 1)
    BY <1>2 DEF KeptBefore
  <2>2. h \in 0 .. TreeHeight - 1
    BY DEF IsRight
  <2>3. 2 * i + 1 = 3 /\ h < Instances(par) => u.treehash[h].node = NodeAt(h, 3)
    <3> SUFFICES ASSUME 2 * i + 1 = 3, h < Instances(par)
                 PROVE  u.treehash[h].node = NodeAt(h, 3)
      OBVIOUS
    <3>1. h \in DOMAIN s.treehash
      BY <1>1, <1>2, <2>2
    <3>2. ~ (h = 0 /\ n = 3)
      <4>1. h = 0 => 3 < n
        BY <1>5
      <4> QED
        BY <4>1
    <3> QED
      BY <1>10, <2>1, <3>1, <3>2 DEF Kept
  <2> QED
    BY <1>9, <1>10, <2>1, <2>3 DEF Kept
<1>14. KeptUnder(par, u, n, 0)
  BY <1>1 DEF KeptUnder, IsRight
<1>15. OnStack(u.stacklevels, o, L) /\ \A l \in L : Rank(L, l) \in 0 .. o - 1
  BY <1>2, <1>3, <1>11, StackSame
<1>16. NodesOf(u, n, L)
  BY <1>2, <1>11, <1>15 DEF NodesOf
<1>17. u.stackoffset - 1 = o /\ u.stackoffset \in Nat
  BY <1>4, <1>9, <1>10
<1> QED
  BY <1>3, <1>5, <1>6, <1>11, <1>12, <1>13, <1>14, <1>15, <1>16, <1>17 DEF Merged

\* The merges after a leaf, called with p: params and the leaf.
MergeTurn(p, t, i) == IF TopPair(t) THEN Merge(p[1], t, RealSeed, TheTree, p[2]) ELSE t
MergeInv(p, t, i) ==
  \E c \in 0 .. TreeHeight :
    c <= i /\ (c < i => ~ TopPair(t)) /\ Merged(p[1], t, p[2], c)
Merging == INSTANCE LoopRules WITH Body <- MergeTurn, Inv <- MergeInv

\* AddLeaf is that loop.
LEMMA AddLeafIs ==
  ASSUME NEW par, NEW s, NEW n
  PROVE  AddLeaf(par, s, RealSeed, TheTree, n) =
           Merging!TheFor(<<par, n>>, par.tree_height, Copied(par, s, n))
<1> DEFINE p == <<par, n>>
<1>1. p[1] = par /\ p[2] = n
  OBVIOUS
<1> HIDE DEF p
<1>2. AddLeaf(p[1], s, RealSeed, TheTree, p[2]) =
        Merging!TheFor(p, p[1].tree_height, Copied(p[1], s, p[2]))
  BY DEF AddLeaf, Copied, MergeTurn, While, For, Merging!TheFor, Merging!For
<1> QED
  BY <1>1, <1>2 DEF p

\* One more leaf.
LEMMA AddLeafKeeps ==
  ASSUME NEW par, Sized(par), NEW s, NEW n \in Nat, n < 2^TreeHeight, Built(par, s, n)
  PROVE  Built(par, AddLeaf(par, s, RealSeed, TheTree, n), n + 1)
<1> DEFINE p == <<par, n>>
           start == Copied(par, s, n)
           w == Merging!TheFor(p, TreeHeight, start)
<1>1. p[1] = par /\ p[2] = n /\ TreeHeight \in Nat /\ par.tree_height = TreeHeight
  BY Powers DEF Sized
<1>2. AddLeaf(par, s, RealSeed, TheTree, n) = w
  BY <1>1, AddLeafIs
<1> HIDE DEF p
<1>3. Merged(par, start, n, 0)
  BY CopiedIs
<1> HIDE DEF start
<1>4. MergeInv(p, start, 0)
  BY <1>1, <1>3 DEF MergeInv
<1>5. ASSUME NEW t, NEW i \in 0 .. TreeHeight - 1, MergeInv(p, t, i)
      PROVE  MergeInv(p, MergeTurn(p, t, i), i + 1)
  <2>1. PICK c \in 0 .. TreeHeight : c <= i /\ (c < i => ~ TopPair(t)) /\ Merged(par, t, n, c)
    BY <1>1, <1>5 DEF MergeInv
  <2>2. CASE TopPair(t)
    <3> DEFINE u == Merge(par, t, RealSeed, TheTree, n)
    <3>1. c = i /\ c + 1 <= i + 1 /\ ~ c + 1 < i + 1
      BY <1>1, <2>1, <2>2
    <3>2. MergeTurn(p, t, i) = u
      BY <1>1, <2>2 DEF MergeTurn
    <3>3. Bit(n, c) = 1
      BY <2>1, <2>2, PairIs
    <3>4. c + 1 \in 0 .. TreeHeight /\ Merged(par, u, n, c + 1)
      BY <2>1, <3>3, MergeIs
    <3> HIDE DEF u
    <3> QED
      BY <1>1, <3>1, <3>2, <3>4 DEF MergeInv
  <2>3. CASE ~ TopPair(t)
    <3>1. MergeTurn(p, t, i) = t /\ c <= i + 1
      BY <1>1, <2>1, <2>3 DEF MergeTurn
    <3> QED
      BY <1>1, <2>1, <2>3, <3>1 DEF MergeInv
  <2> QED
    BY <2>2, <2>3
<1>6. MergeInv(p, w, TreeHeight)
  BY <1>1, <1>4, <1>5, Merging!ForRule
<1> HIDE DEF w
<1>7. PICK c \in 0 .. TreeHeight : (c < TreeHeight => ~ TopPair(w)) /\ Merged(par, w, n, c)
  BY <1>1, <1>6 DEF MergeInv
<1>8. Bit(n, c) = 0
  <2>1. Bit(n, c) \in {0, 1}
    <3>1. c \in 0 .. TreeHeight + 1
      BY <1>1
    <3> QED
      BY <3>1, Parts
  <2>2. CASE c = TreeHeight
    BY <2>2, LeafBits
  <2>3. CASE c # TreeHeight
    <3>1. ~ TopPair(w)
      BY <1>1, <1>7, <2>3
    <3>2. Bit(n, c) # 1
      BY <1>7, <3>1, PairIs
    <3> QED
      BY <2>1, <3>2
  <2> QED
    BY <2>2, <2>3
<1>9. Built(par, w, n + 1)
  BY <1>7, <1>8, MergesDone
<1> QED
  BY <1>2, <1>9

-----------------------------------------------------------------------------

\* The two nested loops over the leaves: p is params, and in the inner loop
\* also the number of the block.
LowOf(p) == p[1].tree_height \div 2

InnerTurn(p, u, j) == AddLeaf(p[1], u, RealSeed, TheTree, p[2] * 2^LowOf(p) + j)
InnerInv(p, u, j) == Built(p[1], u, p[2] * 2^LowOf(p) + j)
Inner == INSTANCE LoopRules WITH Body <- InnerTurn, Inv <- InnerInv

OuterTurn(p, t, i) ==
  For(2^LowOf(p), LAMBDA u, j : AddLeaf(p[1], u, RealSeed, TheTree, i * 2^LowOf(p) + j), t)
OuterInv(p, t, i) == Built(p[1], t, i * 2^LowOf(p))
Outer == INSTANCE LoopRules WITH Body <- OuterTurn, Inv <- OuterInv

\* Blocks of leaves of a tree.
BlocksOf(p) ==
  /\ Sized(p[1]) /\ LowOf(p) \in Nat
  /\ 2^LowOf(p) \in Nat \ {0} /\ 2^(p[1].tree_height - LowOf(p)) \in Nat \ {0}
  /\ 2^(p[1].tree_height - LowOf(p)) * 2^LowOf(p) = 2^TreeHeight

\* The leaves of the tree in blocks.
LEMMA LeafBlocks ==
  ASSUME NEW p, Sized(p[1])
  PROVE  BlocksOf(p)
<1> DEFINE l == LowOf(p)
           k == TreeHeight - l
<1>1. TreeHeight \in Nat /\ p[1].tree_height = TreeHeight /\ l = TreeHeight \div 2
  BY Powers DEF Sized, LowOf
<1> HIDE DEF l
<1>2. l \in 0 .. TreeHeight /\ k \in 0 .. TreeHeight /\ k + l = TreeHeight
      /\ l \in 0 .. TreeHeight + 1 /\ k \in 0 .. TreeHeight + 1 /\ l \in Nat /\ k \in Nat
      /\ k + l <= TreeHeight + 1
  <2>1. l \in Nat /\ l <= TreeHeight
    BY <1>1
  <2>2. k \in Nat /\ k <= TreeHeight /\ k + l = TreeHeight
    BY <1>1, <2>1
  <2> HIDE DEF k
  <2> QED
    BY <1>1, <2>1, <2>2
<1> HIDE DEF k
<1>3. 2^l \in Nat \ {0} /\ 2^k \in Nat \ {0}
  BY <1>2, Powers
<1>4. 2^(k + l) = 2^k * 2^l
  <2>1. \A i \in 0 .. TreeHeight : 2^(i + 1) = 2 * 2^i
    BY Powers
  <2> QED
    BY <1>1, <1>2, <2>1, Rules!PowSum
<1>5. 2^k * 2^l = 2^TreeHeight
  BY <1>2, <1>4
<1>6. p[1].tree_height - LowOf(p) = k
  BY <1>1 DEF k, l
<1> QED
  BY <1>2, <1>3, <1>5, <1>6 DEF BlocksOf, l

\* The inner loop adds a block of leaves.
LEMMA OuterKeeps ==
  ASSUME NEW p, Sized(p[1]), NEW t, NEW i \in 0 .. 2^(p[1].tree_height - LowOf(p)) - 1,
         OuterInv(p, t, i)
  PROVE  OuterInv(p, OuterTurn(p, t, i), i + 1)
<1> DEFINE r    == <<p[1], i>>
           b    == 2^LowOf(p)
           k    == 2^(p[1].tree_height - LowOf(p))
           done == Inner!TheFor(r, b, t)
<1>1. r[1] = p[1] /\ r[2] = i
  OBVIOUS
<1> HIDE DEF r
<1>2. LowOf(r) = LowOf(p)
  BY <1>1 DEF LowOf
<1>3. OuterTurn(p, t, i) = done
  <2>1. For(2^LowOf(r), LAMBDA u, j : AddLeaf(r[1], u, RealSeed, TheTree, r[2] * 2^LowOf(r) + j), t)
          = Inner!TheFor(r, 2^LowOf(r), t)
    BY DEF InnerTurn, For, Inner!TheFor, Inner!For
  <2>2. OuterTurn(p, t, i) =
          For(2^LowOf(r), LAMBDA u, j : AddLeaf(r[1], u, RealSeed, TheTree, r[2] * 2^LowOf(r) + j), t)
    BY <1>1, <1>2 DEF OuterTurn, For
  <2> QED
    BY <1>2, <2>1, <2>2
<1>4. b \in Nat \ {0} /\ k \in Nat \ {0} /\ k * b = 2^TreeHeight /\ i \in Nat /\ i + 1 <= k
  <2>1. b \in Nat \ {0} /\ k \in Nat \ {0} /\ k * b = 2^TreeHeight
    BY LeafBlocks DEF BlocksOf
  <2>2. i \in 0 .. k - 1
    OBVIOUS
  <2> HIDE DEF b, k
  <2> QED
    BY <2>1, <2>2
<1>5. InnerInv(r, t, 0)
  <2>1. Built(p[1], t, i * b)
    BY DEF OuterInv
  <2> HIDE DEF b
  <2>2. i * b + 0 = i * b
    BY <1>4
  <2> QED
    BY <1>1, <1>2, <2>1, <2>2 DEF InnerInv, b
<1>6. ASSUME NEW u, NEW j \in 0 .. b - 1, InnerInv(r, u, j)
      PROVE  InnerInv(r, InnerTurn(r, u, j), j + 1)
  <2> DEFINE n == i * b + j
  <2>0. j \in 0 .. b - 1
    OBVIOUS
  <2>1. Built(p[1], u, n)
    BY <1>1, <1>2, <1>6 DEF InnerInv
  <2>2. InnerTurn(r, u, j) = AddLeaf(p[1], u, RealSeed, TheTree, n)
    BY <1>1, <1>2 DEF InnerTurn
  <2> HIDE DEF b, k
  <2>3. n \in Nat /\ n < 2^TreeHeight /\ n + 1 = i * b + (j + 1)
    <3>1. j + 1 <= b /\ j \in Nat
      BY <1>4, <2>0
    <3>2. (i + 1) * b <= k * b
      BY <1>4
    <3>3. i * b + j < (i + 1) * b
      BY <1>4, <3>1
    <3>4. i * b \in Nat
      BY <1>4
    <3> QED
      BY <1>4, <3>1, <3>2, <3>3, <3>4
  <2> HIDE DEF n
  <2>4. Built(p[1], AddLeaf(p[1], u, RealSeed, TheTree, n), n + 1)
    BY <2>1, <2>3, AddLeafKeeps
  <2> QED
    BY <1>1, <1>2, <2>2, <2>3, <2>4 DEF InnerInv, b
<1>7. InnerInv(r, done, b)
  <2>1. b \in Nat
    BY <1>4
  <2> HIDE DEF b
  <2> QED
    BY <1>5, <1>6, <2>1, Inner!ForRule
<1>8. Built(p[1], done, i * b + b)
  BY <1>1, <1>2, <1>7 DEF InnerInv
<1>9. i * b + b = (i + 1) * b
  <2> HIDE DEF b
  <2> QED
    BY <1>4
<1> QED
  BY <1>3, <1>8, <1>9 DEF OuterInv

\* The state when the first leaf is added.
Ready0(s) ==
  [s EXCEPT !.stackoffset = 0,
            !.treehash = [i \in DOMAIN @ |->
                           [@[i] EXCEPT !.h = i, !.completed = 1, !.stackusage = 0]]]

\* treehash_init is the loop, and gives the state its stack back.
LEMMA InitIs ==
  ASSUME NEW par, NEW s
  PROVE  LET p == <<par>>
             done == Outer!TheFor(p, 2^(par.tree_height - LowOf(p)), Ready0(s))
         IN  treehash_init(par, s, RealSeed, TheTree) =
               [state |-> [done EXCEPT !.stack = s.stack, !.stacklevels = s.stacklevels,
                                       !.stackoffset = s.stackoffset],
                root  |-> done.stack[0]]
<1> DEFINE p == <<par>>
<1>1. p[1] = par
  OBVIOUS
<1> HIDE DEF p
<1>2. LET done == Outer!TheFor(p, 2^(p[1].tree_height - LowOf(p)), Ready0(s))
      IN  treehash_init(p[1], s, RealSeed, TheTree) =
            [state |-> [done EXCEPT !.stack = s.stack, !.stacklevels = s.stacklevels,
                                    !.stackoffset = s.stackoffset],
             root  |-> done.stack[0]]
  BY DEF treehash_init, ForLeaves, OuterTurn, LowOf, Ready0, For, Outer!TheFor, Outer!For
<1> QED
  BY <1>1, <1>2 DEF p

\* The numbers at the ends of the loop.
LEMMA EndsAre ==
  /\ \A h \in 0 .. TreeHeight + 1 : Shr(0, h) = 0 /\ Low(0, h) = 0 /\ Bit(0, h) = 0
  /\ \A h \in 0 .. TreeHeight : Shr(2^TreeHeight, h) = 2^(TreeHeight - h)
  /\ Bits(0) = {} /\ Bits(2^TreeHeight) = {TreeHeight}
<1>1. TreeHeight \in Nat
  BY Powers
<1>2. ASSUME NEW h \in 0 .. TreeHeight + 1
      PROVE  Shr(0, h) = 0 /\ Low(0, h) = 0 /\ Bit(0, h) = 0
  <2>1. 2^h \in Nat \ {0} /\ 0 < 2^h /\ 0 \in Nat
    BY <1>1, Powers
  <2>2. Shr(0 * 2^h + 0, h) = 0 /\ Low(0 * 2^h + 0, h) = 0
    BY <2>1, PartsUnique
  <2>3. 0 * 2^h + 0 = 0
    BY <2>1
  <2> QED
    BY <2>2, <2>3 DEF Bit
<1>3. ASSUME NEW h \in 0 .. TreeHeight
      PROVE  Shr(2^TreeHeight, h) = 2^(TreeHeight - h) /\ Low(2^TreeHeight, h) = 0
  <2> DEFINE k == TreeHeight - h
             q == 2^k
  <2>1. k \in Nat /\ h \in Nat /\ k + h = TreeHeight /\ k + h <= TreeHeight + 1
        /\ k \in 0 .. TreeHeight + 1 /\ h \in 0 .. TreeHeight + 1
    BY <1>1
  <2>2. q \in Nat /\ 2^h \in Nat \ {0} /\ 0 < 2^h /\ 0 \in Nat
    <3> HIDE DEF k
    <3> QED
      BY <2>1, Powers
  <2>3. 2^TreeHeight = q * 2^h
    <3>1. \A i \in 0 .. TreeHeight : 2^(i + 1) = 2 * 2^i
      BY Powers
    <3> HIDE DEF k
    <3>2. 2^(k + h) = 2^k * 2^h
      BY <1>1, <2>1, <3>1, Rules!PowSum
    <3> QED
      BY <2>1, <3>2
  <2> HIDE DEF q, k
  <2>4. Shr(q * 2^h + 0, h) = q /\ Low(q * 2^h + 0, h) = 0
    BY <2>1, <2>2, PartsUnique
  <2>5. q * 2^h + 0 = 2^TreeHeight
    BY <2>2, <2>3
  <2> QED
    BY <2>4, <2>5 DEF q, k
<1>4. Bits(0) = {}
  <2>1. \A h \in 0 .. TreeHeight : Bit(0, h) # 1
    BY <1>1, <1>2
  <2> QED
    BY <2>1 DEF Bits
<1>5. Bits(2^TreeHeight) = {TreeHeight}
  <2> DEFINE N == 2^TreeHeight
  <2>1. TreeHeight \in 0 .. TreeHeight /\ TreeHeight \in 0 .. TreeHeight + 1
    BY <1>1
  <2>2. Low(N, TreeHeight) = 0 /\ Shr(N, TreeHeight) = 1 /\ N \in Nat
    <3>1. TreeHeight - TreeHeight = 0 /\ 2^0 = 1
      BY <1>1, Powers
    <3> QED
      BY <1>3, <2>1, <3>1, Powers
  <2> HIDE DEF N
  <2>3. Bit(N, TreeHeight) = 1
    BY <2>2 DEF Bit
  <2>4. \A h \in 0 .. TreeHeight : h < TreeHeight => Bit(N, h) = 0
    BY <2>1, <2>2, LowZero
  <2>5. \A h \in 0 .. TreeHeight : Bit(N, h) = 1 <=> h = TreeHeight
    BY <1>1, <2>3, <2>4
  <2>6. Bits(N) = {TreeHeight}
    BY <2>1, <2>5 DEF Bits
  <2> QED
    BY <2>6 DEF N
<1> QED
  BY <1>2, <1>3, <1>4, <1>5

\* Before the first leaf, whatever the memory holds.
LEMMA NoLeaves ==
  ASSUME NEW par, Sized(par), NEW s, Shape(par, s)
  PROVE  Built(par, Ready0(s), 0)
<1> DEFINE u == Ready0(s)
           th == [i \in DOMAIN s.treehash |->
                   [s.treehash[i] EXCEPT !.h = i, !.completed = 1, !.stackusage = 0]]
<1>1. HasFields(s) /\ HasInstances(par, s) /\ HasArrays(par, s)
  BY DEF Shape
<1>2. u = [s EXCEPT !.stackoffset = 0, !.treehash = th]
  BY DEF Ready0
<1>3. /\ DOMAIN th = DOMAIN s.treehash
      /\ \A j \in DOMAIN s.treehash :
           /\ {"h", "next_idx", "stackusage", "completed", "node"} \subseteq DOMAIN th[j]
           /\ th[j].h = j /\ th[j].completed = 1 /\ th[j].stackusage = 0
  <2> SUFFICES ASSUME NEW j \in DOMAIN s.treehash
               PROVE  /\ {"h", "next_idx", "stackusage", "completed", "node"} \subseteq DOMAIN th[j]
                      /\ th[j].h = j /\ th[j].completed = 1 /\ th[j].stackusage = 0
    OBVIOUS
  <2>1. {"h", "next_idx", "stackusage", "completed", "node"} \subseteq DOMAIN s.treehash[j]
    BY <1>1 DEF HasInstances
  <2>2. th[j] = [s.treehash[j] EXCEPT !.h = j, !.completed = 1, !.stackusage = 0]
    OBVIOUS
  <2> HIDE DEF th
  <2> QED
    BY <2>1, <2>2
<1> HIDE DEF u, th
<1>4. /\ u.stack = s.stack /\ u.stacklevels = s.stacklevels /\ u.stackoffset = 0
      /\ u.auth = s.auth /\ u.keep = s.keep /\ u.retain = s.retain /\ DOMAIN u = DOMAIN s
      /\ u.treehash = th
  BY <1>1, <1>2 DEF HasFields
<1>5. Form(par, u)
  <2>1. HasFields(u)
    BY <1>1, <1>4 DEF HasFields
  <2>2. HasInstances(par, u)
    BY <1>1, <1>3, <1>4 DEF HasInstances
  <2>3. HasArrays(par, u)
    BY <1>1, <1>4 DEF HasArrays
  <2> QED
    BY <1>3, <1>4, <2>1, <2>2, <2>3 DEF Form, Shape
<1>6. KeptBefore(par, u, 0)
  <2> SUFFICES ASSUME NEW h, NEW i, IsRight(h, i), 2 * i + 1 < Shr(0, h)
               PROVE  FALSE
    BY DEF KeptBefore
  <2>1. h \in 0 .. TreeHeight + 1 /\ i \in Nat
    BY Powers DEF IsRight
  <2>2. Shr(0, h) = 0
    BY <2>1, EndsAre
  <2> QED
    BY <2>1, <2>2
<1>7. OnStack(u.stacklevels, u.stackoffset, {})
  BY <1>4, FS_EmptySet DEF OnStack
<1>8. NodesOf(u, 0, {})
  BY DEF NodesOf
<1> QED
  BY <1>5, <1>6, <1>7, <1>8, EndsAre DEF Built, u

(***************************************************************************)
(* treehash_init computes the root of the tree and a state for leaf 0.     *)
(***************************************************************************)
LEMMA TreeBuilt ==
  ASSUME NEW par, Sized(par), NEW s, Shape(par, s), s.stackoffset = 0,
         NEW made, made = treehash_init(par, s, RealSeed, TheTree)
  PROVE  made.root = NodeAt(TreeHeight, 0) /\ Between(par, made.state, 0)
<1> DEFINE p == <<par>>
           k == 2^(par.tree_height - LowOf(p))
           done == Outer!TheFor(p, k, Ready0(s))
           v == [done EXCEPT !.stack = s.stack, !.stacklevels = s.stacklevels,
                             !.stackoffset = s.stackoffset]
<1>1. p[1] = par /\ TreeHeight \in Nat
  BY Powers
<1>2. made = [state |-> v, root |-> done.stack[0]]
  BY InitIs
<1>3. Built(par, Ready0(s), 0)
  BY NoLeaves
<1>4. BlocksOf(p)
  BY <1>1, LeafBlocks
<1> HIDE DEF p
<1>5. k \in Nat /\ k = 2^(p[1].tree_height - LowOf(p)) /\ k * 2^LowOf(p) = 2^TreeHeight
  BY <1>1, <1>4 DEF BlocksOf
<1>6. OuterInv(p, Ready0(s), 0)
  <2>1. 0 * 2^LowOf(p) = 0
    BY <1>4 DEF BlocksOf
  <2> QED
    BY <1>1, <1>3, <2>1 DEF OuterInv
<1>7. ASSUME NEW t, NEW i \in 0 .. k - 1, OuterInv(p, t, i)
      PROVE  OuterInv(p, OuterTurn(p, t, i), i + 1)
  BY <1>1, <1>5, <1>7, OuterKeeps
<1>8. OuterInv(p, done, k)
  <2> HIDE DEF k
  <2> QED
    BY <1>5, <1>6, <1>7, Outer!ForRule
<1> HIDE DEF done, k
<1>9. Built(par, done, 2^TreeHeight)
  BY <1>1, <1>5, <1>8 DEF OuterInv
<1>10. /\ Form(par, done) /\ KeptBefore(par, done, 2^TreeHeight)
       /\ NodesOf(done, 2^TreeHeight, {TreeHeight})
       /\ HasFields(done) /\ HasInstances(par, done) /\ HasArrays(par, done)
       /\ HasArrays(par, s) /\ DOMAIN done.treehash = 0 .. Instances(par) - 1
       /\ Instances(par) \in 0 .. TreeHeight
  BY <1>9, EndsAre, InstancesNat DEF Built, Form, Shape, HasInstances
<1>11. done.stack[0] = NodeAt(TreeHeight, 0)
  <2>1. {m \in {TreeHeight} : m > TreeHeight} = {}
    BY <1>1
  <2>2. Rank({TreeHeight}, TreeHeight) = 0
    BY <2>1, FS_EmptySet DEF Rank
  <2>3. Shr(2^TreeHeight, TreeHeight) - 1 = 0
    <3> DEFINE z == TreeHeight - TreeHeight
    <3>1. TreeHeight \in 0 .. TreeHeight /\ z = 0
      BY <1>1
    <3>2. Shr(2^TreeHeight, TreeHeight) = 2^z
      BY <3>1, EndsAre
    <3> HIDE DEF z
    <3>3. 2^z = 1
      BY <3>1, Powers
    <3> QED
      BY <3>2, <3>3
  <2> QED
    BY <1>10, <2>2, <2>3 DEF NodesOf
<1>12. /\ v.stack = s.stack /\ v.stacklevels = s.stacklevels /\ v.stackoffset = 0
       /\ v.auth = done.auth /\ v.keep = done.keep /\ v.retain = done.retain
       /\ v.treehash = done.treehash /\ DOMAIN v = DOMAIN done
  BY <1>10 DEF HasFields
<1> HIDE DEF v
<1>13. Shape(par, v)
  <2>1. HasFields(v)
    BY <1>10, <1>12 DEF HasFields
  <2>2. HasInstances(par, v)
    BY <1>10, <1>12 DEF HasInstances
  <2>3. HasArrays(par, v)
    BY <1>10, <1>12 DEF HasArrays
  <2> QED
    BY <2>1, <2>2, <2>3 DEF Shape
<1>14. ASSUME NEW h, NEW i, IsRight(h, i)
       PROVE  Kept(par, v, h, 2 * i + 1)
  <2>1. h \in 0 .. TreeHeight /\ 2 * i + 1 < 2^(TreeHeight - h)
    <3>1. h \in 0 .. TreeHeight - 1 /\ 2 * i + 1 < 2^(TreeHeight - h)
      BY <1>14 DEF IsRight
    <3> QED
      BY <1>1, <3>1
  <2>2. 2 * i + 1 < Shr(2^TreeHeight, h)
    BY <2>1, EndsAre
  <2>3. Kept(par, done, h, 2 * i + 1)
    BY <1>10, <1>14, <2>2 DEF KeptBefore
  <2> QED
    BY <1>12, <2>3 DEF Kept
<1>15. AuthAt(v, 0)
  <2> SUFFICES ASSUME NEW h \in 0 .. TreeHeight - 1
               PROVE  v.auth[h] = NodeAt(h, Sibling(Shr(0, h)))
    BY DEF AuthAt
  <2>1. Sibling(Shr(0, h)) = 1
    <3>1. h \in 0 .. TreeHeight + 1
      BY <1>1
    <3>2. Shr(0, h) = 0
      BY <3>1, EndsAre
    <3> QED
      BY <3>2 DEF Sibling
  <2>2. 2 * 0 + 1 < 2^(TreeHeight - h)
    <3> DEFINE e == (TreeHeight - h) - 1
    <3>1. e \in 0 .. TreeHeight /\ e + 1 = TreeHeight - h /\ e \in 0 .. TreeHeight + 1
      BY <1>1
    <3> HIDE DEF e
    <3>2. 2^(e + 1) = 2 * 2^e /\ 2^e \in Nat \ {0}
      BY <3>1, Powers
    <3> QED
      BY <3>1, <3>2
  <2>3. IsRight(h, 0) /\ 2 * 0 + 1 = 1
    BY <2>2 DEF IsRight
  <2>4. Kept(par, v, h, 1)
    BY <1>14, <2>3
  <2> QED
    BY <2>1, <2>4 DEF Kept
<1>16. KeepAt(v, 0)
  <2>1. \A h \in 0 .. TreeHeight - 2 : h \in 0 .. TreeHeight + 1
    BY <1>1
  <2>2. \A h \in 0 .. TreeHeight - 2 : Bit(0, h) # 1
    BY <2>1, EndsAre
  <2> QED
    BY <2>2 DEF KeepAt
<1>17. RetainAt(par, v)
  <2> SUFFICES ASSUME NEW h \in 0 .. TreeHeight - 1, Instances(par) <= h, NEW i \in Nat,
                      2 * i + 3 < 2^(TreeHeight - h)
               PROVE  v.retain[RetainBase(h) + i] = NodeAt(h, 2 * i + 3)
    BY DEF RetainAt
  <2> DEFINE j == i + 1
  <2>1. 2 * j + 1 = 2 * i + 3 /\ j \in Nat /\ 2 * i + 3 # 1
    OBVIOUS
  <2> HIDE DEF j
  <2>2. IsRight(h, j)
    BY <2>1 DEF IsRight
  <2>3. Kept(par, v, h, 2 * i + 3)
    BY <1>14, <2>1, <2>2
  <2>4. InRetain(par, h, i)
    BY DEF InRetain
  <2>5. RetainSlot(par, h, 2 * i + 3) = RetainBase(h) + i
    BY <2>4, SlotIs
  <2> QED
    BY <2>1, <2>3, <2>5 DEF Kept
<1>18. Busy(v) = {}
  <2>1. \A j \in DOMAIN v.treehash : v.treehash[j].completed # 0
    BY <1>10, <1>12 DEF Form
  <2> QED
    BY <2>1 DEF Busy
<1>19. Levels(v) = {}
  BY <1>18 DEF Levels
<1>20. ASSUME NEW j \in DOMAIN v.treehash
       PROVE  InstanceAt(v, 0, j)
  <2>1. /\ v.treehash[j].h = j /\ v.treehash[j].completed = 1 /\ v.treehash[j].stackusage = 0
        /\ j \in 0 .. Instances(par) - 1 /\ j \notin Busy(v)
    BY <1>10, <1>12, <1>18 DEF Form
  <2>2. j \in 0 .. TreeHeight - 1 /\ j < Instances(par) /\ j + 1 \in 0 .. TreeHeight + 1
    BY <1>1, <1>10, <2>1
  <2>3. Wanted(0, j) = 3
    <3>1. Shr(0, j + 1) = 0
      BY <2>2, EndsAre
    <3> QED
      BY <3>1 DEF Wanted
  <2>4. ASSUME Wanted(0, j) < 2^(TreeHeight - j)
        PROVE  v.treehash[j].node = NodeAt(j, Wanted(0, j))
    <3>1. IsRight(j, 1) /\ 2 * 1 + 1 = 3
      BY <2>2, <2>3, <2>4 DEF IsRight
    <3>2. Kept(par, v, j, 3)
      BY <1>14, <3>1
    <3> QED
      BY <2>2, <2>3, <3>2 DEF Kept
  <2> QED
    BY <2>1, <2>4 DEF InstanceAt
<1>21. At(par, v, 0)
  <2>1. OnStack(v.stacklevels, v.stackoffset, {})
    BY <1>12, FS_EmptySet DEF OnStack
  <2>2. Traversal(v, 0)
    BY <1>18, <1>19, <1>20, <2>1 DEF Traversal, TailNodes, Apart
  <2> QED
    BY <1>13, <2>2 DEF At
<1>22. Between(par, v, 0)
  BY <1>15, <1>16, <1>17, <1>18, <1>21 DEF Between, PathAt, Sched
<1> QED
  BY <1>2, <1>11, <1>22

-----------------------------------------------------------------------------

\* The memory of a state that nobody has written, as xmss_core_keypair sets it up.
Raw(par, g) == [Uninitialised(par, g) EXCEPT !.stackoffset = 0, !.next_leaf = 0]

\* It has the shape of a state, whatever the memory held, and an empty stack.
LEMMA RawIs ==
  ASSUME NEW par, Sized(par), NEW g
  PROVE  Shape(par, Raw(par, g)) /\ Raw(par, g).stackoffset = 0
<1> DEFINE u == Uninitialised(par, g)
           r == Raw(par, g)
<1>1. par.tree_height = TreeHeight
  BY DEF Sized
<1>2. HasFields(u)
  BY DEF Uninitialised, HasFields
<1>3. HasInstances(par, u)
  BY DEF Uninitialised, HasInstances
<1>4. HasArrays(par, u)
  BY <1>1 DEF Uninitialised, HasArrays
<1> HIDE DEF u
<1>5. /\ r.stack = u.stack /\ r.stacklevels = u.stacklevels /\ r.stackoffset = 0
      /\ r.auth = u.auth /\ r.keep = u.keep /\ r.retain = u.retain
      /\ r.treehash = u.treehash /\ DOMAIN r = DOMAIN u
  BY <1>2 DEF HasFields, Raw, u
<1> HIDE DEF r
<1>6. HasFields(r)
  BY <1>2, <1>5 DEF HasFields
<1>7. HasInstances(par, r)
  BY <1>3, <1>5 DEF HasInstances
<1>8. HasArrays(par, r)
  BY <1>4, <1>5 DEF HasArrays
<1> QED
  BY <1>5, <1>6, <1>7, <1>8 DEF Shape, r

\* The root of the one tree.
TopRoot == NodeAt(TreeHeight, 0)

\* A fresh key.
LEMMA KeyPairIs ==
  ASSUME NEW par, Sized(par), NEW g, Fits
  PROVE  LET key == KeyPair(par, g) IN
         /\ key = [idx |-> 0, seed |-> RealSeed, root |-> TopRoot, state |-> key.state]
         /\ Between(par, key.state, 0)
<1> DEFINE made == treehash_init(par, Raw(par, g), RealSeed, TheTree)
           s    == Serialized(made.state)
<1>1. KeyPair(par, g) = [idx |-> 0, seed |-> RealSeed, root |-> made.root, state |-> s]
  BY DEF KeyPair, Raw
<1> HIDE DEF made
<1>2. made.root = TopRoot /\ Between(par, made.state, 0)
  BY RawIs, TreeBuilt DEF made, TopRoot
<1> HIDE DEF s
<1>3. Alike(made.state, s)
  BY <1>2, SerializedIs DEF s
<1>4. Between(par, s, 0)
  BY <1>2, <1>3, AlikeBetween
<1> QED
  BY <1>1, <1>2, <1>4

-----------------------------------------------------------------------------

\* compute_root, called with p: leafidx, auth_path, seed and address.
ClimbTurn(p, t, h) == ParentOnPath(t, h, p[1], p[2], p[3], p[4])
ClimbInv(p, t, h)  == t = NodeAt(h, Shr(p[1], h))
Climb == INSTANCE LoopRules WITH Body <- ClimbTurn, Inv <- ClimbInv

\* An index is a leaf of the one tree.
LEMMA LeafOfTree ==
  ASSUME NEW leaf \in 0 .. LastIndex
  PROVE  Shr(leaf, TreeHeight) = 0 /\ Low(leaf, TreeHeight) = leaf
<1> DEFINE b == 2^TreeHeight
<1>1. /\ TreeHeight \in 0 .. TreeHeight + 1 /\ leaf \in Nat /\ leaf < b /\ b \in Nat
  BY Powers, LeavesNat
<1>2. Shr(0 * b + leaf, TreeHeight) = 0 /\ Low(0 * b + leaf, TreeHeight) = leaf
  BY <1>1, PartsUnique
<1> HIDE DEF b
<1>3. 0 * b + leaf = leaf
  BY <1>1
<1> QED
  BY <1>2, <1>3

\* A leaf and its authentication path lead to the root.
LEMMA ComputeRootIs ==
  ASSUME NEW par, Sized(par), NEW leaf \in 0 .. LastIndex, NEW s, AuthAt(s, leaf)
  PROVE  compute_root(par, gen_leaf_wots(RealSeed, TheTree, leaf), leaf, s.auth, RealSeed,
                      TheTree) = TopRoot
<1> DEFINE p     == <<leaf, s.auth, RealSeed, TheTree>>
           start == gen_leaf_wots(RealSeed, TheTree, leaf)
           done  == Climb!TheFor(p, TreeHeight, start)
<1>1. p[1] = leaf /\ p[2] = s.auth /\ p[3] = RealSeed /\ p[4] = TheTree
  OBVIOUS
<1>2. compute_root(par, start, leaf, s.auth, RealSeed, TheTree) = done
  <2> HIDE DEF p
  <2>1. par.tree_height = TreeHeight
    BY DEF Sized
  <2>2. compute_root(par, start, p[1], p[2], p[3], p[4]) =
          Climb!TheFor(p, par.tree_height, start)
    BY DEF compute_root, ClimbTurn, For, Climb!TheFor, Climb!For
  <2> QED
    BY <1>1, <2>1, <2>2
<1> HIDE DEF p
<1>3. TreeHeight \in Nat /\ leaf \in Nat /\ leaf < 2^TreeHeight /\ 2^TreeHeight \in Nat
  BY Powers, LeavesNat
<1>4. ClimbInv(p, start, 0)
  <2>1. Shr(leaf, 0) = leaf
    BY <1>3, Parts
  <2> QED
    BY <1>1, <2>1, NodesAre DEF ClimbInv
<1>5. ASSUME NEW t, NEW h \in 0 .. TreeHeight - 1, ClimbInv(p, t, h)
      PROVE  ClimbInv(p, ClimbTurn(p, t, h), h + 1)
  <2> DEFINE x == Shr(leaf, h)
             y == Shr(leaf, h + 1)
  <2>1. /\ x \in Nat /\ y \in Nat /\ x = 2 * y + Bit(leaf, h) /\ Bit(leaf, h) \in {0, 1}
        /\ h \in 0 .. TreeHeight
    <3>1. h \in 0 .. TreeHeight /\ h \in 0 .. TreeHeight + 1 /\ h + 1 \in 0 .. TreeHeight + 1
      BY <1>3
    <3>2. x \in Nat /\ y \in Nat
      BY <1>3, <3>1, Parts
    <3> QED
      BY <1>3, <3>1, <3>2, PartsUp, Parts
  <2>2. t = NodeAt(h, x) /\ s.auth[h] = NodeAt(h, Sibling(x))
    BY <1>1, <1>5 DEF ClimbInv, AuthAt
  <2> HIDE DEF x, y
  <2>3. CASE Bit(leaf, h) = 1
    <3>1. Sibling(x) = 2 * y /\ x = 2 * y + 1
      BY <2>1, <2>3 DEF Sibling
    <3>2. thash_h(s.auth[h], t, RealSeed, TheTree, h, y) = NodeAt(h + 1, y)
      BY <2>2, <3>1, NodesAre
    <3> QED
      BY <1>1, <2>3, <3>2 DEF ClimbInv, ClimbTurn, ParentOnPath, y
  <2>4. CASE Bit(leaf, h) # 1
    <3>1. Sibling(x) = 2 * y + 1 /\ x = 2 * y
      BY <2>1, <2>4 DEF Sibling
    <3>2. thash_h(t, s.auth[h], RealSeed, TheTree, h, y) = NodeAt(h + 1, y)
      BY <2>2, <3>1, NodesAre
    <3> QED
      BY <1>1, <2>4, <3>2 DEF ClimbInv, ClimbTurn, ParentOnPath, y
  <2> QED
    BY <2>3, <2>4
<1>6. ClimbInv(p, done, TreeHeight)
  BY <1>3, <1>4, <1>5, Climb!ForRule
<1>7. Shr(leaf, TreeHeight) = 0 /\ Low(leaf, TreeHeight) = leaf
  BY LeafOfTree
<1> QED
  BY <1>1, <1>2, <1>6, <1>7 DEF ClimbInv, TopRoot

-----------------------------------------------------------------------------

\* What a signature consists of.
LEMMA SignatureIs ==
  ASSUME NEW key
  PROVE  LET sm == Signature(key) IN
         /\ sm.idx = key.idx
         /\ sm.layers[0].sig =
              wots_sign(hash_message(key.root, key.idx), key.seed, TheTree, key.idx)
         /\ sm.layers[0].auth = key.state.auth
BY DEF Signature

\* The loop of the verifier, which takes one turn, called with params, sm and pk.
VerifyTurn(p, root, i) == LayerRoot(p[1], p[2], p[3], root, i)
VerifyInv(p, root, i)  == root = IF i = 0 THEN hash_message(TopRoot, p[2].idx) ELSE TopRoot
Verifying == INSTANCE LoopRules WITH Body <- VerifyTurn, Inv <- VerifyInv

(***************************************************************************)
(* The signature of a key with the path of its index verifies under the    *)
(* public key.                                                             *)
(***************************************************************************)
LEMMA SignatureVerifies ==
  ASSUME NEW par, Sized(par), par.d = 1,
         NEW key, key.idx \in 0 .. LastIndex, key.seed = RealSeed, key.root = TopRoot,
         AuthAt(key.state, key.idx),
         NEW pub, pub = [seed |-> RealSeed, root |-> TopRoot]
  PROVE  sign_open(par, Signature(key), pub)
<1> DEFINE sm    == Signature(key)
           leaf  == key.idx
           p     == <<par, sm, pub>>
           start == hash_message(pub.root, sm.idx)
           done  == Verifying!TheFor(p, 1, start)
<1>1. /\ sm.idx = leaf /\ leaf \in 0 .. LastIndex /\ leaf \in Nat
      /\ sm.layers[0].sig = wots_sign(hash_message(TopRoot, leaf), RealSeed, TheTree, leaf)
      /\ sm.layers[0].auth = key.state.auth
  BY SignatureIs, LeavesNat
<1> HIDE DEF sm, leaf
<1>2. p[1] = par /\ p[2] = sm /\ p[3] = pub
  OBVIOUS
<1>3. sign_open(par, sm, pub) <=> done = TopRoot
  <2> HIDE DEF p
  <2>1. sign_open(p[1], p[2], p[3]) <=>
          Verifying!TheFor(p, p[1].d, hash_message(p[3].root, p[2].idx)) = p[3].root
    BY DEF sign_open, VerifyTurn, For, Verifying!TheFor, Verifying!For
  <2> QED
    BY <1>2, <2>1
<1> HIDE DEF p
<1>4. VerifyInv(p, start, 0)
  BY <1>1, <1>2 DEF VerifyInv
<1>5. ASSUME NEW root, NEW i \in 0 .. 1 - 1, VerifyInv(p, root, i)
      PROVE  VerifyInv(p, VerifyTurn(p, root, i), i + 1)
  <2> DEFINE auth == key.state.auth
             start0 == gen_leaf_wots(RealSeed, TheTree, leaf)
  <2>1. i = 0 /\ root = hash_message(TopRoot, leaf)
    BY <1>1, <1>2, <1>5 DEF VerifyInv
  <2>2. par.tree_height = TreeHeight /\ TreeHeight \in Nat
    BY Powers DEF Sized
  <2>3. (i + 1) * TreeHeight = TreeHeight /\ i * TreeHeight = 0
    BY <2>1, <2>2
  <2>4. /\ [layer |-> i, tree |-> Shr(leaf, TreeHeight)] = TheTree
        /\ Low(Shr(leaf, 0), TreeHeight) = leaf
    <3>1. 0 \in 0 .. TreeHeight + 1
      BY <2>2
    <3>2. Shr(leaf, 0) = leaf
      BY <1>1, <3>1, Parts
    <3> QED
      BY <1>1, <2>1, <3>2, LeafOfTree DEF TheTree
  <2>5. LayerRoot(par, sm, pub, root, i) =
          compute_root(par, LeafFromSig(sm.layers[i].sig, root, RealSeed, TheTree, leaf),
                       leaf, sm.layers[i].auth, RealSeed, TheTree)
    BY <1>1, <2>2, <2>3, <2>4 DEF LayerRoot
  <2>6. LeafFromSig(sm.layers[i].sig, root, RealSeed, TheTree, leaf) = start0
    BY <1>1, <2>1 DEF LeafFromSig
  <2>7. AuthAt(key.state, leaf)
    BY DEF leaf
  <2>8. compute_root(par, start0, leaf, auth, RealSeed, TheTree) = TopRoot
    BY <1>1, <2>7, ComputeRootIs
  <2>9. VerifyTurn(p, root, i) = TopRoot
    BY <1>1, <1>2, <2>1, <2>5, <2>6, <2>8 DEF VerifyTurn
  <2> QED
    BY <2>1, <2>9 DEF VerifyInv
<1>6. VerifyInv(p, done, 1)
  BY <1>4, <1>5, Verifying!ForRule
<1> HIDE DEF done
<1>7. done = TopRoot
  BY <1>6 DEF VerifyInv
<1> QED
  BY <1>3, <1>7 DEF sm

-----------------------------------------------------------------------------

\* The index field can hold a value that is no one-time key's index.
SpareIndex == IndexSpace > Leaves

\* A key that signs has its seed, and one that was wiped an index past the last.
KeyInv ==
  /\ sk = [idx |-> sk.idx, seed |-> sk.seed, root |-> sk.root, state |-> sk.state]
  /\ sk.idx \in Nat
  /\ sk.seed \in {RealSeed, ZeroSeed}
  /\ sk.seed = RealSeed => sk.idx <= LastIndex
  /\ sk.seed = ZeroSeed => sk.idx > LastIndex

\* It holds of a fresh key.
LEMMA KeyInvInit == Init => KeyInv
<1> SUFFICES ASSUME Init
             PROVE  KeyInv
  OBVIOUS
<1>1. PICK g : sk = KeyPair(params, g)
  BY DEF Init
<1>2. \E root, state : sk = [idx |-> 0, seed |-> RealSeed, root |-> root, state |-> state]
  BY <1>1 DEF KeyPair
<1>3. 0 <= LastIndex
  BY LeavesNat
<1> QED
  BY <1>2, <1>3 DEF KeyInv, RealSeed, ZeroSeed

\* The key after each action.
LEMMA KeyNext ==
  ASSUME KeyInv, SpareIndex
  PROVE  /\ Sign => /\ sk' = [idx |-> sk.idx + 1, seed |-> sk.seed, root |-> sk.root,
                              state |-> Serialized(Advanced(sk))]
                    /\ sk.seed = RealSeed /\ sk.idx + 1 <= LastIndex
         /\ SignLast => /\ sk' = [idx |-> Leaves, seed |-> ZeroSeed, root |-> ZeroNode,
                                  state |-> Serialized(Wiped(sk.state))]
                        /\ sk.seed = RealSeed
         /\ Refuse => /\ sk' = [idx |-> IndexSpace - 1, seed |-> ZeroSeed, root |-> ZeroNode,
                                state |-> Erased(sk.state)]
                      /\ sk.seed = ZeroSeed
<1>1. /\ sk = [idx |-> sk.idx, seed |-> sk.seed, root |-> sk.root, state |-> sk.state]
      /\ sk.idx \in Nat /\ sk.seed \in {RealSeed, ZeroSeed}
      /\ sk.seed = RealSeed => sk.idx <= LastIndex
      /\ sk.seed = ZeroSeed => sk.idx > LastIndex
  BY DEF KeyInv
<1>2. /\ Leaves \in Nat /\ LastIndex = Leaves - 1 /\ IndexSpace \in Nat /\ IndexSpace > Leaves
      /\ LastIndex \in Int
  BY LeavesNat DEF SpareIndex
<1>3. ASSUME Sign
      PROVE  /\ sk' = [idx |-> sk.idx + 1, seed |-> sk.seed, root |-> sk.root,
                       state |-> Serialized(Advanced(sk))]
             /\ sk.seed = RealSeed /\ sk.idx + 1 <= LastIndex
  <2>1. sk.idx < LastIndex /\ sk' = [sk EXCEPT !.idx = (sk.idx + 1) % IndexSpace,
                                               !.state = Serialized(Advanced(sk))]
    BY <1>3 DEF Sign
  <2>2. (sk.idx + 1) % IndexSpace = sk.idx + 1
    BY <1>1, <1>2, <2>1
  <2>3. sk.idx + 1 <= LastIndex /\ sk.seed # ZeroSeed
    BY <1>1, <1>2, <2>1
  <2> DEFINE st == Serialized(Advanced(sk))
  <2> HIDE DEF st
  <2>4. sk' = [sk EXCEPT !.idx = sk.idx + 1, !.state = st]
    BY <2>1, <2>2 DEF st
  <2>5. sk' = [idx |-> sk.idx + 1, seed |-> sk.seed, root |-> sk.root, state |-> st]
    BY <1>1, <2>4
  <2> QED
    BY <1>1, <2>3, <2>5 DEF st
<1>4. ASSUME SignLast
      PROVE  /\ sk' = [idx |-> Leaves, seed |-> ZeroSeed, root |-> ZeroNode,
                       state |-> Serialized(Wiped(sk.state))]
             /\ sk.seed = RealSeed
  <2> DEFINE w  == Wiped(sk.state)
             wk == WipedKey(sk)
  <2>1. sk.idx = LastIndex /\ sk' = [wk EXCEPT !.idx = (wk.idx + 1) % IndexSpace,
                                               !.state = Serialized(wk.state)]
    BY <1>4 DEF SignLast
  <2>2. wk = [sk EXCEPT !.seed = ZeroSeed, !.root = ZeroNode, !.state = w]
    BY DEF WipedKey
  <2> HIDE DEF w, wk
  <2>3. wk = [idx |-> sk.idx, seed |-> ZeroSeed, root |-> ZeroNode, state |-> w]
    BY <1>1, <2>2
  <2>4. (sk.idx + 1) % IndexSpace = Leaves /\ sk.seed # ZeroSeed
    BY <1>1, <1>2, <2>1
  <2>5. wk.idx = sk.idx /\ wk.state = w
    BY <2>3
  <2>6. sk' = [wk EXCEPT !.idx = Leaves, !.state = Serialized(w)]
    BY <2>1, <2>4, <2>5
  <2>7. sk' = [idx |-> Leaves, seed |-> ZeroSeed, root |-> ZeroNode, state |-> Serialized(w)]
    BY <2>3, <2>6
  <2> QED
    BY <1>1, <2>4, <2>7 DEF w
<1>5. ASSUME Refuse
      PROVE  /\ sk' = [idx |-> IndexSpace - 1, seed |-> ZeroSeed, root |-> ZeroNode,
                       state |-> Erased(sk.state)]
             /\ sk.seed = ZeroSeed
  <2>1. sk.idx > LastIndex
    BY <1>5 DEF Refuse
  <2>2. sk.seed # RealSeed
    BY <1>1, <1>2, <2>1
  <2> QED
    BY <1>1, <1>5, <2>2 DEF Refuse
<1> QED
  BY <1>3, <1>4, <1>5

\* Each action keeps it.
LEMMA KeyInvNext ==
  ASSUME KeyInv, SpareIndex, [Next]_vars
  PROVE  KeyInv'
<1>1. sk.idx \in Nat /\ Leaves \in Nat /\ LastIndex = Leaves - 1 /\ IndexSpace \in Nat
      /\ IndexSpace > Leaves
  BY LeavesNat DEF KeyInv, SpareIndex
<1>2. CASE Sign
  <2>1. /\ sk' = [idx |-> sk.idx + 1, seed |-> sk.seed, root |-> sk.root,
                  state |-> Serialized(Advanced(sk))]
        /\ sk.seed = RealSeed /\ sk.idx + 1 <= LastIndex
    BY <1>2, KeyNext
  <2> QED
    BY <1>1, <2>1 DEF KeyInv, RealSeed, ZeroSeed
<1>3. CASE SignLast
  <2>1. sk' = [idx |-> Leaves, seed |-> ZeroSeed, root |-> ZeroNode,
               state |-> Serialized(Wiped(sk.state))]
    BY <1>3, KeyNext
  <2> QED
    BY <1>1, <2>1 DEF KeyInv, RealSeed, ZeroSeed
<1>4. CASE Refuse
  <2>1. sk' = [idx |-> IndexSpace - 1, seed |-> ZeroSeed, root |-> ZeroNode,
               state |-> Erased(sk.state)]
    BY <1>4, KeyNext
  <2> QED
    BY <1>1, <2>1 DEF KeyInv, RealSeed, ZeroSeed
<1>5. CASE UNCHANGED vars
  BY <1>5 DEF vars, KeyInv
<1> QED
  BY <1>2, <1>3, <1>4, <1>5 DEF Next

-----------------------------------------------------------------------------

\* The arrays have their sizes, and the stack is not higher than its array.
Bounded(par, s) == Shape(par, s) /\ s.stackoffset \in 0 .. TreeHeight + 1

\* The state of a live key is bounded.
LEMMA BetweenBounded ==
  ASSUME NEW par, NEW s, NEW t, Between(par, s, t)
  PROVE  Bounded(par, s)
<1>1. Sized(par) /\ Shape(par, s) /\ s.stackoffset = Cardinality(Levels(s))
  BY DEF Between, At, Traversal, OnStack
<1>2. Levels(s) \in Heights
  BY <1>1, TailsAre DEF Shape
<1>3. Cardinality(Levels(s)) \in 0 .. TreeHeight + 1
  BY <1>2, HeightsFinite
<1> QED
  BY <1>1, <1>3 DEF Bounded

\* What is wiped or written keeps its sizes.
LEMMA WipedBounded ==
  ASSUME NEW par, NEW s, Bounded(par, s)
  PROVE  Bounded(par, Wiped(s)) /\ Wiped(s).treehash = [j \in DOMAIN s.treehash |->
                                     [s.treehash[j] EXCEPT !.node = ZeroNode]]
<1> DEFINE w == Wiped(s)
           th == [j \in DOMAIN s.treehash |-> [s.treehash[j] EXCEPT !.node = ZeroNode]]
<1>1. HasFields(s) /\ HasInstances(par, s) /\ HasArrays(par, s)
      /\ s.stackoffset \in 0 .. TreeHeight + 1
  BY DEF Bounded, Shape
<1>2. th = [j \in DOMAIN s.treehash |-> [s.treehash[j] EXCEPT !.node = ZeroNode]]
  OBVIOUS
<1>3. w = [s EXCEPT !.stack = [i \in DOMAIN s.stack |-> ZeroNode],
                    !.stacklevels = [i \in DOMAIN s.stacklevels |-> 0],
                    !.auth = [i \in DOMAIN s.auth |-> ZeroNode],
                    !.keep = [i \in DOMAIN s.keep |-> ZeroNode],
                    !.treehash = th,
                    !.retain = [i \in DOMAIN s.retain |-> ZeroNode]]
  BY DEF Wiped
<1> HIDE DEF w, th
<1>4. /\ w.stack = [i \in DOMAIN s.stack |-> ZeroNode]
      /\ w.stacklevels = [i \in DOMAIN s.stacklevels |-> 0]
      /\ w.auth = [i \in DOMAIN s.auth |-> ZeroNode]
      /\ w.keep = [i \in DOMAIN s.keep |-> ZeroNode]
      /\ w.retain = [i \in DOMAIN s.retain |-> ZeroNode]
      /\ w.treehash = th /\ DOMAIN w = DOMAIN s /\ w.stackoffset = s.stackoffset
  BY <1>1, <1>3 DEF HasFields
<1>5. /\ DOMAIN th = DOMAIN s.treehash
      /\ \A j \in DOMAIN s.treehash : DOMAIN th[j] = DOMAIN s.treehash[j]
  BY <1>2
<1>6. HasFields(w)
  BY <1>1, <1>4 DEF HasFields
<1>7. HasInstances(par, w)
  BY <1>1, <1>4, <1>5 DEF HasInstances
<1>8. /\ DOMAIN w.stack = DOMAIN s.stack /\ DOMAIN w.stacklevels = DOMAIN s.stacklevels
      /\ DOMAIN w.auth = DOMAIN s.auth /\ DOMAIN w.keep = DOMAIN s.keep
      /\ DOMAIN w.retain = DOMAIN s.retain
  BY <1>4
<1>9. HasArrays(par, w)
  BY <1>1, <1>8 DEF HasArrays
<1> QED
  BY <1>1, <1>2, <1>4, <1>6, <1>7, <1>9 DEF Bounded, Shape, w

\* So is one that was written over with zeros and read back.
LEMMA ErasedBounded ==
  ASSUME NEW par, NEW s, Bounded(par, s)
  PROVE  Bounded(par, Erased(s))
<1> DEFINE w == Wiped(s)
           v == Erased(s)
           th == [j \in DOMAIN w.treehash |->
                   [h |-> 0, next_idx |-> 0, stackusage |-> 0, completed |-> 0,
                    node |-> ZeroNode]]
<1>1. HasFields(w) /\ HasInstances(par, w) /\ HasArrays(par, w) /\ TreeHeight \in Nat
  BY WipedBounded, Powers DEF Bounded, Shape
<1>2. v = [w EXCEPT !.stackoffset = 0, !.treehash = th, !.next_leaf = 0]
  BY DEF Erased
<1>3. /\ DOMAIN th = DOMAIN w.treehash
      /\ \A j \in DOMAIN w.treehash :
           DOMAIN th[j] = {"h", "next_idx", "stackusage", "completed", "node"}
  OBVIOUS
<1> HIDE DEF w, v, th
<1>4. /\ v.stack = w.stack /\ v.stacklevels = w.stacklevels /\ v.auth = w.auth
      /\ v.keep = w.keep /\ v.retain = w.retain /\ v.treehash = th /\ DOMAIN v = DOMAIN w
      /\ v.stackoffset = 0
  BY <1>1, <1>2 DEF HasFields
<1>5. HasFields(v)
  BY <1>1, <1>4 DEF HasFields
<1>6. HasInstances(par, v)
  BY <1>1, <1>3, <1>4 DEF HasInstances
<1>7. HasArrays(par, v)
  BY <1>1, <1>4 DEF HasArrays
<1>8. v.stackoffset \in 0 .. TreeHeight + 1
  BY <1>1, <1>4
<1> QED
  BY <1>5, <1>6, <1>7, <1>8 DEF Bounded, Shape, v

\* Cutting the counters changes no sizes.
LEMMA SerializedBounded ==
  ASSUME NEW par, NEW s, Bounded(par, s)
  PROVE  Bounded(par, Serialized(s))
<1> DEFINE v == Serialized(s)
           th == [j \in DOMAIN s.treehash |-> StoredInstance(s.treehash[j])]
<1>1. HasFields(s) /\ HasInstances(par, s) /\ HasArrays(par, s)
      /\ s.stackoffset \in 0 .. TreeHeight + 1
  BY DEF Bounded, Shape
<1>2. v = [s EXCEPT !.stackoffset = Unsigned(s.stackoffset), !.next_leaf = Unsigned(s.next_leaf),
                    !.treehash = th]
  BY DEF Serialized
<1>3. /\ DOMAIN th = DOMAIN s.treehash
      /\ \A j \in DOMAIN s.treehash : DOMAIN th[j] = DOMAIN s.treehash[j]
  BY DEF StoredInstance
<1> HIDE DEF v, th
<1>4. /\ v.stack = s.stack /\ v.stacklevels = s.stacklevels /\ v.auth = s.auth
      /\ v.keep = s.keep /\ v.retain = s.retain /\ v.treehash = th /\ DOMAIN v = DOMAIN s
      /\ v.stackoffset = Unsigned(s.stackoffset)
  BY <1>1, <1>2 DEF HasFields
<1>5. HasFields(v)
  BY <1>1, <1>4 DEF HasFields
<1>6. HasInstances(par, v)
  BY <1>1, <1>3, <1>4 DEF HasInstances
<1>7. HasArrays(par, v)
  BY <1>1, <1>4 DEF HasArrays
<1>8. v.stackoffset \in 0 .. TreeHeight + 1
  <2> DEFINE o == s.stackoffset
             m == UINT_SPACE
             H == TreeHeight
  <2>1. o \in Nat /\ o <= H + 1 /\ m \in Nat \ {0} /\ H \in Nat
    BY <1>1, UnsignedAssumption, Powers
  <2> HIDE DEF o, m, H
  <2>2. o % m \in Nat /\ o % m <= o
    BY <2>1
  <2>3. o % m \in 0 .. H + 1
    BY <2>1, <2>2
  <2> QED
    BY <1>4, <2>3 DEF o, m, H, Unsigned
<1> QED
  BY <1>5, <1>6, <1>7, <1>8 DEF Bounded, Shape, v

-----------------------------------------------------------------------------

(***************************************************************************)
(* bds_k <= 1, or an even number of instances: with an odd one the half of *)
(* it, rounded down, is not enough updates (the repository's own           *)
(* parameters have bds_k = 0).                                             *)
(***************************************************************************)
EnoughUpdates == \A k \in BdsKs : k <= 1 \/ (TreeHeight - k) % 2 = 0

\* What is asked of the constants.
Suited == SpareIndex /\ EnoughUpdates /\ Fits

(***************************************************************************)
(* The inductive invariant: a key that signs has its tree at its index,    *)
(* between two signatures.                                                 *)
(***************************************************************************)
FastInv ==
  /\ KeyInv
  /\ Sized(params) /\ Paired(params) /\ params.d = 1
  /\ pk = [seed |-> RealSeed, root |-> TopRoot]
  /\ sk.seed = RealSeed => sk.root = TopRoot /\ Between(params, sk.state, sk.idx)
  /\ Bounded(params, sk.state)
  /\ SignaturesVerify

\* The invariant holds of a fresh key, by KeyPairIs.
LEMMA FastInvInit ==
  ASSUME Suited, Init
  PROVE  FastInv
<1>1. PICK k \in BdsKs, g \in Garbage :
        /\ params = [tree_height |-> TreeHeight, bds_k |-> k, d |-> 1]
        /\ sk = KeyPair(params, g)
        /\ pk = [seed |-> RealSeed, root |-> sk.root]
        /\ out = [ret |-> "none", sm |-> NoSig]
  BY DEF Init
<1>2. Sized(params) /\ params.d = 1
  BY <1>1, XmssFastAssumption DEF Sized
<1>3. Paired(params)
  BY <1>1 DEF Paired, Suited, EnoughUpdates, Instances
<1>4. /\ sk = [idx |-> 0, seed |-> RealSeed, root |-> TopRoot, state |-> sk.state]
      /\ Between(params, sk.state, 0)
  <2>1. Fits
    BY DEF Suited
  <2> QED
    BY <1>1, <1>2, <2>1, KeyPairIs
<1>5. Bounded(params, sk.state)
  BY <1>4, BetweenBounded
<1>6. SignaturesVerify
  BY <1>1 DEF SignaturesVerify
<1>7. sk.idx = 0 /\ sk.root = TopRoot
  BY <1>4
<1> QED
  BY <1>1, <1>2, <1>3, <1>4, <1>5, <1>6, <1>7, KeyInvInit DEF FastInv

\* Each action keeps it: Sign by SignatureVerifies and AdvancedIs.
LEMMA FastInvNext ==
  ASSUME Suited, FastInv, [Next]_vars
  PROVE  FastInv'
<1>1. /\ KeyInv /\ SpareIndex /\ Fits /\ Sized(params) /\ Paired(params) /\ params.d = 1
      /\ pk = [seed |-> RealSeed, root |-> TopRoot] /\ Bounded(params, sk.state)
  BY DEF Suited, FastInv
<1>2. KeyInv'
  BY <1>1, KeyInvNext
<1>3. CASE Sign
  <2> DEFINE s == sk.state
             t == sk.idx
             u == AdvancedState(params, s, t)
  <2>1. /\ sk' = [idx |-> t + 1, seed |-> sk.seed, root |-> sk.root,
                  state |-> Serialized(Advanced(sk))]
        /\ sk.seed = RealSeed /\ t < LastIndex /\ out' = [ret |-> "ok", sm |-> Signature(sk)]
        /\ params' = params /\ pk' = pk
    BY <1>1, <1>3, KeyNext DEF Sign
  <2>2. sk.root = TopRoot /\ Between(params, s, t)
    BY <2>1 DEF FastInv
  <2>3. Advanced(sk) = u
    BY <2>1 DEF Advanced, AdvancedState
  <2> HIDE DEF u
  <2>4. Between(params, u, t + 1)
    BY <1>1, <2>1, <2>2, AdvancedIs DEF u
  <2>5. Between(params, Serialized(u), t + 1)
    <3>1. Alike(u, Serialized(u))
      BY <1>1, <2>4, SerializedIs
    <3> QED
      BY <2>4, <3>1, AlikeBetween
  <2>6. sk'.root = TopRoot /\ sk'.state = Serialized(u) /\ sk'.idx = t + 1
    BY <2>1, <2>2, <2>3
  <2>7. Bounded(params, Serialized(u))
    BY <2>5, BetweenBounded
  <2>8. sign_open(params, Signature(sk), pk)
    <3>1. sk.idx \in 0 .. LastIndex
      BY <1>1, <2>1, LeavesNat DEF KeyInv
    <3>2. AuthAt(sk.state, sk.idx)
      BY <2>2 DEF Between, PathAt
    <3> QED
      BY <1>1, <2>1, <2>2, <3>1, <3>2, SignatureVerifies
  <2>9. SignaturesVerify'
    BY <2>1, <2>8 DEF SignaturesVerify, Verifies
  <2> QED
    BY <1>1, <1>2, <2>1, <2>5, <2>6, <2>7, <2>9 DEF FastInv, TopRoot
<1>4. CASE SignLast
  <2> DEFINE w == Serialized(Wiped(sk.state))
  <2>1. /\ sk' = [idx |-> Leaves, seed |-> ZeroSeed, root |-> ZeroNode, state |-> w]
        /\ sk.seed = RealSeed /\ sk.idx = LastIndex
        /\ out' = [ret |-> "ok", sm |-> Signature(WipedKey(sk))]
        /\ params' = params /\ pk' = pk
    BY <1>1, <1>4, KeyNext DEF SignLast
  <2>2. Bounded(params, w)
    BY <1>1, WipedBounded, SerializedBounded
  <2> HIDE DEF w
  <2>3. sk'.seed = ZeroSeed /\ sk'.state = w
    BY <2>1
  <2>4. Signature(WipedKey(sk)).idx = LastIndex
    <3>1. WipedKey(sk).idx = sk.idx
      BY <1>1 DEF WipedKey, KeyInv
    <3> QED
      BY <2>1, <3>1, SignatureIs
  <2>5. ~ LastIndex < LastIndex
    BY LeavesNat
  <2>6. SignaturesVerify'
    BY <2>1, <2>4, <2>5 DEF SignaturesVerify
  <2> QED
    BY <1>1, <1>2, <2>1, <2>2, <2>3, <2>6 DEF FastInv, TopRoot, RealSeed, ZeroSeed
<1>5. CASE Refuse
  <2> DEFINE w == Erased(sk.state)
  <2>1. /\ sk' = [idx |-> IndexSpace - 1, seed |-> ZeroSeed, root |-> ZeroNode, state |-> w]
        /\ out'.ret = "spent" /\ params' = params /\ pk' = pk
    BY <1>1, <1>5, KeyNext DEF Refuse
  <2>2. Bounded(params, w)
    BY <1>1, ErasedBounded
  <2> HIDE DEF w
  <2>3. sk'.seed = ZeroSeed /\ sk'.state = w
    BY <2>1
  <2>6. SignaturesVerify'
    BY <2>1 DEF SignaturesVerify
  <2> QED
    BY <1>1, <1>2, <2>1, <2>2, <2>3, <2>6 DEF FastInv, TopRoot, RealSeed, ZeroSeed
<1>6. CASE UNCHANGED vars
  <2>1. SignaturesVerify'
    BY <1>6 DEF vars, FastInv, SignaturesVerify, Verifies
  <2> QED
    BY <1>2, <1>6, <2>1 DEF vars, FastInv
<1> QED
  BY <1>3, <1>4, <1>5, <1>6 DEF Next

\* FastInv is an invariant.
THEOREM FastInvHolds == Suited /\ Spec => []FastInv
<1>1. CASE Suited
  <2>1. Init => FastInv
    BY <1>1, FastInvInit
  <2>2. FastInv /\ [Next]_vars => FastInv'
    BY <1>1, FastInvNext
  <2> QED
    BY <2>1, <2>2, PTL DEF Spec
<1>2. CASE ~ Suited
  BY <1>2
<1> QED
  BY <1>1, <1>2

(***************************************************************************)
(* Every signature before the last index verifies: xmss_core_fast.c has    *)
(* the right authentication path in its state at every index, whatever     *)
(* the height of the tree and whatever bds_k it keeps.                     *)
(***************************************************************************)
THEOREM SignaturesVerifyHolds == Suited /\ Spec => []SignaturesVerify
  BY FastInvHolds, PTL DEF FastInv

\* No array of a state is ever left, during a tree's whole life or after.
THEOREM InBoundsHolds == Suited /\ Spec => []InBounds
<1>1. FastInv => InBounds
  <2> SUFFICES ASSUME FastInv
               PROVE  InBounds
    OBVIOUS
  <2>1. HasArrays(params, sk.state) /\ sk.state.stackoffset \in 0 .. TreeHeight + 1
        /\ params.tree_height = TreeHeight
    BY DEF FastInv, Bounded, Shape, Sized
  <2> QED
    BY <2>1 DEF InBounds, StateInBounds, HasArrays
<1> QED
  BY <1>1, FastInvHolds, PTL

-----------------------------------------------------------------------------

\* A fresh key is a fresh signer.
LEMMA PromiseInit == Init => Promise!Init
<1> SUFFICES ASSUME Init
             PROVE  Promise!Init
  OBVIOUS
<1>1. PICK g : sk = KeyPair(params, g) /\ out = [ret |-> "none", sm |-> NoSig]
  BY DEF Init
<1>2. sk.idx = 0 /\ sk.seed = RealSeed /\ out.ret = "none"
  BY <1>1 DEF KeyPair
<1> QED
  BY <1>2 DEF Promise!Init, Promise!NoKey

\* Every step is one the promise allows.
LEMMA PromiseNext ==
  ASSUME SpareIndex, KeyInv, [Next]_vars
  PROVE  [Promise!Next]_(Promise!vars)
<1> DEFINE next(k) == IF k.seed = RealSeed THEN k.idx ELSE Leaves
           key(o)  == IF o.ret = "ok" /\ o.sm.layers[0].sig.seed = RealSeed
                      THEN o.sm.layers[0].sig.leaf ELSE Leaves
<1>1. /\ sk.idx \in Nat /\ Leaves \in Nat /\ LastIndex = Leaves - 1
      /\ RealSeed # ZeroSeed
  BY LeavesNat DEF KeyInv, RealSeed, ZeroSeed
<1>2. CASE Sign
  <2>1. /\ sk' = [idx |-> sk.idx + 1, seed |-> sk.seed, root |-> sk.root,
                  state |-> Serialized(Advanced(sk))]
        /\ sk.seed = RealSeed /\ sk.idx < Leaves - 1
    BY <1>1, <1>2, KeyNext DEF Sign
  <2>2. out' = [ret |-> "ok", sm |-> Signature(sk)]
    BY <1>2 DEF Sign
  <2>3. Signature(sk).layers[0].sig.seed = RealSeed /\ Signature(sk).layers[0].sig.leaf = sk.idx
    <3>1. Signature(sk).layers[0].sig =
            wots_sign(hash_message(sk.root, sk.idx), RealSeed, TheTree, sk.idx)
      BY <2>1, SignatureIs
    <3> QED
      BY <3>1 DEF wots_sign
  <2>4. key(out') = sk.idx /\ out'.ret = "ok" /\ sk'.seed = RealSeed /\ sk'.idx = sk.idx + 1
    BY <2>1, <2>2, <2>3
  <2>5. Promise!Sign
    BY <2>1, <2>4 DEF Promise!Sign
  <2> QED
    BY <2>5 DEF Promise!Next
<1>3. CASE SignLast
  <2>1. /\ sk' = [idx |-> Leaves, seed |-> ZeroSeed, root |-> ZeroNode,
                  state |-> Serialized(Wiped(sk.state))]
        /\ sk.seed = RealSeed /\ sk.idx = Leaves - 1
    BY <1>1, <1>3, KeyNext DEF SignLast
  <2>2. out' = [ret |-> "ok", sm |-> Signature(WipedKey(sk))]
    BY <1>3 DEF SignLast
  <2>3. Signature(WipedKey(sk)).layers[0].sig.seed = ZeroSeed
    <3>1. WipedKey(sk).seed = ZeroSeed
      <4>1. sk = [idx |-> sk.idx, seed |-> sk.seed, root |-> sk.root, state |-> sk.state]
        BY DEF KeyInv
      <4>2. "seed" \in DOMAIN sk
        BY <4>1
      <4> QED
        BY <4>2 DEF WipedKey
    <3> DEFINE wk == WipedKey(sk)
    <3>2. Signature(wk).layers[0].sig =
            wots_sign(hash_message(wk.root, wk.idx), wk.seed, TheTree, wk.idx)
      BY SignatureIs
    <3> QED
      BY <3>1, <3>2 DEF wots_sign
  <2>4. key(out') = Leaves /\ out'.ret = "ok" /\ next(sk') = Leaves
    BY <1>1, <2>1, <2>2, <2>3
  <2>5. Promise!SignLast
    BY <2>1, <2>4 DEF Promise!SignLast, Promise!NoKey
  <2> QED
    BY <2>5 DEF Promise!Next
<1>4. CASE Refuse
  <2>1. /\ sk' = [idx |-> IndexSpace - 1, seed |-> ZeroSeed, root |-> ZeroNode,
                  state |-> Erased(sk.state)]
        /\ sk.seed = ZeroSeed
    BY <1>4, KeyNext
  <2>2. out'.ret = "spent"
    BY <1>4 DEF Refuse
  <2>3. next(sk) = Leaves /\ next(sk') = Leaves /\ key(out') = Leaves
    BY <1>1, <2>1, <2>2
  <2>4. Promise!Refuse
    BY <2>2, <2>3 DEF Promise!Refuse, Promise!NoKey
  <2> QED
    BY <2>4 DEF Promise!Next
<1>5. CASE UNCHANGED vars
  BY <1>5 DEF vars, Promise!vars
<1> QED
  BY <1>2, <1>3, <1>4, <1>5 DEF Next

(***************************************************************************)
(* If the index field has a spare value a key of xmss_core_fast.c keeps    *)
(* the promise of a signer, whatever bds_k is and whether or not there are *)
(* enough updates: its one-time keys in order, none twice, then refusals   *)
(* for good.                                                               *)
(***************************************************************************)
THEOREM ImplementsSignerHolds == SpareIndex /\ Spec => ImplementsSigner
<1>1. CASE SpareIndex
  <2>1. KeyInv /\ [Next]_vars => KeyInv' /\ [Promise!Next]_(Promise!vars)
    BY <1>1, KeyInvNext, PromiseNext
  <2> QED
    BY <2>1, KeyInvInit, PromiseInit, PTL DEF Spec, ImplementsSigner, Promise!Spec
<1>2. CASE ~ SpareIndex
  BY <1>2
<1> QED
  BY <1>1, <1>2

-----------------------------------------------------------------------------

\* There are sums over finite sets.
LEMMA SumExists ==
  ASSUME NEW S, IsFiniteSet(S), NEW v
  PROVE  \E sum : Rules!IsSum(sum, v, S)
<1> DEFINE size == [s \in SUBSET S |-> Cardinality(s)]
<1>1. ASSUME NEW s \in SUBSET S
      PROVE  /\ size[s] \in Nat /\ size[s] <= size[S]
             /\ size[s] = 0 <=> s = {}
             /\ \A x \in s : size[s \ {x}] = size[s] - 1
  <2>1. IsFiniteSet(s) /\ Cardinality(s) \in Nat /\ Cardinality(s) <= Cardinality(S)
    BY FS_Subset, FS_CardinalityType
  <2>2. Cardinality(s) = 0 <=> s = {}
    BY <2>1, FS_EmptySet
  <2>3. \A x \in s : Cardinality(s \ {x}) = Cardinality(s) - 1
    BY <2>1, FS_RemoveElement
  <2> QED
    BY <2>1, <2>2, <2>3
<1> HIDE DEF size
<1> QED
  BY <1>1, Rules!SumExists DEF Rules!Sizes

\* The sum of the sizes of disjoint finite sets is the size of their union.
FiniteParts(T, S) == \A x \in S : IsFiniteSet(T[x])
DisjointParts(T, S) == \A x, y \in S : x # y => T[x] \cap T[y] = {}
Sizes(T, v, S) == \A x \in S : v[x] = Cardinality(T[x])

\* The size of a union of disjoint sets is the sum of their sizes.
LEMMA UnionSize ==
  ASSUME NEW S, IsFiniteSet(S), NEW T, FiniteParts(T, S), DisjointParts(T, S),
         NEW v, Sizes(T, v, S), NEW sum, Rules!IsSum(sum, v, S)
  PROVE  sum[S] = Cardinality(UNION {T[x] : x \in S})
<1> DEFINE All(s) == UNION {T[x] : x \in s}
           Good(s) == IsFiniteSet(All(s)) /\ sum[s] = Cardinality(All(s))
           M == {k \in Nat : \A s \in SUBSET S : Cardinality(s) = k => Good(s)}
<1>0. \A s \in SUBSET S : IsFiniteSet(s) /\ Cardinality(s) \in Nat
  BY FS_Subset, FS_CardinalityType
<1>1. ASSUME NEW s \in SUBSET S, Cardinality(s) = 0
      PROVE  Good(s)
  <2>1. s = {} /\ All({}) = {}
    BY <1>0, <1>1, FS_EmptySet
  <2>2. sum[{}] = 0
    BY <2>1, Rules!SumStep
  <2> QED
    BY <2>1, <2>2, FS_EmptySet
<1>2. ASSUME NEW k \in Nat, \A s \in SUBSET S : Cardinality(s) = k => Good(s),
             NEW s \in SUBSET S, Cardinality(s) = k + 1
      PROVE  Good(s)
  <2> DEFINE e == Rules!Picked(s)
             r == s \ {e}
  <2>1. s # {} /\ IsFiniteSet(s)
    BY <1>0, <1>2, FS_EmptySet
  <2>2. e \in s /\ Cardinality(r) = k /\ r \in SUBSET S /\ e \in S
    <3>1. e \in s
      BY <2>1 DEF Rules!Picked
    <3>2. Cardinality(r) = Cardinality(s) - 1
      BY <2>1, <3>1, FS_RemoveElement
    <3> QED
      BY <1>2, <3>1, <3>2
  <2>3. sum[s] = v[e] + sum[r]
    BY <2>1, Rules!SumStep
  <2>4. s = r \union {e} /\ e \notin r
    BY <2>2
  <2> HIDE DEF e, r
  <2>5. Good(r)
    <3> HIDE DEF Good
    <3> QED
      BY <1>2, <2>2
  <2>6. All(s) = All(r) \union T[e]
    BY <2>4
  <2>7. All(r) \cap T[e] = {}
    <3>1. \A x \in r : x \in S /\ x # e
      BY <2>2, <2>4
    <3>2. \A x \in r : T[x] \cap T[e] = {}
      BY <2>2, <3>1 DEF DisjointParts
    <3> QED
      BY <3>2
  <2>8. IsFiniteSet(T[e]) /\ v[e] = Cardinality(T[e]) /\ Cardinality(T[e]) \in Nat
    <3>1. IsFiniteSet(T[e]) /\ v[e] = Cardinality(T[e])
      BY <2>2 DEF FiniteParts, Sizes
    <3> QED
      BY <3>1, FS_CardinalityType
  <2> DEFINE A == All(r)
             B == T[e]
  <2>9. IsFiniteSet(A) /\ IsFiniteSet(B) /\ A \cap B = {} /\ sum[r] = Cardinality(A)
        /\ v[e] = Cardinality(B) /\ All(s) = A \union B
    BY <2>5, <2>6, <2>7, <2>8
  <2> HIDE DEF A, B
  <2>10. IsFiniteSet(A \union B)
         /\ Cardinality(A \union B) = Cardinality(A) + Cardinality(B) - Cardinality(A \cap B)
    BY <2>9, FS_Union
  <2>11. Cardinality(A \cap B) = 0 /\ Cardinality(A) \in Nat /\ Cardinality(B) \in Nat
    BY <2>9, FS_EmptySet, FS_CardinalityType
  <2> HIDE DEF All
  <2> QED
    BY <2>3, <2>9, <2>10, <2>11
<1>3. Cardinality(S) \in M
  <2> HIDE DEF Good
  <2>1. 0 \in M
    BY <1>1
  <2>2. ASSUME NEW k \in Nat, k \in M
        PROVE  k + 1 \in M
    <3>1. \A s \in SUBSET S : Cardinality(s) = k => Good(s)
      BY <2>2
    <3> QED
      BY <1>2, <3>1
  <2>3. Cardinality(S) \in Nat
    BY <1>0
  <2> HIDE DEF M
  <2> QED
    BY <2>1, <2>2, <2>3, Rules!SetInduction
<1>4. Good(S)
  <2> HIDE DEF Good
  <2> QED
    BY <1>3
<1> QED
  BY <1>4

-----------------------------------------------------------------------------

\* The tail nodes of two instances are not of the same height.
LEMMA TailsDisjoint ==
  ASSUME NEW p, Sized(p), NEW s, HasInstances(p, s), Apart(s),
         NEW j \in Busy(s), NEW i \in Busy(s), i # j
  PROVE  TailsOf(s, i) \cap TailsOf(s, j) = {}
<1>1. ASSUME NEW a \in Busy(s), NEW b \in Busy(s), a < b, NEW l \in TailsOf(s, a) \cap TailsOf(s, b)
      PROVE  FALSE
  <2>1. a \in 0 .. TreeHeight - 1 /\ l \in 0 .. a - 1
    BY TailsAre
  <2>2. a <= l
    BY <1>1 DEF Apart
  <2> QED
    BY <2>1, <2>2
<1>2. i \in Int /\ j \in Int
  BY TailsAre
<1>3. i < j \/ j < i
  BY <1>2
<1> QED
  BY <1>1, <1>3

\* The stack offset is the sum of the stack usages, as MapThenSumSet takes it.
LEMMA OffsetIs ==
  ASSUME NEW p, Sized(p), NEW s, HasInstances(p, s), NEW t, Traversal(s, t)
  PROVE  s.stackoffset = MapThenSumSet(LAMBDA i : s.treehash[i].stackusage, Busy(s))
<1> DEFINE S == Busy(s)
           v == [i \in S |-> s.treehash[i].stackusage]
           T == [i \in S |-> TailsOf(s, i)]
           Is(f) == f = [r \in SUBSET S |->
                           IF r = {} THEN 0
                           ELSE s.treehash[CHOOSE x \in r : TRUE].stackusage
                                  + f[r \ {CHOOSE x \in r : TRUE}]]
           sum == CHOOSE f : Is(f)
<1>1. MapThenSumSet(LAMBDA i : s.treehash[i].stackusage, S) = sum[S]
  BY DEF MapThenSumSet, MapThenFoldSet
<1>2. S \subseteq 0 .. TreeHeight - 1 /\ IsFiniteSet(S)
  <2>1. S \subseteq 0 .. TreeHeight - 1 /\ TreeHeight \in Nat
    BY TailsAre, Powers
  <2> HIDE DEF S
  <2>2. IsFiniteSet(0 .. TreeHeight - 1)
    BY <2>1, FS_Interval
  <2> QED
    BY <2>1, <2>2, FS_Subset
<1>3. ASSUME NEW f
      PROVE  Is(f) <=> Rules!IsSum(f, v, S)
  <2>1. ASSUME NEW r \in SUBSET S, r # {}
        PROVE  v[Rules!Picked(r)] = s.treehash[CHOOSE x \in r : TRUE].stackusage
    <3>1. Rules!Picked(r) \in S /\ Rules!Picked(r) = CHOOSE x \in r : TRUE
      BY <2>1 DEF Rules!Picked
    <3> QED
      BY <3>1
  <2> DEFINE a == [r \in SUBSET S |->
                     IF r = {} THEN 0
                     ELSE s.treehash[CHOOSE x \in r : TRUE].stackusage
                            + f[r \ {CHOOSE x \in r : TRUE}]]
             b == [r \in SUBSET S |->
                     IF r = {} THEN 0
                     ELSE v[Rules!Picked(r)] + f[r \ {Rules!Picked(r)}]]
  <2>2. a = b
    <3> HIDE DEF S, v
    <3> QED
      BY <2>1 DEF Rules!Picked
  <2>3. (Is(f) <=> f = a) /\ (Rules!IsSum(f, v, S) <=> f = b)
    BY DEF Rules!IsSum
  <2> HIDE DEF a, b, Is
  <2> QED
    BY <2>2, <2>3
<1>4. \E f : Rules!IsSum(f, v, S)
  <2> HIDE DEF S, v
  <2> QED
    BY <1>2, SumExists
<1> HIDE DEF Is
<1>5. Rules!IsSum(sum, v, S)
  <2>1. Is(sum)
    BY <1>3, <1>4
  <2> HIDE DEF sum, v, S
  <2> QED
    BY <1>3, <2>1
<1> HIDE DEF sum
<1>6. \A i \in S : v[i] = Cardinality(T[i]) /\ T[i] = TailsOf(s, i) /\ IsFiniteSet(T[i])
  <2> SUFFICES ASSUME NEW i \in S
               PROVE  v[i] = Cardinality(T[i]) /\ T[i] = TailsOf(s, i) /\ IsFiniteSet(T[i])
    OBVIOUS
  <2>1. v[i] = s.treehash[i].stackusage /\ T[i] = TailsOf(s, i) /\ i \in DOMAIN s.treehash
    BY DEF Busy
  <2>2. s.treehash[i].stackusage = Cardinality(TailsOf(s, i))
    BY <2>1 DEF Traversal, InstanceAt
  <2>3. IsFiniteSet(TailsOf(s, i))
    BY <2>1, TailsAre, HeightsFinite
  <2> QED
    BY <2>1, <2>2, <2>3
<1>7. Levels(s) = UNION {T[i] : i \in S}
  BY DEF Levels
<1>8. DisjointParts(T, S)
  <2>1. \A i, j \in Busy(s) : i # j => TailsOf(s, i) \cap TailsOf(s, j) = {}
    BY TailsDisjoint DEF Traversal
  <2> QED
    BY <2>1 DEF DisjointParts
<1>9. FiniteParts(T, S) /\ Sizes(T, v, S)
  BY <1>6 DEF FiniteParts, Sizes
<1>10. s.stackoffset = Cardinality(Levels(s))
  BY DEF Traversal, OnStack
<1>11. sum[S] = Cardinality(UNION {T[i] : i \in S})
  <2> HIDE DEF S, v, T
  <2> QED
    BY <1>2, <1>5, <1>8, <1>9, UnionSize
<1> QED
  BY <1>1, <1>7, <1>10, <1>11

(***************************************************************************)
(* The stack that the instances share holds their tail nodes and nothing   *)
(* else, at every index of a tree.                                         *)
(***************************************************************************)
THEOREM StackIsTailNodesHolds == Suited /\ Spec => []StackIsTailNodes
<1>1. FastInv => StackIsTailNodes
  <2> SUFFICES ASSUME FastInv, sk.seed = RealSeed
               PROVE  /\ sk.state.stackoffset =
                           MapThenSumSet(LAMBDA i : sk.state.treehash[i].stackusage, Running)
                      /\ \A i \in DOMAIN sk.state.treehash \ Running :
                           sk.state.treehash[i].stackusage = 0
    BY DEF StackIsTailNodes
  <2> DEFINE s == sk.state
  <2>1. /\ Sized(params) /\ HasInstances(params, s) /\ Traversal(s, sk.idx)
    BY DEF FastInv, Between, At, Shape
  <2>2. Running = Busy(s)
    BY DEF Running, Busy
  <2>3. \A i \in DOMAIN s.treehash \ Busy(s) : s.treehash[i].stackusage = 0
    BY <2>1 DEF Traversal, InstanceAt
  <2> HIDE DEF s
  <2>4. s.stackoffset = MapThenSumSet(LAMBDA i : s.treehash[i].stackusage, Busy(s))
    BY <2>1, OffsetIs
  <2> QED
    BY <2>2, <2>3, <2>4 DEF s
<1> QED
  BY <1>1, FastInvHolds, PTL
=============================================================================
