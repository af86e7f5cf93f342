--------------------------- MODULE XmssCoreProofs ---------------------------
(***************************************************************************)
(* Proofs about XmssCore, for every tree height, every number of layers    *)
(* and every index field that holds the indices: treehash computes the     *)
(* root of a tree and the authentication path of any of its leaves,        *)
(* compute_root gets from the leaf and the path to the root, and so every  *)
(* signature of a key verifies.                                            *)
(***************************************************************************)
EXTENDS XmssCore, TLAPS

\* The proof rules of loops, and arithmetic; the loop itself plays no part.
NoTurn(p, t, i) == t
NoInv(p, t, i) == TRUE
Rules == INSTANCE LoopRules WITH Body <- NoTurn, Inv <- NoInv

\* The constants, and the exponents that occur.
LEMMA Sizes ==
  /\ TreeHeight \in Nat \ {0} /\ Layers \in Nat \ {0}
  /\ TreeHeight * Layers \in Nat
  /\ \A i \in 0 .. Layers : i * TreeHeight <= TreeHeight * Layers
<1>1. TreeHeight \in Nat \ {0} /\ Layers \in Nat \ {0}
  BY XmssCoreAssumption
<1>2. \A i \in 0 .. Layers : i * TreeHeight <= TreeHeight * Layers
  BY <1>1
<1> QED
  BY <1>1, <1>2

\* Powers of two up to the height of a tree.
LEMMA Powers ==
  /\ TreeHeight \in Nat \ {0}
  /\ 2^0 = 1
  /\ \A a \in 0 .. TreeHeight + 1 : 2^a \in Nat \ {0}
  /\ \A a \in 0 .. TreeHeight : 2^(a + 1) = 2 * 2^a
  /\ \A b \in 0 .. TreeHeight + 1 : \A a \in 0 .. b - 1 :
       \E q \in Nat : q > 0 /\ 2^b = (2 * q) * 2^a
<1>1. TreeHeight \in Nat \ {0} /\ TreeHeight <= TreeHeight * Layers
  <2>1. 1 * TreeHeight <= TreeHeight * Layers
    BY Sizes
  <2> QED
    BY <2>1, Sizes
<1>2. \A i \in 0 .. TreeHeight : 2^(i + 1) = 2 * 2^i
  BY <1>1, Sizes, PowersAssumption DEF PowersOfTwo
<1>3. ASSUME NEW a \in 0 .. TreeHeight + 1
      PROVE  2^a \in Nat \ {0}
  BY <1>1, <1>2, Rules!PowNat
<1>4. ASSUME NEW b \in 0 .. TreeHeight + 1, NEW a \in 0 .. b - 1
      PROVE  \E q \in Nat : q > 0 /\ 2^b = (2 * q) * 2^a
  <2>1. a \in Nat /\ b \in Nat /\ a < b /\ b <= TreeHeight + 1
    BY <1>1
  <2> QED
    BY <1>1, <1>2, <2>1, Rules!PowLess
<1> QED
  BY <1>1, <1>2, <1>3, <1>4

-----------------------------------------------------------------------------

(***************************************************************************)
(* The first of the leaves under node i of height h; the leaf after its    *)
(* last is the first under node i + 1.  A tree has First(1, TreeHeight)    *)
(* leaves.                                                                 *)
(***************************************************************************)
First(i, h) == i * 2^h

\* Leaves are numbers, and a leaf is its own first.
LEMMA FirstNat ==
  /\ \A h \in 0 .. TreeHeight + 1 : \A i \in Nat : First(i, h) \in Nat
  /\ \A i \in Nat : First(i, 0) = i
  /\ \A h \in 0 .. TreeHeight + 1 : First(0, h) = 0 /\ First(1, h) > 0
  BY Powers DEF First

\* The nodes of a height come one after the other.
LEMMA FirstLess ==
  ASSUME NEW h \in 0 .. TreeHeight + 1, NEW i \in Nat, NEW k \in Nat
  PROVE  i < k <=> First(i, h) < First(k, h)
<1>1. 2^h \in Nat \ {0}
  BY Powers
<1> QED
  BY <1>1 DEF First

\* No two of them begin at the same leaf.
LEMMA FirstSame ==
  ASSUME NEW h \in 0 .. TreeHeight + 1, NEW i \in Nat, NEW k \in Nat,
         First(i, h) = First(k, h)
  PROVE  i = k
<1>1. 2^h \in Nat \ {0}
  BY Powers
<1> QED
  BY <1>1 DEF First

\* A node and its left child have the same first leaf.
LEMMA FirstUp ==
  ASSUME NEW h \in 0 .. TreeHeight, NEW i \in Nat
  PROVE  First(2 * i, h) = First(i, h + 1)
<1>1. 2^h \in Nat \ {0} /\ 2^(h + 1) = 2 * 2^h
  BY Powers
<1> QED
  BY <1>1 DEF First

\* Where a larger node begins, a smaller one of even index does.
LEMMA FirstEven ==
  ASSUME NEW b \in 0 .. TreeHeight + 1, NEW a \in 0 .. b - 1,
         NEW i \in Nat, NEW k \in Nat, First(i, a) = First(k, b)
  PROVE  \E q \in Nat : i = 2 * q
<1>1. PICK q \in Nat : 2^b = (2 * q) * 2^a
  BY Powers
<1>2. 2^a \in Nat \ {0}
  <2>1. a \in 0 .. TreeHeight + 1
    BY Powers
  <2> QED
    BY <2>1, Powers
<1>3. i * 2^a = (2 * (k * q)) * 2^a
  BY <1>1, <1>2 DEF First
<1>4. k * q \in Nat
  OBVIOUS
<1>5. i = 2 * (k * q)
  BY <1>2, <1>3, <1>4
<1> QED
  BY <1>4, <1>5

\* A larger tree has more leaves.
LEMMA FirstHigher ==
  ASSUME NEW b \in 0 .. TreeHeight + 1, NEW a \in 0 .. b - 1
  PROVE  First(1, a) < First(1, b)
<1>1. PICK q \in Nat : q > 0 /\ 2^b = (2 * q) * 2^a
  BY Powers
<1>2. 2^a \in Nat \ {0} /\ 2^b \in Nat \ {0}
  <2>1. a \in 0 .. TreeHeight + 1
    BY Powers
  <2> QED
    BY <2>1, Powers
<1> QED
  BY <1>1, <1>2 DEF First

\* The node of height h that a leaf is under.
LEMMA FirstShr ==
  ASSUME NEW h \in 0 .. TreeHeight + 1, NEW i \in Nat, NEW x \in Nat,
         First(i, h) <= x, x < First(i + 1, h)
  PROVE  Shr(x, h) = i
<1>1. 2^h \in Nat \ {0}
  BY Powers
<1> QED
  BY <1>1, Rules!DivUnique DEF First, Shr

-----------------------------------------------------------------------------

(***************************************************************************)
(* The stack of treehash as numbers.  After n leaves the nodes on it stand *)
(* for blocks of leaves that lie side by side from 0 to n: node j is node  *)
(* ix[j] of height hs[j].                                                  *)
(***************************************************************************)
Numbers(hs, ix, o, n) ==
  /\ hs \in [0 .. TreeHeight -> 0 .. TreeHeight]
  /\ ix \in [0 .. TreeHeight -> Nat]
  /\ o \in 0 .. TreeHeight + 1
  /\ n \in Nat /\ n <= First(1, TreeHeight)

SideBySide(hs, ix, o, n) ==
  /\ o = 0 => n = 0
  /\ o > 0 => ix[0] = 0 /\ First(ix[o - 1] + 1, hs[o - 1]) = n
  /\ \A j \in 1 .. o - 1 : First(ix[j], hs[j]) = First(ix[j - 1] + 1, hs[j - 1])
  /\ o >= 2 => First(1, hs[0]) < n

Blocks(hs, ix, o, n) == Numbers(hs, ix, o, n) /\ SideBySide(hs, ix, o, n)

\* The heights of the first o nodes fall.
Falling(hs, o) ==
  \A j \in 1 .. o - 1 : hs[j] < hs[j - 1] /\ hs[j] + j <= hs[0]

\* All but the topmost do, and that is not above the one below it.
NearlyFalling(hs, o) ==
  /\ Falling(hs, o - 1)
  /\ o >= 2 => hs[o - 1] <= hs[o - 2]

\* The numbers of a stack one by one.
LEMMA NumbersAt ==
  ASSUME NEW hs, NEW ix, NEW o, NEW n, Numbers(hs, ix, o, n)
  PROVE  /\ TreeHeight \in Nat \ {0} /\ o \in Nat /\ o <= TreeHeight + 1
         /\ n \in Nat /\ First(1, TreeHeight) \in Nat
         /\ \A j \in 0 .. TreeHeight :
              /\ hs[j] \in 0 .. TreeHeight /\ ix[j] \in Nat
              /\ First(ix[j], hs[j]) \in Nat /\ First(ix[j] + 1, hs[j]) \in Nat
              /\ First(1, hs[j]) \in Nat
<1>1. TreeHeight \in Nat \ {0}
  BY Powers
<1>2. ASSUME NEW j \in 0 .. TreeHeight
      PROVE  /\ hs[j] \in 0 .. TreeHeight /\ ix[j] \in Nat
             /\ First(ix[j], hs[j]) \in Nat /\ First(ix[j] + 1, hs[j]) \in Nat
             /\ First(1, hs[j]) \in Nat
  <2>1. hs[j] \in 0 .. TreeHeight /\ ix[j] \in Nat
    BY DEF Numbers
  <2>2. hs[j] \in 0 .. TreeHeight + 1 /\ ix[j] + 1 \in Nat
    BY <1>1, <2>1
  <2> QED
    BY <2>1, <2>2, FirstNat
<1>3. TreeHeight \in 0 .. TreeHeight + 1
  BY <1>1
<1> QED
  BY <1>1, <1>2, <1>3, FirstNat DEF Numbers

\* While there are leaves to come the lowest node is not yet the root.
LEMMA LowestNode ==
  ASSUME NEW hs, NEW ix, NEW o, NEW n, Blocks(hs, ix, o, n), o > 0
  PROVE  /\ ix[0] = 0 /\ First(1, hs[0]) <= n
         /\ n < First(1, TreeHeight) \/ o >= 2 => hs[0] < TreeHeight
<1>1. Numbers(hs, ix, o, n)
  BY DEF Blocks
<1>2. ix[0] = 0 /\ First(1, hs[0]) <= n
  <2>1. CASE o = 1
    <3>1. ix[0] = 0 /\ First(ix[0] + 1, hs[0]) = n
      BY <2>1 DEF Blocks, SideBySide
    <3> QED
      BY <1>1, <3>1, NumbersAt
  <2>2. CASE o # 1
    <3>1. ix[0] = 0 /\ First(1, hs[0]) < n
      BY <1>1, <2>2, NumbersAt DEF Blocks, SideBySide
    <3> QED
      BY <1>1, <3>1, NumbersAt
  <2> QED
    BY <2>1, <2>2
<1>3. TreeHeight \in Nat /\ hs[0] \in 0 .. TreeHeight /\ First(1, hs[0]) \in Nat
      /\ n \in Nat /\ n <= First(1, TreeHeight) /\ First(1, TreeHeight) \in Nat
  <2>1. n <= First(1, TreeHeight)
    BY <1>1 DEF Numbers
  <2> QED
    BY <1>1, <2>1, NumbersAt
<1>4. o >= 2 => First(1, hs[0]) < n
  BY DEF Blocks, SideBySide
<1> QED
  BY <1>2, <1>3, <1>4

\* A leaf finds room on the stack.
LEMMA BlocksPush ==
  ASSUME NEW hs, NEW ix, NEW o, NEW n,
         Blocks(hs, ix, o, n), Falling(hs, o), n < First(1, TreeHeight)
  PROVE  /\ o <= TreeHeight
         /\ Blocks([hs EXCEPT ![o] = 0], [ix EXCEPT ![o] = n], o + 1, n + 1)
         /\ NearlyFalling([hs EXCEPT ![o] = 0], o + 1)
<1>1. Numbers(hs, ix, o, n)
  BY DEF Blocks
<1>2. TreeHeight \in Nat \ {0} /\ o \in Nat /\ n \in Nat
  BY <1>1, NumbersAt
<1>3. o <= TreeHeight
  <2>1. CASE o >= 2
    <3>1. hs[o - 1] + (o - 1) <= hs[0]
      BY <2>1, <1>2 DEF Falling
    <3>2. hs[o - 1] \in Nat /\ hs[0] \in Nat
      BY <2>1, <1>1, <1>2, NumbersAt
    <3> QED
      BY <2>1, <3>1, <3>2, <1>2, LowestNode
  <2> QED
    BY <1>2, <2>1
<1> DEFINE hs2 == [hs EXCEPT ![o] = 0]
           ix2 == [ix EXCEPT ![o] = n]
<1>4. /\ hs2[o] = 0 /\ ix2[o] = n
      /\ \A j \in 0 .. o - 1 : hs2[j] = hs[j] /\ ix2[j] = ix[j]
  <2>1. /\ hs \in [0 .. TreeHeight -> 0 .. TreeHeight]
        /\ ix \in [0 .. TreeHeight -> Nat]
    BY <1>1 DEF Numbers
  <2>2. o \in 0 .. TreeHeight /\ 0 .. o - 1 \subseteq 0 .. TreeHeight /\ o \notin 0 .. o - 1
    BY <1>2, <1>3
  <2> QED
    BY <2>1, <2>2
<1>5. Numbers(hs2, ix2, o + 1, n + 1)
  <2>1. n + 1 <= First(1, TreeHeight)
    BY <1>1, NumbersAt
  <2>2. /\ hs \in [0 .. TreeHeight -> 0 .. TreeHeight]
        /\ ix \in [0 .. TreeHeight -> Nat]
    BY <1>1 DEF Numbers
  <2>3. 0 \in 0 .. TreeHeight /\ n \in Nat /\ o + 1 \in 0 .. TreeHeight + 1
    BY <1>2, <1>3
  <2>4. hs2 \in [0 .. TreeHeight -> 0 .. TreeHeight] /\ ix2 \in [0 .. TreeHeight -> Nat]
    BY <2>2, <2>3
  <2> QED
    BY <1>2, <2>1, <2>3, <2>4 DEF Numbers
<1> HIDE DEF hs2, ix2
<1>6. SideBySide(hs2, ix2, o + 1, n + 1)
  <2>1. ix2[0] = 0
    BY <1>2, <1>4, LowestNode DEF Blocks, SideBySide
  <2>2. First(ix2[o] + 1, hs2[o]) = n + 1
    BY <1>2, <1>4, FirstNat
  <2>3. ASSUME NEW j \in 1 .. o
        PROVE  First(ix2[j], hs2[j]) = First(ix2[j - 1] + 1, hs2[j - 1])
    <3>1. CASE j < o
      <4>1. /\ hs2[j] = hs[j] /\ ix2[j] = ix[j]
            /\ hs2[j - 1] = hs[j - 1] /\ ix2[j - 1] = ix[j - 1]
        BY <3>1, <1>2, <1>4
      <4> QED
        BY <3>1, <4>1, <1>2 DEF Blocks, SideBySide
    <3>2. CASE j = o
      <4>1. hs2[o - 1] = hs[o - 1] /\ ix2[o - 1] = ix[o - 1]
        BY <3>2, <1>2, <1>4
      <4>2. First(ix2[o], hs2[o]) = n
        BY <1>2, <1>4, FirstNat
      <4> QED
        BY <3>2, <4>1, <4>2, <1>2 DEF Blocks, SideBySide
    <3> QED
      BY <1>2, <3>1, <3>2
  <2>4. o + 1 >= 2 => First(1, hs2[0]) < n + 1
    BY <1>1, <1>2, <1>4, LowestNode, NumbersAt
  <2>5. (o + 1) - 1 = o
    BY <1>2
  <2> QED
    BY <1>2, <2>1, <2>2, <2>3, <2>4, <2>5 DEF SideBySide
<1>7. NearlyFalling(hs2, o + 1)
  <2>1. (o + 1) - 1 = o /\ (o + 1) - 2 = o - 1
    BY <1>2
  <2>2. ASSUME NEW j \in 1 .. o - 1
        PROVE  hs2[j] < hs2[j - 1] /\ hs2[j] + j <= hs2[0]
    <3>1. hs2[j] = hs[j] /\ hs2[j - 1] = hs[j - 1] /\ hs2[0] = hs[0]
      BY <1>2, <1>4
    <3> QED
      BY <3>1 DEF Falling
  <2>3. o + 1 >= 2 => hs2[o] <= hs2[o - 1]
    BY <1>1, <1>2, <1>3, <1>4, NumbersAt
  <2> QED
    BY <2>1, <2>2, <2>3 DEF NearlyFalling, Falling
<1> QED
  BY <1>3, <1>5, <1>6, <1>7 DEF hs2, ix2, Blocks

\* The topmost node is the one of its height over the last leaf.
LEMMA TopNode ==
  ASSUME NEW hs, NEW ix, NEW o, NEW n, Blocks(hs, ix, o, n), o > 0
  PROVE  n > 0 /\ Shr(n - 1, hs[o - 1]) = ix[o - 1]
<1>1. Numbers(hs, ix, o, n) /\ First(ix[o - 1] + 1, hs[o - 1]) = n
  BY DEF Blocks, SideBySide
<1>2. o - 1 \in 0 .. TreeHeight
  BY <1>1, NumbersAt
<1>3. hs[o - 1] \in 0 .. TreeHeight + 1 /\ ix[o - 1] \in Nat /\ n \in Nat
  BY <1>1, <1>2, NumbersAt
<1>4. First(ix[o - 1], hs[o - 1]) < n /\ First(ix[o - 1], hs[o - 1]) \in Nat
  BY <1>1, <1>3, FirstLess, FirstNat
<1> QED
  BY <1>1, <1>3, <1>4, FirstShr

\* A node whose lower neighbour is higher is a left child.
LEMMA EvenNode ==
  ASSUME NEW hs, NEW ix, NEW o, NEW n, Blocks(hs, ix, o, n),
         NEW j \in 0 .. o - 1, j > 0 => hs[j] < hs[j - 1]
  PROVE  \E q \in Nat : ix[j] = 2 * q
<1>1. Numbers(hs, ix, o, n)
  BY DEF Blocks
<1>2. CASE j = 0
  <2>1. ix[j] = 2 * 0
    BY <1>1, <1>2, NumbersAt DEF Blocks, SideBySide
  <2> QED
    BY <2>1
<1>3. CASE j # 0
  <2>1. j \in 0 .. TreeHeight /\ j - 1 \in 0 .. TreeHeight /\ j \in 1 .. o - 1
    BY <1>1, <1>3, NumbersAt
  <2>2. /\ hs[j] \in Nat /\ ix[j] \in Nat /\ ix[j - 1] + 1 \in Nat
        /\ hs[j - 1] \in 0 .. TreeHeight + 1
    BY <1>1, <2>1, NumbersAt
  <2>3. First(ix[j], hs[j]) = First(ix[j - 1] + 1, hs[j - 1])
    BY <2>1 DEF Blocks, SideBySide
  <2>4. hs[j] \in 0 .. hs[j - 1] - 1
    BY <2>1, <2>2
  <2> QED
    BY <2>2, <2>3, <2>4, FirstEven
<1> QED
  BY <1>2, <1>3

(***************************************************************************)
(* A node that is complete with the last leaf is not above the topmost     *)
(* node, once nothing is left to be hashed.                                *)
(***************************************************************************)
LEMMA CompleteNode ==
  ASSUME NEW hs, NEW ix, NEW o, NEW n, Blocks(hs, ix, o, n), Falling(hs, o),
         o > 0, NEW h \in 0 .. TreeHeight, NEW i \in Nat, First(i + 1, h) = n
  PROVE  h <= hs[o - 1]
<1>1. Numbers(hs, ix, o, n) /\ First(ix[o - 1] + 1, hs[o - 1]) = n
  BY DEF Blocks, SideBySide
<1>2. /\ TreeHeight \in Nat /\ o \in Nat
      /\ o - 1 \in 0 .. TreeHeight /\ o - 1 \in 0 .. o - 1
  BY <1>1, NumbersAt
<1>3. hs[o - 1] \in 0 .. TreeHeight
  BY <1>1, <1>2, NumbersAt
<1>4. PICK q \in Nat : ix[o - 1] = 2 * q
  <2>1. o - 1 > 0 => hs[o - 1] < hs[(o - 1) - 1]
    BY <1>2 DEF Falling
  <2> QED
    BY <1>2, <2>1, EvenNode
<1>5. SUFFICES ASSUME h > hs[o - 1]
               PROVE  FALSE
  BY <1>3
<1>6. hs[o - 1] \in 0 .. h - 1 /\ h \in 0 .. TreeHeight + 1 /\ 2 * q + 1 \in Nat
  BY <1>2, <1>3, <1>5
<1>7. First(2 * q + 1, hs[o - 1]) = First(i + 1, h)
  BY <1>1, <1>4
<1>8. \E k \in Nat : 2 * q + 1 = 2 * k
  BY <1>6, <1>7, FirstEven
<1> QED
  BY <1>8

\* After the last leaf nothing but the root is left.
LEMMA BlocksDone ==
  ASSUME NEW hs, NEW ix, NEW o, NEW n, Blocks(hs, ix, o, n), Falling(hs, o),
         n = First(1, TreeHeight)
  PROVE  o = 1 /\ hs[0] = TreeHeight /\ ix[0] = 0
<1>1. Numbers(hs, ix, o, n) /\ TreeHeight \in Nat
  BY NumbersAt DEF Blocks
<1>2. o > 0 /\ o \in Nat /\ o - 1 \in 0 .. TreeHeight
  <2>1. n > 0
    BY <1>1, FirstNat
  <2>2. o # 0
    BY <2>1 DEF Blocks, SideBySide
  <2> QED
    BY <1>1, <2>2, NumbersAt
<1>3. hs[o - 1] = TreeHeight
  <2>1. TreeHeight <= hs[o - 1]
    <3>1. TreeHeight \in 0 .. TreeHeight /\ First(0 + 1, TreeHeight) = n
      BY <1>1
    <3> QED
      BY <1>2, <3>1, CompleteNode
  <2>2. hs[o - 1] \in 0 .. TreeHeight
    BY <1>1, <1>2, NumbersAt
  <2> QED
    BY <1>1, <2>1, <2>2
<1>4. o = 1
  <2>1. SUFFICES ASSUME o >= 2
                 PROVE  FALSE
    BY <1>2
  <2>2. hs[o - 1] + (o - 1) <= hs[0]
    BY <1>2, <2>1 DEF Falling
  <2>3. hs[0] \in 0 .. TreeHeight
    BY <1>1, NumbersAt
  <2> QED
    BY <1>1, <1>2, <1>3, <2>1, <2>2, <2>3
<1> QED
  BY <1>2, <1>3, <1>4, LowestNode

\* Two nodes of one height are not yet the root.
LEMMA PairHeight ==
  ASSUME NEW hs, NEW ix, NEW o, NEW n, Blocks(hs, ix, o, n),
         NearlyFalling(hs, o), o >= 2, hs[o - 1] = hs[o - 2]
  PROVE  hs[o - 1] \in 0 .. TreeHeight - 1
<1>1. Numbers(hs, ix, o, n)
  BY DEF Blocks
<1>2. /\ TreeHeight \in Nat /\ o \in Nat /\ o - 1 \in 0 .. TreeHeight
      /\ o - 2 \in 0 .. TreeHeight
  BY <1>1, NumbersAt
<1>3. hs[0] \in Nat /\ hs[o - 2] \in Nat /\ hs[0] < TreeHeight
  BY <1>1, <1>2, NumbersAt, LowestNode
<1>4. CASE o = 2
  BY <1>2, <1>3, <1>4
<1>5. CASE o > 2
  <2>1. hs[o - 2] + (o - 2) <= hs[0]
    BY <1>2, <1>5 DEF NearlyFalling, Falling
  <2> QED
    BY <1>2, <1>3, <2>1
<1> QED
  BY <1>2, <1>4, <1>5

\* Two nodes of one height are the children of the node that replaces them.
LEMMA BlocksMerge ==
  ASSUME NEW hs, NEW ix, NEW o, NEW n, Blocks(hs, ix, o, n),
         NearlyFalling(hs, o), o >= 2, hs[o - 1] = hs[o - 2],
         NEW h, h = hs[o - 1], NEW q, q = Shr(n - 1, h + 1)
  PROVE  /\ h \in 0 .. TreeHeight - 1 /\ q \in Nat
         /\ ix[o - 2] = 2 * q /\ ix[o - 1] = 2 * q + 1
         /\ Blocks([hs EXCEPT ![o - 2] = h + 1], [ix EXCEPT ![o - 2] = q], o - 1, n)
         /\ NearlyFalling([hs EXCEPT ![o - 2] = h + 1], o - 1)
<1>1. Numbers(hs, ix, o, n) /\ First(ix[o - 1] + 1, h) = n
  <2>1. Numbers(hs, ix, o, n)
    BY DEF Blocks
  <2>2. o > 0
    BY <2>1, NumbersAt
  <2> QED
    BY <2>1, <2>2 DEF Blocks, SideBySide
<1>2. /\ TreeHeight \in Nat /\ o \in Nat /\ o - 1 \in 0 .. TreeHeight
      /\ o - 2 \in 0 .. TreeHeight
  BY <1>1, NumbersAt
<1>3. /\ hs[0] \in Nat /\ ix[o - 2] \in Nat /\ ix[o - 1] \in Nat
      /\ hs[o - 2] \in Nat
  BY <1>1, <1>2, NumbersAt
<1>4. h \in 0 .. TreeHeight - 1
  BY PairHeight
<1>5. h \in 0 .. TreeHeight /\ h \in 0 .. TreeHeight + 1
  BY <1>2, <1>4
<1>6. ix[o - 1] = ix[o - 2] + 1
  <2>1. (o - 1) - 1 = o - 2 /\ o - 1 \in 1 .. o - 1
    BY <1>2
  <2>2. First(ix[o - 1], h) = First(ix[o - 2] + 1, h)
    BY <2>1 DEF Blocks, SideBySide
  <2> QED
    BY <1>3, <1>5, <2>2, FirstSame
<1>7. PICK k \in Nat : ix[o - 2] = 2 * k
  <2>1. o - 2 > 0 => hs[o - 2] < hs[(o - 2) - 1]
    <3>1. o - 2 > 0 => o - 2 \in 1 .. (o - 1) - 1
      BY <1>2
    <3> QED
      BY <3>1 DEF NearlyFalling, Falling
  <2> QED
    BY <1>2, <2>1, EvenNode
<1> DEFINE hs2 == [hs EXCEPT ![o - 2] = h + 1]
           ix2 == [ix EXCEPT ![o - 2] = k]
<1>8. /\ hs2 \in [0 .. TreeHeight -> 0 .. TreeHeight]
      /\ ix2 \in [0 .. TreeHeight -> Nat]
      /\ hs2[o - 2] = h + 1 /\ ix2[o - 2] = k
      /\ \A j \in 0 .. o - 3 : hs2[j] = hs[j] /\ ix2[j] = ix[j]
  <2>1. /\ hs \in [0 .. TreeHeight -> 0 .. TreeHeight]
        /\ ix \in [0 .. TreeHeight -> Nat]
    BY <1>1 DEF Numbers
  <2>2. /\ 0 .. o - 3 \subseteq 0 .. TreeHeight /\ o - 2 \notin 0 .. o - 3
        /\ h + 1 \in 0 .. TreeHeight
    BY <1>2, <1>4
  <2> QED
    BY <1>2, <2>1, <2>2
<1>9. Numbers(hs2, ix2, o - 1, n)
  <2>1. o - 1 \in 0 .. TreeHeight + 1
    BY <1>2
  <2> QED
    BY <1>1, <1>8, <2>1, Zenon DEF Numbers
<1> HIDE DEF hs2, ix2
<1>10. SideBySide(hs2, ix2, o - 1, n)
  <2>1. ix2[0] = 0
    <3>1. ix[0] = 0
      BY <1>2, LowestNode
    <3>2. CASE o = 2
      BY <1>7, <1>8, <3>1, <3>2
    <3>3. CASE o > 2
      <4>1. 0 \in 0 .. o - 3
        BY <1>2, <3>3
      <4> QED
        BY <1>8, <3>1, <4>1
    <3> QED
      BY <1>2, <3>2, <3>3
  <2>2. First(ix2[o - 2] + 1, hs2[o - 2]) = n
    <3>1. First(2 * (k + 1), h) = First(k + 1, h + 1)
      BY <1>5, FirstUp
    <3>2. ix[o - 1] + 1 = 2 * (k + 1)
      BY <1>6, <1>7
    <3> QED
      BY <1>1, <1>8, <3>1, <3>2
  <2>3. ASSUME NEW j \in 1 .. o - 2
        PROVE  First(ix2[j], hs2[j]) = First(ix2[j - 1] + 1, hs2[j - 1])
    <3>1. j - 1 \in 0 .. o - 3 /\ j \in 1 .. o - 1
      BY <1>2
    <3>2. First(ix[j], hs[j]) = First(ix[j - 1] + 1, hs[j - 1])
      BY <3>1 DEF Blocks, SideBySide
    <3>3. CASE j < o - 2
      <4>1. j \in 0 .. o - 3
        BY <1>2, <3>3
      <4> QED
        BY <1>8, <3>1, <3>2, <4>1
    <3>4. CASE j = o - 2
      <4>1. First(k, h + 1) = First(2 * k, h)
        BY <1>5, FirstUp
      <4> QED
        BY <1>7, <1>8, <3>1, <3>2, <3>4, <4>1
    <3> QED
      BY <1>2, <3>3, <3>4
  <2>4. o - 1 >= 2 => First(1, hs2[0]) < n
    <3>1. o - 1 >= 2 => hs2[0] = hs[0]
      <4>1. o - 1 >= 2 => 0 \in 0 .. o - 3
        BY <1>2
      <4> QED
        BY <1>8, <4>1
    <3> QED
      BY <3>1 DEF Blocks, SideBySide
  <2>5. (o - 1) - 1 = o - 2
    BY <1>2
  <2> QED
    BY <1>2, <2>1, <2>2, <2>3, <2>4, <2>5 DEF SideBySide
<1>11. Blocks(hs2, ix2, o - 1, n)
  BY <1>9, <1>10 DEF Blocks
<1>12. k = q
  <2>1. o - 1 > 0 /\ (o - 1) - 1 = o - 2
    BY <1>2
  <2>2. Shr(n - 1, hs2[o - 2]) = ix2[o - 2]
    BY <1>11, <2>1, TopNode
  <2> QED
    BY <1>8, <2>2
<1>13. NearlyFalling(hs2, o - 1)
  <2>1. /\ (o - 1) - 1 = o - 2 /\ (o - 1) - 2 = o - 3
        /\ 1 .. (o - 2) - 1 \subseteq 1 .. (o - 1) - 1
    BY <1>2
  <2>2. ASSUME NEW j \in 1 .. (o - 2) - 1
        PROVE  hs2[j] < hs2[j - 1] /\ hs2[j] + j <= hs2[0]
    <3>1. j \in 0 .. o - 3 /\ j - 1 \in 0 .. o - 3 /\ 0 \in 0 .. o - 3
      BY <1>2
    <3>2. hs[j] < hs[j - 1] /\ hs[j] + j <= hs[0]
      BY <2>1 DEF NearlyFalling, Falling
    <3> QED
      BY <1>8, <3>1, <3>2
  <2>3. o - 1 >= 2 => hs2[o - 2] <= hs2[o - 3]
    <3>1. SUFFICES ASSUME o > 2
                   PROVE  h + 1 <= hs[o - 3]
      BY <1>2, <1>8
    <3>2. o - 2 \in 1 .. (o - 1) - 1 /\ (o - 2) - 1 = o - 3 /\ o - 3 \in 0 .. TreeHeight
      BY <1>2, <3>1
    <3>3. hs[o - 2] < hs[o - 3]
      BY <3>2 DEF NearlyFalling, Falling
    <3>4. hs[o - 3] \in Nat
      BY <1>1, <3>2, NumbersAt
    <3> QED
      BY <1>3, <3>3, <3>4
  <2> QED
    BY <2>1, <2>2, <2>3 DEF NearlyFalling, Falling
<1> QED
  BY <1>4, <1>6, <1>7, <1>11, <1>12, <1>13 DEF hs2, ix2

-----------------------------------------------------------------------------

(***************************************************************************)
(* The state w of treehash.  p is what treehash was called with: seed,     *)
(* address and leaf_idx, and in the inner loops the turn of the outer one. *)
(***************************************************************************)
TreeState(w) ==
  /\ w = [stack |-> w.stack, heights |-> w.heights, offset |-> w.offset,
          auth_path |-> w.auth_path]
  /\ w.stack = [j \in 0 .. TreeHeight |-> w.stack[j]]
  /\ w.auth_path = [h \in 0 .. TreeHeight - 1 |-> w.auth_path[h]]

\* The stack holds the nodes that the numbers say.
Nodes(p, w, ix) ==
  \A j \in 0 .. w.offset - 1 : w.stack[j] = Node(p[1], p[2], w.heights[j], ix[j])

\* The node of height h on the path of leaf_idx, and that the path has it.
PathIndex(p, h) == Sibling(Shr(p[3], h))
Found(p, w, h) == w.auth_path[h] = Node(p[1], p[2], h, PathIndex(p, h))

\* What holds of w after n leaves.
TreeInv(p, w, n) ==
  /\ TreeState(w)
  /\ \E ix : /\ Blocks(w.heights, ix, w.offset, n)
             /\ Falling(w.heights, w.offset)
             /\ Nodes(p, w, ix)
  /\ \A h \in 0 .. TreeHeight - 1 : First(PathIndex(p, h) + 1, h) <= n => Found(p, w, h)

\* What holds of w while leaf idx is being added: on top is a node it completed.
Adding(p, w, idx) ==
  /\ TreeState(w)
  /\ w.offset > 0
  /\ \E ix : /\ Blocks(w.heights, ix, w.offset, idx + 1)
             /\ NearlyFalling(w.heights, w.offset)
             /\ Nodes(p, w, ix)

\* The path has the nodes before the leaf, and those it completed below height k.
PathBelow(p, w, idx, k) ==
  \A h \in 0 .. TreeHeight - 1 :
    \/ First(PathIndex(p, h) + 1, h) <= idx
    \/ First(PathIndex(p, h) + 1, h) = idx + 1 /\ h < k
    => Found(p, w, h)

\* Indices of nodes on a path are numbers.
LEMMA PathNat ==
  ASSUME NEW p, p[3] \in Nat, NEW h \in 0 .. TreeHeight
  PROVE  Shr(p[3], h) \in Nat /\ PathIndex(p, h) \in Nat
<1>1. 2^h \in Nat \ {0}
  <2>1. h \in 0 .. TreeHeight + 1
    BY Powers
  <2> QED
    BY <2>1, Powers
<1>2. Shr(p[3], h) \in Nat
  BY <1>1 DEF Shr
<1> QED
  BY <1>2 DEF PathIndex, Sibling

\* Saved changes the path only, and there only the entry of the top height.
LEMMA SavedIs ==
  ASSUME NEW w, TreeState(w), NEW leaf_idx, NEW idx, NEW v,
         v = Saved(w, leaf_idx, idx), NEW top, top = w.heights[w.offset - 1]
  PROVE  /\ TreeState(v)
         /\ v.stack = w.stack /\ v.heights = w.heights /\ v.offset = w.offset
         /\ \A h \in 0 .. TreeHeight - 1 :
              v.auth_path[h] = IF h = top /\ Sibling(Shr(leaf_idx, h)) = Shr(idx, h)
                               THEN w.stack[w.offset - 1] ELSE w.auth_path[h]
<1>1. CASE Sibling(Shr(leaf_idx, top)) = Shr(idx, top)
  <2> DEFINE path == [w.auth_path EXCEPT ![top] = w.stack[w.offset - 1]]
  <2>1. v = [w EXCEPT !.auth_path = path]
    BY <1>1 DEF Saved
  <2>2. /\ path = [h \in 0 .. TreeHeight - 1 |-> path[h]]
        /\ \A h \in 0 .. TreeHeight - 1 :
              path[h] = IF h = top THEN w.stack[w.offset - 1] ELSE w.auth_path[h]
    <3>1. w.auth_path = [h \in 0 .. TreeHeight - 1 |-> w.auth_path[h]]
      BY DEF TreeState
    <3> QED
      BY <3>1
  <2> HIDE DEF path
  <2>3. v = [stack |-> w.stack, heights |-> w.heights, offset |-> w.offset,
             auth_path |-> path]
    BY <2>1 DEF TreeState
  <2>4. /\ v.stack = w.stack /\ v.heights = w.heights /\ v.offset = w.offset
        /\ v.auth_path = path
    BY <2>3
  <2>5. TreeState(v)
    <3>1. w.stack = [j \in 0 .. TreeHeight |-> w.stack[j]]
      BY DEF TreeState
    <3> QED
      BY <2>2, <2>3, <2>4, <3>1 DEF TreeState
  <2> QED
    BY <1>1, <2>2, <2>4, <2>5
<1>2. CASE Sibling(Shr(leaf_idx, top)) # Shr(idx, top)
  BY <1>2 DEF Saved
<1> QED
  BY <1>1, <1>2

\* Saving the node on top extends the path by that height.
LEMMA SavedKeeps ==
  ASSUME NEW p, p[3] \in Nat, NEW w, NEW idx \in Nat, Adding(p, w, idx),
         PathBelow(p, w, idx, w.heights[w.offset - 1]),
         NEW v, v = Saved(w, p[3], idx)
  PROVE  /\ Adding(p, v, idx)
         /\ v.heights = w.heights /\ v.offset = w.offset
         /\ PathBelow(p, v, idx, v.heights[v.offset - 1] + 1)
<1> DEFINE top == w.heights[w.offset - 1]
<1>1. /\ TreeState(v)
      /\ v.stack = w.stack /\ v.heights = w.heights /\ v.offset = w.offset
      /\ \A h \in 0 .. TreeHeight - 1 :
           v.auth_path[h] = IF h = top /\ Sibling(Shr(p[3], h)) = Shr(idx, h)
                            THEN w.stack[w.offset - 1] ELSE w.auth_path[h]
  BY SavedIs DEF Adding
<1>2. Adding(p, v, idx)
  BY <1>1 DEF Adding, Nodes
<1>3. PICK ix : Blocks(w.heights, ix, w.offset, idx + 1) /\ Nodes(p, w, ix)
  BY DEF Adding
<1>4. /\ w.offset \in Nat /\ w.offset - 1 \in 0 .. TreeHeight /\ w.offset - 1 \in 0 .. w.offset - 1
      /\ top \in 0 .. TreeHeight /\ ix[w.offset - 1] \in Nat
      /\ TreeHeight \in Nat
  <2>1. Numbers(w.heights, ix, w.offset, idx + 1) /\ w.offset > 0
    BY <1>3 DEF Blocks, Adding
  <2>2. w.offset \in Nat /\ w.offset - 1 \in 0 .. TreeHeight /\ TreeHeight \in Nat
    BY <2>1, NumbersAt
  <2> QED
    BY <2>1, <2>2, NumbersAt
<1>5. Shr(idx, top) = ix[w.offset - 1]
  <2>1. Shr((idx + 1) - 1, top) = ix[w.offset - 1]
    BY <1>3, TopNode DEF Adding
  <2>2. (idx + 1) - 1 = idx
    OBVIOUS
  <2> QED
    BY <2>1, <2>2
<1>6. w.stack[w.offset - 1] = Node(p[1], p[2], top, ix[w.offset - 1])
  BY <1>3, <1>4 DEF Nodes
<1>7. First(ix[w.offset - 1] + 1, top) = idx + 1
  BY <1>3 DEF Adding, Blocks, SideBySide
<1> HIDE DEF top
<1>8. ASSUME NEW h \in 0 .. TreeHeight - 1, PathIndex(p, h) = Shr(idx, h), h = top
      PROVE  Found(p, v, h)
  BY <1>1, <1>5, <1>6, <1>8 DEF Found, PathIndex
<1>9. ASSUME NEW h \in 0 .. TreeHeight - 1, ~ (PathIndex(p, h) = Shr(idx, h) /\ h = top),
             Found(p, w, h)
      PROVE  Found(p, v, h)
  BY <1>1, <1>9 DEF Found, PathIndex
<1>10. ASSUME NEW h \in 0 .. TreeHeight - 1, h = top,
              First(PathIndex(p, h) + 1, h) = idx + 1
       PROVE  PathIndex(p, h) = Shr(idx, h)
  <2>1. PathIndex(p, h) \in Nat /\ h \in 0 .. TreeHeight + 1
    BY <1>4, PathNat
  <2>2. First(ix[w.offset - 1] + 1, h) = First(PathIndex(p, h) + 1, h)
    BY <1>7, <1>10
  <2>3. ix[w.offset - 1] + 1 = PathIndex(p, h) + 1
    BY <1>4, <2>1, <2>2, FirstSame
  <2> QED
    BY <1>4, <1>5, <1>10, <2>1, <2>3
<1>11. PathBelow(p, v, idx, top + 1)
  <2> SUFFICES ASSUME NEW h \in 0 .. TreeHeight - 1,
                      \/ First(PathIndex(p, h) + 1, h) <= idx
                      \/ First(PathIndex(p, h) + 1, h) = idx + 1 /\ h < top + 1
               PROVE  Found(p, v, h)
    BY DEF PathBelow
  <2>1. CASE First(PathIndex(p, h) + 1, h) <= idx
    <3>1. Found(p, w, h)
      BY <2>1 DEF PathBelow
    <3> QED
      BY <3>1, <1>8, <1>9
  <2>2. CASE First(PathIndex(p, h) + 1, h) = idx + 1 /\ h < top
    <3>1. Found(p, w, h)
      BY <2>2 DEF PathBelow, top
    <3> QED
      BY <3>1, <1>8, <1>9
  <2>3. CASE First(PathIndex(p, h) + 1, h) = idx + 1 /\ h = top
    BY <2>3, <1>8, <1>10
  <2> QED
    BY <1>4, <2>1, <2>2, <2>3
<1> QED
  BY <1>1, <1>2, <1>11 DEF top

\* A pushed leaf is on top.
LEMMA PushedKeeps ==
  ASSUME NEW p, p[3] \in Nat, NEW w, NEW idx \in Nat, TreeInv(p, w, idx),
         idx < First(1, TreeHeight), NEW v, v = Pushed(w, p[1], p[2], idx)
  PROVE  Adding(p, v, idx) /\ PathBelow(p, v, idx, v.heights[v.offset - 1])
<1>1. TreeState(w)
  BY DEF TreeInv
<1>2. PICK ix : /\ Blocks(w.heights, ix, w.offset, idx)
                /\ Falling(w.heights, w.offset)
                /\ Nodes(p, w, ix)
  BY DEF TreeInv
<1> DEFINE o      == w.offset
           stack2 == [w.stack EXCEPT ![o] = Node(p[1], p[2], 0, idx)]
           hs2    == [w.heights EXCEPT ![o] = 0]
           ix2    == [ix EXCEPT ![o] = idx]
<1>3. /\ o <= TreeHeight /\ Blocks(hs2, ix2, o + 1, idx + 1)
      /\ NearlyFalling(hs2, o + 1)
  BY <1>2, BlocksPush
<1>4. o \in 0 .. TreeHeight /\ TreeHeight \in Nat
  <2>1. Numbers(w.heights, ix, o, idx)
    BY <1>2 DEF Blocks
  <2> QED
    BY <1>3, <2>1, NumbersAt
<1>5. /\ v.stack = stack2 /\ v.heights = hs2 /\ v.offset = o + 1
      /\ v.auth_path = w.auth_path
      /\ v = [stack |-> v.stack, heights |-> v.heights, offset |-> v.offset,
              auth_path |-> v.auth_path]
  BY <1>1 DEF Pushed, gen_leaf_wots, TreeState
<1>6. stack2 = [j \in 0 .. TreeHeight |-> stack2[j]] /\ stack2[o] = Node(p[1], p[2], 0, idx)
      /\ \A j \in 0 .. o - 1 : stack2[j] = w.stack[j]
  <2>1. w.stack = [j \in 0 .. TreeHeight |-> w.stack[j]]
    BY <1>1 DEF TreeState
  <2>2. 0 .. o - 1 \subseteq 0 .. TreeHeight /\ o \notin 0 .. o - 1
    BY <1>4
  <2> QED
    BY <1>4, <2>1, <2>2
<1>7. /\ hs2[o] = 0 /\ ix2[o] = idx
      /\ \A j \in 0 .. o - 1 : hs2[j] = w.heights[j] /\ ix2[j] = ix[j]
  <2>1. /\ w.heights \in [0 .. TreeHeight -> 0 .. TreeHeight]
        /\ ix \in [0 .. TreeHeight -> Nat]
    BY <1>2 DEF Blocks, Numbers
  <2>2. 0 .. o - 1 \subseteq 0 .. TreeHeight /\ o \notin 0 .. o - 1
    BY <1>4
  <2> QED
    BY <1>4, <2>1, <2>2
<1> HIDE DEF stack2, hs2, ix2
<1>8. TreeState(v)
  <2>1. w.auth_path = [h \in 0 .. TreeHeight - 1 |-> w.auth_path[h]]
    BY <1>1 DEF TreeState
  <2> QED
    BY <1>5, <1>6, <2>1 DEF TreeState
<1>9. Nodes(p, v, ix2)
  <2> SUFFICES ASSUME NEW j \in 0 .. o
               PROVE  stack2[j] = Node(p[1], p[2], hs2[j], ix2[j])
    BY <1>4, <1>5 DEF Nodes
  <2>1. CASE j = o
    BY <2>1, <1>6, <1>7
  <2>2. CASE j # o
    <3>1. j \in 0 .. o - 1
      BY <2>2, <1>4
    <3> QED
      BY <3>1, <1>2, <1>6, <1>7 DEF Nodes
  <2> QED
    BY <2>1, <2>2
<1>10. Adding(p, v, idx)
  BY <1>3, <1>4, <1>5, <1>8, <1>9 DEF Adding
<1>11. PathBelow(p, v, idx, v.heights[v.offset - 1])
  <2> SUFFICES ASSUME NEW h \in 0 .. TreeHeight - 1,
                      \/ First(PathIndex(p, h) + 1, h) <= idx
                      \/ h < v.heights[v.offset - 1]
               PROVE  Found(p, v, h)
    BY DEF PathBelow
  <2>1. v.heights[v.offset - 1] = 0
    BY <1>4, <1>5, <1>7
  <2>2. First(PathIndex(p, h) + 1, h) <= idx
    BY <2>1
  <2> QED
    BY <2>2, <1>5 DEF TreeInv, Found
<1> QED
  BY <1>10, <1>11

\* Two nodes of one height on top are replaced by their parent.
LEMMA HashedKeeps ==
  ASSUME NEW p, p[3] \in Nat, NEW w, NEW idx \in Nat, Adding(p, w, idx),
         PathBelow(p, w, idx, w.heights[w.offset - 1] + 1), Pair(w),
         NEW v, v = Hashed(w, p[1], p[2], idx)
  PROVE  /\ Adding(p, v, idx)
         /\ v.heights[v.offset - 1] = w.heights[w.offset - 1] + 1
         /\ PathBelow(p, v, idx, v.heights[v.offset - 1])
<1>1. TreeState(w)
  BY DEF Adding
<1>2. PICK ix : /\ Blocks(w.heights, ix, w.offset, idx + 1)
                /\ NearlyFalling(w.heights, w.offset)
                /\ Nodes(p, w, ix)
  BY DEF Adding
<1> DEFINE o      == w.offset
           h      == w.heights[o - 1]
           q      == Shr(idx, h + 1)
           stack2 == [w.stack EXCEPT ![o - 2] = Node(p[1], p[2], h + 1, q)]
           hs2    == [w.heights EXCEPT ![o - 2] = h + 1]
           ix2    == [ix EXCEPT ![o - 2] = q]
<1>3. /\ h \in 0 .. TreeHeight - 1 /\ q \in Nat
      /\ ix[o - 2] = 2 * q /\ ix[o - 1] = 2 * q + 1
      /\ Blocks(hs2, ix2, o - 1, idx + 1)
      /\ NearlyFalling(hs2, o - 1)
  <2>1. (idx + 1) - 1 = idx
    OBVIOUS
  <2>2. o >= 2 /\ w.heights[o - 1] = w.heights[o - 2] /\ q = Shr((idx + 1) - 1, h + 1)
    BY <2>1 DEF Pair
  <2> HIDE DEF q
  <2> QED
    BY <1>2, <2>2, BlocksMerge
<1>4. o \in 2 .. TreeHeight + 1 /\ TreeHeight \in Nat
  <2>1. Numbers(w.heights, ix, o, idx + 1) /\ o >= 2
    BY <1>2 DEF Blocks, Pair
  <2> QED
    BY <2>1, NumbersAt
<1>5. /\ w.stack[o - 1] = Node(p[1], p[2], h, 2 * q + 1)
      /\ w.stack[o - 2] = Node(p[1], p[2], h, 2 * q)
  <2>1. o - 1 \in 0 .. o - 1 /\ o - 2 \in 0 .. o - 1
    BY <1>4
  <2>2. w.heights[o - 2] = h
    BY DEF Pair
  <2> HIDE DEF q
  <2> QED
    BY <1>2, <1>3, <2>1, <2>2 DEF Nodes
<1>6. thash_h(w.stack[o - 2], w.stack[o - 1], p[1], p[2], h, q) = Node(p[1], p[2], h + 1, q)
  BY <1>5 DEF thash_h
<1>7. /\ v.stack = stack2 /\ v.heights = hs2 /\ v.offset = o - 1
      /\ v.auth_path = w.auth_path
      /\ v = [stack |-> v.stack, heights |-> v.heights, offset |-> v.offset,
              auth_path |-> v.auth_path]
  <2>1. (o - 1) - 1 = o - 2
    BY <1>4
  <2>2. v = [w EXCEPT !.stack[o - 2] = Node(p[1], p[2], h + 1, q),
                      !.heights[o - 2] = h + 1,
                      !.offset = o - 1]
    BY <1>6, <2>1 DEF Hashed
  <2> HIDE DEF q, h
  <2>3. v = [stack |-> stack2, heights |-> hs2, offset |-> o - 1,
             auth_path |-> w.auth_path]
    BY <1>1, <2>2 DEF TreeState
  <2> QED
    BY <2>3
<1> HIDE DEF q, h
<1>8. /\ stack2 = [j \in 0 .. TreeHeight |-> stack2[j]]
      /\ stack2[o - 2] = Node(p[1], p[2], h + 1, q)
      /\ \A j \in 0 .. o - 3 : stack2[j] = w.stack[j]
  <2>1. w.stack = [j \in 0 .. TreeHeight |-> w.stack[j]]
    BY <1>1 DEF TreeState
  <2>2. /\ 0 .. o - 3 \subseteq 0 .. TreeHeight /\ o - 2 \notin 0 .. o - 3
        /\ o - 2 \in 0 .. TreeHeight
    BY <1>4
  <2> QED
    BY <2>1, <2>2
<1>9. /\ hs2[o - 2] = h + 1 /\ ix2[o - 2] = q
      /\ \A j \in 0 .. o - 3 : hs2[j] = w.heights[j] /\ ix2[j] = ix[j]
  <2>1. /\ w.heights \in [0 .. TreeHeight -> 0 .. TreeHeight]
        /\ ix \in [0 .. TreeHeight -> Nat]
    BY <1>2 DEF Blocks, Numbers
  <2>2. /\ 0 .. o - 3 \subseteq 0 .. TreeHeight /\ o - 2 \notin 0 .. o - 3
        /\ o - 2 \in 0 .. TreeHeight
    BY <1>4
  <2> QED
    BY <2>1, <2>2
<1> HIDE DEF stack2, hs2, ix2
<1>10. TreeState(v)
  <2>1. w.auth_path = [g \in 0 .. TreeHeight - 1 |-> w.auth_path[g]]
    BY <1>1 DEF TreeState
  <2> QED
    BY <1>7, <1>8, <2>1 DEF TreeState
<1>11. Nodes(p, v, ix2)
  <2> SUFFICES ASSUME NEW j \in 0 .. o - 2
               PROVE  stack2[j] = Node(p[1], p[2], hs2[j], ix2[j])
    BY <1>4, <1>7 DEF Nodes
  <2>1. CASE j = o - 2
    BY <2>1, <1>8, <1>9
  <2>2. CASE j # o - 2
    <3>1. j \in 0 .. o - 3 /\ j \in 0 .. o - 1
      BY <2>2, <1>4
    <3> QED
      BY <3>1, <1>2, <1>8, <1>9 DEF Nodes
  <2> QED
    BY <2>1, <2>2
<1>12. Adding(p, v, idx)
  BY <1>3, <1>4, <1>7, <1>10, <1>11 DEF Adding
<1>13. v.heights[v.offset - 1] = h + 1
  <2>1. (o - 1) - 1 = o - 2
    BY <1>4
  <2> QED
    BY <2>1, <1>7, <1>9
<1>14. PathBelow(p, v, idx, h + 1)
  BY <1>7 DEF PathBelow, Found, h
<1> QED
  BY <1>12, <1>13, <1>14 DEF h

(***************************************************************************)
(* The while loop: with every turn that finds a pair the top rises by one, *)
(* so TreeHeight turns are enough.                                         *)
(***************************************************************************)
MergeTurn(p, t, i) ==
  IF Pair(t) THEN Saved(Hashed(t, p[1], p[2], p[4]), p[3], p[4]) ELSE t

MergeInv(p, t, m) ==
  /\ Adding(p, t, p[4])
  /\ PathBelow(p, t, p[4], t.heights[t.offset - 1] + 1)
  /\ Pair(t) => t.heights[t.offset - 1] >= m

Merges == INSTANCE LoopRules WITH Body <- MergeTurn, Inv <- MergeInv

\* Heights are numbers up to that of the tree, which a pair does not reach.
LEMMA AddingHeights ==
  ASSUME NEW p, NEW w, NEW idx \in Nat, Adding(p, w, idx)
  PROVE  /\ w.offset \in Nat /\ w.heights[w.offset - 1] \in 0 .. TreeHeight
         /\ Pair(w) => w.heights[w.offset - 1] < TreeHeight
<1>1. PICK ix : /\ Blocks(w.heights, ix, w.offset, idx + 1)
                /\ NearlyFalling(w.heights, w.offset)
  BY DEF Adding
<1>2. Numbers(w.heights, ix, w.offset, idx + 1) /\ w.offset > 0
  BY <1>1 DEF Adding, Blocks
<1>3. w.offset \in Nat /\ w.offset - 1 \in 0 .. TreeHeight /\ TreeHeight \in Nat
  BY <1>2, NumbersAt
<1>4. w.heights[w.offset - 1] \in 0 .. TreeHeight
  BY <1>2, <1>3, NumbersAt
<1>5. ASSUME Pair(w)
      PROVE  w.heights[w.offset - 1] < TreeHeight
  <2>1. w.offset >= 2 /\ w.heights[w.offset - 1] = w.heights[w.offset - 2]
    BY <1>5 DEF Pair
  <2>2. w.heights[w.offset - 1] \in 0 .. TreeHeight - 1
    BY <1>1, <2>1, PairHeight
  <2> QED
    BY <1>3, <2>2
<1> QED
  BY <1>3, <1>4, <1>5

\* A turn of it.
LEMMA MergeKeeps ==
  ASSUME NEW p, p[3] \in Nat, p[4] \in Nat, NEW t, NEW m \in Nat, MergeInv(p, t, m)
  PROVE  MergeInv(p, MergeTurn(p, t, m), m + 1)
<1>1. CASE Pair(t)
  <2> DEFINE v == Hashed(t, p[1], p[2], p[4])
             u == Saved(v, p[3], p[4])
  <2>1. /\ Adding(p, v, p[4])
        /\ v.heights[v.offset - 1] = t.heights[t.offset - 1] + 1
        /\ PathBelow(p, v, p[4], v.heights[v.offset - 1])
    BY <1>1, HashedKeeps DEF MergeInv
  <2>2. /\ Adding(p, u, p[4])
        /\ u.heights = v.heights /\ u.offset = v.offset
        /\ PathBelow(p, u, p[4], u.heights[u.offset - 1] + 1)
    BY <2>1, SavedKeeps
  <2>3. MergeTurn(p, t, m) = u
    BY <1>1 DEF MergeTurn
  <2> HIDE DEF u, v
  <2>4. u.heights[u.offset - 1] >= m + 1
    <3>1. t.heights[t.offset - 1] >= m
      BY <1>1 DEF MergeInv
    <3>2. t.heights[t.offset - 1] \in 0 .. TreeHeight
      BY AddingHeights DEF MergeInv
    <3> QED
      BY <2>1, <2>2, <3>1, <3>2
  <2> QED
    BY <2>2, <2>3, <2>4 DEF MergeInv
<1>2. CASE ~ Pair(t)
  BY <1>2 DEF MergeInv, MergeTurn
<1> QED
  BY <1>1, <1>2

\* Once nothing is left to be hashed the leaf has been added.
LEMMA AddingDone ==
  ASSUME NEW p, p[3] \in Nat, NEW w, NEW idx \in Nat, Adding(p, w, idx), ~ Pair(w),
         PathBelow(p, w, idx, w.heights[w.offset - 1] + 1)
  PROVE  TreeInv(p, w, idx + 1)
<1>1. PICK ix : /\ Blocks(w.heights, ix, w.offset, idx + 1)
                /\ NearlyFalling(w.heights, w.offset)
                /\ Nodes(p, w, ix)
  BY DEF Adding
<1> DEFINE o  == w.offset
           hs == w.heights
<1>2. Numbers(hs, ix, o, idx + 1) /\ o > 0
  BY <1>1 DEF Adding, Blocks
<1>3. o \in Nat /\ o - 1 \in 0 .. TreeHeight /\ TreeHeight \in Nat
  BY <1>2, NumbersAt
<1>4. Falling(hs, o)
  <2> SUFFICES ASSUME NEW j \in 1 .. o - 1
               PROVE  hs[j] < hs[j - 1] /\ hs[j] + j <= hs[0]
    BY DEF Falling
  <2>1. CASE j < o - 1
    <3>1. j \in 1 .. (o - 1) - 1
      BY <2>1, <1>3
    <3> QED
      BY <1>1, <3>1 DEF NearlyFalling, Falling
  <2>2. CASE j = o - 1
    <3>1. o >= 2 /\ j - 1 = o - 2 /\ j \in 0 .. TreeHeight /\ j - 1 \in 0 .. TreeHeight
          /\ 0 \in 0 .. TreeHeight
      BY <1>3, <2>2
    <3>2. hs[j] \in Nat /\ hs[j - 1] \in Nat /\ hs[0] \in Nat
      BY <1>2, <3>1, NumbersAt
    <3>3. hs[j] # hs[j - 1] /\ hs[j] <= hs[j - 1]
      BY <1>1, <2>2, <3>1 DEF Pair, NearlyFalling
    <3>4. CASE j = 1
      BY <3>2, <3>3, <3>4
    <3>5. CASE j > 1
      <4>1. j - 1 \in 1 .. (o - 1) - 1
        BY <1>3, <2>2, <3>5
      <4>2. hs[j - 1] + (j - 1) <= hs[0]
        BY <1>1, <4>1 DEF NearlyFalling, Falling
      <4> QED
        BY <3>2, <3>3, <4>2
    <3> QED
      BY <3>4, <3>5
  <2> QED
    BY <1>3, <2>1, <2>2
<1>5. ASSUME NEW h \in 0 .. TreeHeight - 1, First(PathIndex(p, h) + 1, h) <= idx + 1
      PROVE  Found(p, w, h)
  <2>1. /\ h \in 0 .. TreeHeight /\ h \in 0 .. TreeHeight + 1
        /\ PathIndex(p, h) \in Nat /\ PathIndex(p, h) + 1 \in Nat
    BY <1>3, PathNat
  <2>2. First(PathIndex(p, h) + 1, h) \in Nat
    BY <2>1, FirstNat
  <2>3. CASE First(PathIndex(p, h) + 1, h) = idx + 1
    <3>1. h <= hs[o - 1]
      BY <1>1, <1>2, <1>4, <2>1, <2>3, CompleteNode
    <3>2. hs[o - 1] \in Nat
      BY <1>2, <1>3, NumbersAt
    <3>3. h < hs[o - 1] + 1
      BY <3>1, <3>2
    <3> QED
      BY <2>3, <3>3 DEF PathBelow
  <2>4. CASE First(PathIndex(p, h) + 1, h) <= idx
    BY <2>4 DEF PathBelow
  <2> QED
    BY <1>5, <2>2, <2>3, <2>4
<1> QED
  BY <1>1, <1>4, <1>5 DEF TreeInv, Adding

\* A turn of treehash: a leaf is added.
LEMMA LeafAddedKeeps ==
  ASSUME NEW p, p[3] \in Nat, NEW w, NEW idx \in Nat, TreeInv(p, w, idx),
         idx < First(1, TreeHeight)
  PROVE  TreeInv(p, LeafAdded(w, p[1], p[2], p[3], idx), idx + 1)
<1> DEFINE r     == <<p[1], p[2], p[3], idx>>
           start == Saved(Pushed(w, p[1], p[2], idx), p[3], idx)
           done  == Merges!TheFor(r, TreeHeight, start)
<1>1. LeafAdded(w, p[1], p[2], p[3], idx) = done
  BY DEF LeafAdded, While, For, Merges!TheFor, Merges!For, MergeTurn
<1>2. TreeInv(r, w, idx) /\ r[3] \in Nat /\ r[4] = idx
  BY DEF TreeInv, Nodes, Found, PathIndex
<1>3. MergeInv(r, start, 0)
  <2> DEFINE v == Pushed(w, p[1], p[2], idx)
  <2>1. Adding(r, v, idx) /\ PathBelow(r, v, idx, v.heights[v.offset - 1])
    BY <1>2, PushedKeeps
  <2> HIDE DEF v
  <2>2. Adding(r, start, idx) /\ PathBelow(r, start, idx, start.heights[start.offset - 1] + 1)
    BY <1>2, <2>1, SavedKeeps DEF v
  <2> HIDE DEF start
  <2>3. start.heights[start.offset - 1] >= 0
    BY <2>2, AddingHeights
  <2> QED
    BY <2>2, <2>3 DEF MergeInv
<1>4. TreeHeight \in Nat
  BY Sizes
<1>5. MergeInv(r, done, TreeHeight)
  <2> HIDE DEF start, r
  <2>1. ASSUME NEW t, NEW i \in 0 .. TreeHeight - 1, MergeInv(r, t, i)
        PROVE  MergeInv(r, MergeTurn(r, t, i), i + 1)
    BY <1>2, <2>1, MergeKeeps
  <2> QED
    BY <1>3, <1>4, <2>1, Merges!ForRule
<1> HIDE DEF done
<1>6. ~ Pair(done)
  <2>1. Adding(r, done, idx) /\ (Pair(done) => done.heights[done.offset - 1] >= TreeHeight)
    BY <1>5 DEF MergeInv
  <2> HIDE DEF r
  <2> QED
    BY <1>4, <2>1, AddingHeights
<1>7. TreeInv(r, done, idx + 1)
  BY <1>2, <1>5, <1>6, AddingDone DEF MergeInv
<1> QED
  BY <1>1, <1>7 DEF TreeInv, Nodes, Found, PathIndex

-----------------------------------------------------------------------------

\* The two nested loops over the leaves, First(1, low) of them in the inner.
low == TreeHeight \div 2

InnerTurn(p, u, j) == LeafAdded(u, p[1], p[2], p[3], p[4] * 2^low + j)
InnerInv(p, u, j)  == TreeInv(p, u, p[4] * 2^low + j)
Inner == INSTANCE LoopRules WITH Body <- InnerTurn, Inv <- InnerInv

OuterTurn(p, t, i) ==
  For(2^low, LAMBDA u, j : LeafAdded(u, p[1], p[2], p[3], i * 2^low + j), t)
OuterInv(p, t, i) == TreeInv(p, t, i * 2^low)
Outer == INSTANCE LoopRules WITH Body <- OuterTurn, Inv <- OuterInv

\* The leaves of the tree in blocks.
LEMMA LeafBlocks ==
  /\ low \in Nat /\ TreeHeight - low \in Nat
  /\ 2^low \in Nat \ {0} /\ 2^(TreeHeight - low) \in Nat \ {0}
  /\ 2^(TreeHeight - low) * 2^low = First(1, TreeHeight)
<1>1. TreeHeight \in Nat \ {0}
  BY Powers
<1>2. low \in 0 .. TreeHeight
  BY <1>1 DEF low
<1> HIDE DEF low
<1>3. TreeHeight - low \in 0 .. TreeHeight /\ (TreeHeight - low) + low = TreeHeight
  BY <1>1, <1>2
<1>4. 2^low \in Nat \ {0} /\ 2^(TreeHeight - low) \in Nat \ {0} /\ 2^TreeHeight \in Nat
  <2>1. low \in 0 .. TreeHeight + 1 /\ TreeHeight - low \in 0 .. TreeHeight + 1
        /\ TreeHeight \in 0 .. TreeHeight + 1
    BY <1>1, <1>2, <1>3
  <2> QED
    BY <2>1, Powers
<1>5. 2^((TreeHeight - low) + low) = 2^(TreeHeight - low) * 2^low
  <2>1. \A i \in 0 .. TreeHeight : 2^(i + 1) = 2 * 2^i
    BY Powers
  <2>2. /\ low \in Nat /\ TreeHeight - low \in Nat
        /\ (TreeHeight - low) + low <= TreeHeight + 1
    BY <1>1, <1>2, <1>3
  <2> QED
    BY <1>1, <2>1, <2>2, Rules!PowSum
<1> QED
  BY <1>2, <1>3, <1>4, <1>5 DEF First

\* The inner loop adds a block of leaves.
LEMMA OuterKeeps ==
  ASSUME NEW p, p[3] \in Nat, NEW t, NEW i \in 0 .. 2^(TreeHeight - low) - 1,
         OuterInv(p, t, i)
  PROVE  OuterInv(p, OuterTurn(p, t, i), i + 1)
<1> DEFINE r    == <<p[1], p[2], p[3], i>>
           done == Inner!TheFor(r, 2^low, t)
<1>1. OuterTurn(p, t, i) = done
  BY DEF OuterTurn, InnerTurn, For, Inner!TheFor, Inner!For
<1>2. r[3] \in Nat /\ r[4] = i /\ i \in Nat /\ 2^low \in Nat \ {0}
  BY LeafBlocks
<1>3. TreeInv(r, t, i * 2^low)
  BY DEF OuterInv, TreeInv, Nodes, Found, PathIndex
<1> HIDE DEF r
<1>4. InnerInv(r, t, 0)
  <2>1. i * 2^low + 0 = i * 2^low
    BY <1>2
  <2> QED
    BY <1>2, <1>3, <2>1 DEF InnerInv
<1>5. ASSUME NEW u, NEW j \in 0 .. 2^low - 1, InnerInv(r, u, j)
      PROVE  InnerInv(r, InnerTurn(r, u, j), j + 1)
  <2> DEFINE idx == i * 2^low + j
  <2>1. idx \in Nat /\ idx + 1 = i * 2^low + (j + 1)
    BY <1>2
  <2>2. idx < First(1, TreeHeight)
    <3> DEFINE k == 2^(TreeHeight - low)
               b == 2^low
    <3>1. k \in Nat /\ b \in Nat /\ i + 1 <= k /\ j + 1 <= b /\ k * b = First(1, TreeHeight)
      BY LeafBlocks
    <3> HIDE DEF k, b
    <3>2. (i + 1) * b <= k * b
      BY <1>2, <3>1
    <3>3. i * b + j < (i + 1) * b
      BY <1>2, <3>1
    <3> QED
      BY <1>2, <3>1, <3>2, <3>3 DEF b
  <2>3. TreeInv(r, u, idx)
    BY <1>2, <1>5 DEF InnerInv
  <2> HIDE DEF idx
  <2>4. TreeInv(r, LeafAdded(u, r[1], r[2], r[3], idx), idx + 1)
    BY <1>2, <2>1, <2>2, <2>3, LeafAddedKeeps
  <2> QED
    BY <1>2, <2>1, <2>4 DEF InnerInv, InnerTurn, idx
<1>6. InnerInv(r, done, 2^low)
  BY <1>2, <1>4, <1>5, Inner!ForRule
<1>7. i * 2^low + 2^low = (i + 1) * 2^low
  BY <1>2
<1> QED
  BY <1>1, <1>2, <1>6, <1>7 DEF InnerInv, OuterInv, TreeInv, Nodes, Found, PathIndex, r

\* Before the first leaf.
LEMMA NoLeavesInv ==
  ASSUME NEW p, p[3] \in Nat
  PROVE  TreeInv(p, NoLeaves, 0)
<1>1. TreeHeight \in Nat /\ First(1, TreeHeight) \in Nat
  BY Powers, FirstNat
<1>2. TreeState(NoLeaves) /\ NoLeaves.offset = 0
      /\ NoLeaves.heights = [j \in 0 .. TreeHeight |-> 0]
  BY DEF NoLeaves, TreeState
<1>3. Blocks([j \in 0 .. TreeHeight |-> 0], [j \in 0 .. TreeHeight |-> 0], 0, 0)
  BY <1>1 DEF Blocks, Numbers, SideBySide
<1>4. Falling([j \in 0 .. TreeHeight |-> 0], 0)
  BY DEF Falling
<1>5. Nodes(p, NoLeaves, [j \in 0 .. TreeHeight |-> 0])
  BY <1>2 DEF Nodes
<1>6. ASSUME NEW h \in 0 .. TreeHeight - 1
      PROVE  ~ First(PathIndex(p, h) + 1, h) <= 0
  <2>1. /\ h \in 0 .. TreeHeight /\ h \in 0 .. TreeHeight + 1 /\ PathIndex(p, h) \in Nat
        /\ PathIndex(p, h) + 1 \in Nat
    BY <1>1, PathNat
  <2>2. First(0, h) < First(PathIndex(p, h) + 1, h)
    BY <2>1, FirstLess
  <2> QED
    BY <2>1, <2>2, FirstNat
<1> QED
  BY <1>2, <1>3, <1>4, <1>5, <1>6 DEF TreeInv

(***************************************************************************)
(* treehash computes the root of the tree and the authentication path of   *)
(* the leaf: for every height the sibling of the node above the leaf.      *)
(***************************************************************************)
THEOREM TreehashIs ==
  ASSUME NEW seed, NEW addr, NEW leaf_idx \in 0 .. 2^TreeHeight - 1
  PROVE  /\ treehash(seed, addr, leaf_idx).root = Node(seed, addr, TreeHeight, 0)
         /\ \A h \in 0 .. TreeHeight - 1 :
              treehash(seed, addr, leaf_idx).auth_path[h] =
                Node(seed, addr, h, Sibling(Shr(leaf_idx, h)))
<1> DEFINE p    == <<seed, addr, leaf_idx>>
           done == Outer!TheFor(p, 2^(TreeHeight - low), NoLeaves)
<1>1. treehash(seed, addr, leaf_idx) = [root |-> done.stack[0], auth_path |-> done.auth_path]
  <2>1. p[1] = seed /\ p[2] = addr /\ p[3] = leaf_idx
    OBVIOUS
  <2> HIDE DEF p
  <2>2. treehash(p[1], p[2], p[3]) = [root |-> done.stack[0], auth_path |-> done.auth_path]
    BY DEF treehash, ForLeaves, OuterTurn, For, Outer!TheFor, Outer!For, low
  <2> QED
    BY <2>1, <2>2
<1>2. p[1] = seed /\ p[2] = addr /\ p[3] = leaf_idx /\ p[3] \in Nat
  OBVIOUS
<1> HIDE DEF p
<1>3. OuterInv(p, NoLeaves, 0)
  <2>1. 0 * 2^low = 0
    BY LeafBlocks
  <2> QED
    BY <1>2, <2>1, NoLeavesInv DEF OuterInv
<1>4. ASSUME NEW t, NEW i \in 0 .. 2^(TreeHeight - low) - 1, OuterInv(p, t, i)
      PROVE  OuterInv(p, OuterTurn(p, t, i), i + 1)
  BY <1>2, <1>4, OuterKeeps
<1>5. OuterInv(p, done, 2^(TreeHeight - low))
  <2>1. 2^(TreeHeight - low) \in Nat
    BY LeafBlocks
  <2> QED
    BY <1>3, <1>4, <2>1, Outer!ForRule
<1> HIDE DEF done
<1>6. TreeInv(p, done, First(1, TreeHeight))
  BY <1>5, LeafBlocks DEF OuterInv
<1>7. done.stack[0] = Node(seed, addr, TreeHeight, 0)
  <2>1. PICK ix : /\ Blocks(done.heights, ix, done.offset, First(1, TreeHeight))
                  /\ Falling(done.heights, done.offset)
                  /\ Nodes(p, done, ix)
    BY <1>6 DEF TreeInv
  <2>2. done.offset = 1 /\ done.heights[0] = TreeHeight /\ ix[0] = 0
    BY <2>1, BlocksDone
  <2>3. 0 \in 0 .. done.offset - 1
    BY <2>2
  <2> QED
    BY <1>2, <2>1, <2>2, <2>3 DEF Nodes
<1>8. ASSUME NEW h \in 0 .. TreeHeight - 1
      PROVE  done.auth_path[h] = Node(seed, addr, h, Sibling(Shr(leaf_idx, h)))
  <2> DEFINE x == Shr(leaf_idx, h)
  <2>1. TreeHeight \in Nat
    BY Powers
  <2>2. h \in 0 .. TreeHeight /\ h \in Nat
    BY <2>1
  <2>3. x \in Nat /\ PathIndex(p, h) = Sibling(x) /\ PathIndex(p, h) \in Nat
    BY <1>2, <2>2, PathNat DEF PathIndex
  <2>4. PICK q \in Nat : q > 0 /\ 2^TreeHeight = (2 * q) * 2^h
    <3>1. TreeHeight \in 0 .. TreeHeight + 1
      BY <2>1
    <3> QED
      BY <3>1, Powers
  <2>5. 2^h \in Nat \ {0}
    <3>1. h \in 0 .. TreeHeight + 1
      BY <2>1
    <3> QED
      BY <3>1, Powers
  <2>6. x * 2^h <= leaf_idx
    <3>1. /\ leaf_idx % 2^h \in 0 .. 2^h - 1
          /\ leaf_idx = (leaf_idx \div 2^h) * 2^h + (leaf_idx % 2^h)
      <4>1. leaf_idx \in Int
        BY <1>2
      <4> QED
        BY <4>1, <2>5, Rules!DivMod
    <3>2. x = leaf_idx \div 2^h
      BY DEF Shr
    <3> HIDE DEF x
    <3> QED
      BY <1>2, <2>3, <2>5, <3>1, <3>2
  <2> HIDE DEF x
  <2>7. x < 2 * q
    <3>1. x * 2^h < (2 * q) * 2^h
      BY <1>2, <2>3, <2>4, <2>5, <2>6
    <3> QED
      BY <2>3, <2>5, <3>1
  <2>8. Sibling(x) + 1 <= 2 * q
    BY <2>3, <2>7 DEF Sibling
  <2>9. First(PathIndex(p, h) + 1, h) <= First(1, TreeHeight)
    <3>1. (PathIndex(p, h) + 1) * 2^h <= (2 * q) * 2^h
      BY <2>3, <2>5, <2>8
    <3>2. 1 * 2^TreeHeight = 2^TreeHeight
      BY <2>4, <2>5
    <3> QED
      BY <2>4, <3>1, <3>2 DEF First
  <2>10. Found(p, done, h)
    BY <1>6, <2>9 DEF TreeInv
  <2> QED
    BY <1>2, <2>10 DEF Found, PathIndex
<1> QED
  BY <1>1, <1>7, <1>8

-----------------------------------------------------------------------------

\* The node above a node.
LEMMA ShrUp ==
  ASSUME NEW x \in Nat, NEW h \in 0 .. TreeHeight
  PROVE  Shr(x, h) \in Nat /\ Shr(x, h + 1) = Shr(x, h) \div 2
<1> DEFINE y == Shr(x, h)
           z == y \div 2
<1>1. TreeHeight \in Nat /\ h \in 0 .. TreeHeight + 1 /\ h + 1 \in 0 .. TreeHeight + 1
  BY Powers
<1>2. 2^h \in Nat \ {0}
  BY <1>1, Powers
<1>3. y \in Nat /\ First(y, h) <= x /\ x < First(y + 1, h)
  <2>1. x \in Int
    OBVIOUS
  <2>2. /\ x \div 2^h \in Int /\ x % 2^h \in 0 .. 2^h - 1
        /\ x = (x \div 2^h) * 2^h + (x % 2^h)
    BY <1>2, <2>1, Rules!DivMod
  <2>3. y = x \div 2^h
    BY DEF Shr
  <2> HIDE DEF y
  <2>4. y \in Nat
    BY <1>2, <2>2, <2>3
  <2> QED
    BY <1>2, <2>2, <2>3, <2>4 DEF First
<1> HIDE DEF y
<1>4. z \in Nat /\ 2 * z <= y /\ y + 1 <= 2 * (z + 1)
  BY <1>3
<1> HIDE DEF z
<1>5. First(z, h + 1) <= x /\ x < First(z + 1, h + 1)
  <2>1. First(z, h + 1) = First(2 * z, h) /\ First(z + 1, h + 1) = First(2 * (z + 1), h)
    BY <1>4, FirstUp
  <2>2. (2 * z) * 2^h <= y * 2^h /\ (y + 1) * 2^h <= (2 * (z + 1)) * 2^h
    BY <1>2, <1>3, <1>4
  <2>3. /\ (2 * z) * 2^h \in Nat /\ y * 2^h \in Nat /\ (y + 1) * 2^h \in Nat
        /\ (2 * (z + 1)) * 2^h \in Nat
    BY <1>2, <1>3, <1>4
  <2> QED
    BY <1>3, <2>1, <2>2, <2>3 DEF First
<1>6. Shr(x, h + 1) = z
  BY <1>1, <1>4, <1>5, FirstShr
<1> QED
  BY <1>3, <1>6 DEF y, z

\* compute_root, called with p: leafidx, auth_path, seed and address.
ClimbTurn(p, t, h) == ParentOnPath(t, h, p[1], p[2], p[3], p[4])
ClimbInv(p, t, h)  == t = Node(p[3], p[4], h, Shr(p[1], h))
Climb == INSTANCE LoopRules WITH Body <- ClimbTurn, Inv <- ClimbInv

\* A leaf of a tree and its authentication path lead to the root.
LEMMA ComputeRootIs ==
  ASSUME NEW seed, NEW addr, NEW leaf \in 0 .. 2^TreeHeight - 1, NEW auth,
         \A h \in 0 .. TreeHeight - 1 : auth[h] = Node(seed, addr, h, Sibling(Shr(leaf, h)))
  PROVE  compute_root(params, gen_leaf_wots(seed, addr, leaf), leaf, auth, seed, addr) =
           Node(seed, addr, TreeHeight, 0)
<1> DEFINE p    == <<leaf, auth, seed, addr>>
           start == gen_leaf_wots(seed, addr, leaf)
           done == Climb!TheFor(p, TreeHeight, start)
<1>1. p[1] = leaf /\ p[2] = auth /\ p[3] = seed /\ p[4] = addr
  OBVIOUS
<1>2. compute_root(params, start, leaf, auth, seed, addr) = done
  <2> HIDE DEF p
  <2>1. compute_root(params, start, p[1], p[2], p[3], p[4]) = done
    BY DEF compute_root, params, ClimbTurn, For, Climb!TheFor, Climb!For
  <2> QED
    BY <1>1, <2>1
<1> HIDE DEF p
<1>3. TreeHeight \in Nat /\ leaf \in Nat
  BY Powers
<1>4. ClimbInv(p, start, 0)
  <2>1. Shr(leaf, 0) = leaf
    BY <1>3, Powers DEF Shr
  <2> QED
    BY <1>1, <2>1 DEF ClimbInv, gen_leaf_wots
<1>5. ASSUME NEW t, NEW h \in 0 .. TreeHeight - 1, ClimbInv(p, t, h)
      PROVE  ClimbInv(p, ClimbTurn(p, t, h), h + 1)
  <2> DEFINE x == Shr(leaf, h)
             y == Shr(leaf, h + 1)
  <2>1. x \in Nat /\ y = x \div 2
    <3>1. h \in 0 .. TreeHeight
      BY <1>3
    <3> QED
      BY <1>3, <3>1, ShrUp
  <2>2. t = Node(seed, addr, h, x) /\ auth[h] = Node(seed, addr, h, Sibling(x))
    BY <1>1, <1>5 DEF ClimbInv
  <2> HIDE DEF x, y
  <2>3. CASE x % 2 = 1
    <3>1. Sibling(x) = 2 * y /\ x = 2 * y + 1
      BY <2>1, <2>3 DEF Sibling
    <3>2. thash_h(auth[h], t, seed, addr, h, y) = Node(seed, addr, h + 1, y)
      BY <2>2, <3>1 DEF thash_h
    <3> QED
      BY <1>1, <2>3, <3>2 DEF ClimbInv, ClimbTurn, ParentOnPath, Bit, x, y
  <2>4. CASE x % 2 # 1
    <3>1. Sibling(x) = 2 * y + 1 /\ x = 2 * y
      BY <2>1, <2>4 DEF Sibling
    <3>2. thash_h(t, auth[h], seed, addr, h, y) = Node(seed, addr, h + 1, y)
      BY <2>2, <3>1 DEF thash_h
    <3> QED
      BY <1>1, <2>4, <3>2 DEF ClimbInv, ClimbTurn, ParentOnPath, Bit, x, y
  <2> QED
    BY <2>3, <2>4
<1>6. ClimbInv(p, done, TreeHeight)
  BY <1>3, <1>4, <1>5, Climb!ForRule
<1>7. Shr(leaf, TreeHeight) = 0
  <2>1. 2^TreeHeight \in Nat \ {0}
    <3>1. TreeHeight \in 0 .. TreeHeight + 1
      BY <1>3
    <3> QED
      BY <3>1, Powers
  <2>2. 0 * 2^TreeHeight <= leaf /\ leaf < (0 + 1) * 2^TreeHeight
    BY <1>3, <2>1
  <2>3. leaf \in Int /\ 0 \in Int
    BY <1>3
  <2> QED
    BY <2>1, <2>2, <2>3, Rules!DivUnique DEF Shr
<1> QED
  BY <1>1, <1>2, <1>6, <1>7 DEF ClimbInv

-----------------------------------------------------------------------------

(***************************************************************************)
(* The layers of a signature: where index idx is in layer i, and what that *)
(* layer signs: the message hash, then the roots of the trees below.       *)
(***************************************************************************)
AddrAt(idx, i) == [layer |-> i, tree |-> Shr(idx, (i + 1) * TreeHeight)]
LeafAt(idx, i) == Low(Shr(idx, i * TreeHeight), TreeHeight)

RootBelow(key, idx, i) ==
  IF i = 0 THEN hash_message(key.root, idx)
  ELSE Node(key.seed, AddrAt(idx, i - 1), TreeHeight, 0)

SignedAt(key, idx, i) ==
  [sig  |-> wots_sign(RootBelow(key, idx, i), key.seed, AddrAt(idx, i), LeafAt(idx, i)),
   auth |-> treehash(key.seed, AddrAt(idx, i), LeafAt(idx, i)).auth_path]

\* The leaf of a layer is one of its tree.
LEMMA LeafAtIs ==
  ASSUME NEW idx \in Nat, NEW i \in 0 .. Layers - 1
  PROVE  LeafAt(idx, i) \in 0 .. 2^TreeHeight - 1
<1>1. i \in 0 .. Layers /\ i \in Nat
  BY Sizes
<1>2. i * TreeHeight \in Nat /\ i * TreeHeight <= TreeHeight * Layers
  BY <1>1, Sizes
<1>3. 2^(i * TreeHeight) \in Nat \ {0} /\ 2^TreeHeight \in Nat \ {0}
  <2>1. \A k \in 0 .. TreeHeight * Layers : 2^(k + 1) = 2 * 2^k
    BY PowersAssumption DEF PowersOfTwo
  <2>2. TreeHeight * Layers \in Nat /\ i * TreeHeight \in 0 .. (TreeHeight * Layers) + 1
    BY <1>2, Sizes
  <2>3. TreeHeight \in 0 .. TreeHeight + 1
    BY Sizes
  <2> QED
    BY <2>1, <2>2, <2>3, Powers, Rules!PowNat
<1>4. idx \div 2^(i * TreeHeight) \in Int
  BY <1>3
<1> QED
  BY <1>3, <1>4 DEF LeafAt, Shr, Low

\* The loop of xmssmt_core_sign over the layers, called with key and idx.
LayerTurn(p, w, i) == LayerSigned(p[1], p[2], w, i)
LayerInv(p, w, i) ==
  /\ w.root = RootBelow(p[1], p[2], i)
  /\ w.layers = [j \in 0 .. Layers - 1 |-> w.layers[j]]
  /\ \A j \in 0 .. i - 1 : w.layers[j] = SignedAt(p[1], p[2], j)
Signs == INSTANCE LoopRules WITH Body <- LayerTurn, Inv <- LayerInv

(***************************************************************************)
(* What a signature consists of, whatever the key holds (SignLast uses one *)
(* that has been wiped).                                                   *)
(***************************************************************************)
THEOREM SignatureIs ==
  ASSUME NEW key, NEW idx \in Nat
  PROVE  /\ Signature(key, idx).idx = key.idx
         /\ \A i \in 0 .. Layers - 1 : Signature(key, idx).layers[i] = SignedAt(key, idx, i)
<1> DEFINE p     == <<key, idx>>
           start == [root   |-> hash_message(key.root, idx),
                     layers |-> [i \in 0 .. Layers - 1 |-> Junk]]
           done  == Signs!TheFor(p, Layers, start)
<1>1. p[1] = key /\ p[2] = idx
  OBVIOUS
<1>2. Signature(key, idx) = [idx |-> key.idx, layers |-> done.layers]
  <2> HIDE DEF p
  <2>1. Signature(p[1], p[2]) =
          [idx |-> p[1].idx,
           layers |-> Signs!TheFor(p, Layers,
                        [root   |-> hash_message(p[1].root, p[2]),
                         layers |-> [i \in 0 .. Layers - 1 |-> Junk]]).layers]
    BY DEF Signature, LayerTurn, For, Signs!TheFor, Signs!For
  <2> QED
    BY <1>1, <2>1
<1> HIDE DEF p
<1>3. Layers \in Nat /\ Layers > 0
  BY Sizes
<1>4. LayerInv(p, start, 0)
  BY <1>1 DEF LayerInv, RootBelow
<1>5. ASSUME NEW w, NEW i \in 0 .. Layers - 1, LayerInv(p, w, i)
      PROVE  LayerInv(p, LayerTurn(p, w, i), i + 1)
  <2> DEFINE addr == AddrAt(idx, i)
             leaf == LeafAt(idx, i)
             tree == treehash(key.seed, addr, leaf)
             v    == LayerTurn(p, w, i)
  <2>1. /\ w.root = RootBelow(key, idx, i)
        /\ w.layers = [j \in 0 .. Layers - 1 |-> w.layers[j]]
        /\ \A j \in 0 .. i - 1 : w.layers[j] = SignedAt(key, idx, j)
    BY <1>1, <1>5 DEF LayerInv
  <2>2. v = [root |-> tree.root,
             layers |-> [w.layers EXCEPT ![i] = SignedAt(key, idx, i)]]
    BY <1>1, <2>1 DEF LayerTurn, LayerSigned, SignedAt, AddrAt, LeafAt
  <2>3. tree.root = Node(key.seed, addr, TreeHeight, 0)
    BY LeafAtIs, TreehashIs
  <2>4. v.root = RootBelow(key, idx, i + 1)
    <3>1. i + 1 # 0 /\ (i + 1) - 1 = i
      OBVIOUS
    <3> QED
      BY <2>2, <2>3, <3>1 DEF RootBelow
  <2> HIDE DEF v
  <2>5. /\ v.layers = [j \in 0 .. Layers - 1 |-> v.layers[j]]
        /\ v.layers[i] = SignedAt(key, idx, i)
        /\ \A j \in 0 .. i - 1 : v.layers[j] = w.layers[j]
    <3>1. 0 .. i - 1 \subseteq 0 .. Layers - 1 /\ i \notin 0 .. i - 1
      BY <1>3
    <3> QED
      BY <2>1, <2>2, <3>1
  <2>6. ASSUME NEW j \in 0 .. (i + 1) - 1
        PROVE  v.layers[j] = SignedAt(key, idx, j)
    <3>1. j \in 0 .. i - 1 \/ j = i
      OBVIOUS
    <3> QED
      BY <2>1, <2>5, <3>1
  <2> QED
    BY <1>1, <2>4, <2>5, <2>6 DEF LayerInv, v
<1>6. LayerInv(p, done, Layers)
  BY <1>3, <1>4, <1>5, Signs!ForRule
<1> HIDE DEF done
<1>7. \A i \in 0 .. Layers - 1 : done.layers[i] = SignedAt(key, idx, i)
  BY <1>1, <1>6 DEF LayerInv
<1> QED
  BY <1>2, <1>7

\* The loop of xmssmt_core_sign_open, called with params, sm and pk.
VerifyTurn(p, root, i) == LayerRoot(p[1], p[2], p[3], root, i)
VerifyInv(p, root, i)  == root = RootBelow(p[3], p[2].idx, i)
Verifies == INSTANCE LoopRules WITH Body <- VerifyTurn, Inv <- VerifyInv

\* The root of the one tree of the top layer.
TopRoot == Node(RealSeed, [layer |-> Layers - 1, tree |-> 0], TreeHeight, 0)

(***************************************************************************)
(* A signature by a key whose seeds and root are those of the public key   *)
(* verifies, if its header is the index it was made with.                  *)
(***************************************************************************)
THEOREM SignatureVerifies ==
  ASSUME NEW key, NEW idx \in 0 .. Leaves - 1, key.idx = idx,
         key.seed = RealSeed, key.root = TopRoot,
         NEW pub, pub = [seed |-> RealSeed, root |-> TopRoot]
  PROVE  sign_open(params, Signature(key, idx), pub)
<1> DEFINE sm    == Signature(key, idx)
           p     == <<params, sm, pub>>
           start == hash_message(pub.root, sm.idx)
           done  == Verifies!TheFor(p, Layers, start)
<1>1. Leaves \in Nat \ {0} /\ idx \in Nat /\ Layers \in Nat \ {0}
  <2>1. \A k \in 0 .. TreeHeight * Layers : 2^(k + 1) = 2 * 2^k
    BY PowersAssumption DEF PowersOfTwo
  <2>2. TreeHeight * Layers \in Nat /\ TreeHeight * Layers \in 0 .. (TreeHeight * Layers) + 1
    BY Sizes
  <2> QED
    BY <2>1, <2>2, Sizes, Rules!PowNat DEF Leaves
<1>2. /\ sm.idx = idx
      /\ \A i \in 0 .. Layers - 1 : sm.layers[i] = SignedAt(key, idx, i)
  BY <1>1, SignatureIs
<1> HIDE DEF sm
<1>3. p[1] = params /\ p[2] = sm /\ p[3] = pub
  OBVIOUS
<1>4. sign_open(params, sm, pub) <=> done = TopRoot
  <2> HIDE DEF p
  <2>1. params.d = Layers
    BY DEF params
  <2>2. sign_open(p[1], p[2], p[3]) <=>
          Verifies!TheFor(p, p[1].d, hash_message(p[3].root, p[2].idx)) = p[3].root
    BY DEF sign_open, VerifyTurn, For, Verifies!TheFor, Verifies!For
  <2> QED
    BY <1>3, <2>1, <2>2
<1> HIDE DEF p
<1>5. VerifyInv(p, start, 0)
  BY <1>3 DEF VerifyInv, RootBelow
<1>6. ASSUME NEW root, NEW i \in 0 .. Layers - 1, VerifyInv(p, root, i)
      PROVE  VerifyInv(p, VerifyTurn(p, root, i), i + 1)
  <2> DEFINE addr == AddrAt(idx, i)
             leaf == LeafAt(idx, i)
             auth == treehash(RealSeed, addr, leaf).auth_path
  <2>1. root = RootBelow(key, idx, i)
    <3>1. pub.seed = key.seed /\ pub.root = key.root
      OBVIOUS
    <3>2. root = RootBelow(pub, idx, i)
      BY <1>2, <1>3, <1>6 DEF VerifyInv
    <3> QED
      BY <3>1, <3>2 DEF RootBelow
  <2>2. sm.layers[i].sig = wots_sign(root, RealSeed, addr, leaf) /\ sm.layers[i].auth = auth
    <3>1. sm.layers[i] = SignedAt(key, idx, i) /\ key.seed = RealSeed
      BY <1>2
    <3>2. SignedAt(key, idx, i) = [sig |-> wots_sign(root, RealSeed, addr, leaf), auth |-> auth]
      BY <2>1, <3>1 DEF SignedAt
    <3> HIDE DEF addr, leaf, auth
    <3> QED
      BY <3>1, <3>2
  <2>3. leaf \in 0 .. 2^TreeHeight - 1
    BY <1>1, LeafAtIs
  <2>4. VerifyTurn(p, root, i) =
          compute_root(params, gen_leaf_wots(RealSeed, addr, leaf), leaf, auth, RealSeed, addr)
    <3>1. params.tree_height = TreeHeight
      BY DEF params
    <3>2. LayerRoot(params, sm, pub, root, i) =
            compute_root(params, LeafFromSig(sm.layers[i].sig, root, RealSeed, addr, leaf),
                         leaf, sm.layers[i].auth, RealSeed, addr)
      BY <1>2, <3>1 DEF LayerRoot, AddrAt, LeafAt
    <3> HIDE DEF addr, leaf, auth
    <3> QED
      BY <1>3, <2>2, <3>2 DEF VerifyTurn, LeafFromSig
  <2>5. \A h \in 0 .. TreeHeight - 1 : auth[h] = Node(RealSeed, addr, h, Sibling(Shr(leaf, h)))
    BY <2>3, TreehashIs
  <2> HIDE DEF addr, leaf, auth
  <2>6. VerifyTurn(p, root, i) = Node(RealSeed, addr, TreeHeight, 0)
    BY <2>3, <2>4, <2>5, ComputeRootIs
  <2>7. i + 1 # 0 /\ (i + 1) - 1 = i
    OBVIOUS
  <2> QED
    BY <1>2, <1>3, <2>6, <2>7 DEF VerifyInv, RootBelow, addr
<1>7. VerifyInv(p, done, Layers)
  BY <1>1, <1>5, <1>6, Verifies!ForRule
<1> HIDE DEF done
<1>8. done = Node(RealSeed, AddrAt(idx, Layers - 1), TreeHeight, 0)
  BY <1>1, <1>2, <1>3, <1>7 DEF VerifyInv, RootBelow
<1>9. AddrAt(idx, Layers - 1) = [layer |-> Layers - 1, tree |-> 0]
  <2>1. ((Layers - 1) + 1) * TreeHeight = TreeHeight * Layers
    BY Sizes
  <2>2. 0 * Leaves <= idx /\ idx < (0 + 1) * Leaves /\ idx \in Int /\ 0 \in Int
    BY <1>1
  <2>3. idx \div Leaves = 0
    BY <1>1, <2>2, Rules!DivUnique
  <2> QED
    BY <2>1, <2>3 DEF AddrAt, Shr, Leaves
<1> QED
  BY <1>4, <1>8, <1>9 DEF TopRoot, sm

-----------------------------------------------------------------------------

(***************************************************************************)
(* The inductive invariant: a key that has not been wiped is as it was     *)
(* generated but for its index, which is that of a one-time key; and what  *)
(* it signed last verifies.                                                *)
(***************************************************************************)
CoreInv ==
  /\ pk = [seed |-> RealSeed, root |-> TopRoot]
  /\ sk = [idx |-> sk.idx, seed |-> sk.seed, root |-> sk.root]
  /\ sk.idx \in Nat
  /\ sk.seed \in {RealSeed, ZeroSeed}
  /\ sk.seed = RealSeed => sk.root = TopRoot /\ sk.idx <= LastIndex
  /\ SignaturesVerify

\* The number of one-time keys.
LEMMA LeavesNat ==
  /\ Leaves \in Nat \ {0} /\ LastIndex = Leaves - 1
  /\ IndexSpace \in Nat /\ IndexSpace >= Leaves
<1>1. \A k \in 0 .. TreeHeight * Layers : 2^(k + 1) = 2 * 2^k
  BY PowersAssumption DEF PowersOfTwo
<1>2. TreeHeight * Layers \in Nat /\ TreeHeight * Layers \in 0 .. (TreeHeight * Layers) + 1
  BY Sizes
<1>3. Leaves \in Nat \ {0}
  BY <1>1, <1>2, Rules!PowNat DEF Leaves
<1> QED
  BY <1>3, XmssCoreAssumption DEF LastIndex, Leaves

\* A fresh key.
LEMMA CoreInvInit == Init => CoreInv
<1> SUFFICES ASSUME Init
             PROVE  CoreInv
  OBVIOUS
<1>1. treehash(RealSeed, [layer |-> Layers - 1, tree |-> 0], 0).root = TopRoot
  <2>1. TreeHeight \in 0 .. TreeHeight + 1
    BY Sizes
  <2>2. 0 \in 0 .. 2^TreeHeight - 1
    BY <2>1, Powers
  <2> QED
    BY <2>2, TreehashIs DEF TopRoot
<1>2. /\ sk = [idx |-> 0, seed |-> RealSeed, root |-> TopRoot]
      /\ pk = [seed |-> RealSeed, root |-> TopRoot]
      /\ out.ret = "none"
  BY <1>1 DEF Init
<1>3. 0 <= LastIndex
  BY LeavesNat
<1> QED
  BY <1>2, <1>3 DEF CoreInv, SignaturesVerify

\* The index of a key that signs, and of what it is wiped to.
LEMMA SignNext ==
  ASSUME CoreInv, Sign
  PROVE  /\ sk' = [idx |-> sk.idx + 1, seed |-> sk.seed, root |-> sk.root]
         /\ sk.idx + 1 <= LastIndex
<1>1. sk.idx \in Nat /\ sk.idx < LastIndex
  BY DEF CoreInv, Sign
<1>2. (sk.idx + 1) % IndexSpace = sk.idx + 1
  BY <1>1, LeavesNat
<1>3. sk = [idx |-> sk.idx, seed |-> sk.seed, root |-> sk.root]
  BY DEF CoreInv
<1>4. sk' = [sk EXCEPT !.idx = sk.idx + 1]
  BY <1>2 DEF Sign
<1> QED
  BY <1>1, <1>3, <1>4, LeavesNat

\* The steps.
LEMMA CoreInvNext == CoreInv /\ [Next]_vars => CoreInv'
<1> SUFFICES ASSUME CoreInv, [Next]_vars
             PROVE  CoreInv'
  OBVIOUS
<1>1. CASE Sign
  <2>1. /\ sk' = [idx |-> sk.idx + 1, seed |-> sk.seed, root |-> sk.root]
        /\ sk.idx + 1 <= LastIndex /\ sk.idx \in Nat /\ pk' = pk
    BY <1>1, SignNext DEF CoreInv, Sign
  <2>2. ASSUME sk.seed = RealSeed
        PROVE  sign_open(params, Signature(sk, sk.idx), pk)
    <3>1. sk.idx \in 0 .. Leaves - 1 /\ sk.root = TopRoot
      BY <2>1, <2>2, LeavesNat DEF CoreInv
    <3>2. pk = [seed |-> RealSeed, root |-> TopRoot]
      BY DEF CoreInv
    <3> QED
      BY <2>2, <3>1, <3>2, SignatureVerifies
  <2>3. SignaturesVerify'
    <3>1. out'.sm = Signature(sk, sk.idx)
      BY <1>1 DEF Sign
    <3>2. sk'.seed = sk.seed
      BY <2>1
    <3> QED
      BY <2>1, <2>2, <3>1, <3>2 DEF SignaturesVerify
  <2> QED
    BY <2>1, <2>3 DEF CoreInv, TopRoot
<1>2. CASE SignLast
  <2>1. /\ sk' = [idx |-> (sk.idx + 1) % IndexSpace, seed |-> ZeroSeed, root |-> ZeroNode]
        /\ pk' = pk
    BY <1>2 DEF SignLast, Wiped
  <2>2. (sk.idx + 1) % IndexSpace \in Nat
    BY LeavesNat DEF CoreInv
  <2> QED
    BY <2>1, <2>2 DEF CoreInv, SignaturesVerify, RealSeed, ZeroSeed
<1>3. CASE Refuse
  <2>1. /\ sk' = [idx |-> IndexSpace - 1, seed |-> ZeroSeed, root |-> ZeroNode]
        /\ pk' = pk
    BY <1>3 DEF Refuse, Wiped
  <2>2. IndexSpace - 1 \in Nat
    BY LeavesNat
  <2> QED
    BY <2>1, <2>2 DEF CoreInv, SignaturesVerify, RealSeed, ZeroSeed
<1>4. CASE UNCHANGED vars
  BY <1>4 DEF vars, CoreInv, SignaturesVerify
<1> QED
  BY <1>1, <1>2, <1>3, <1>4 DEF Next

\* CoreInv is an invariant.
THEOREM CoreInvHolds == Spec => []CoreInv
  BY CoreInvInit, CoreInvNext, PTL DEF Spec

(***************************************************************************)
(* Every signature that the reference implementation makes with a key that *)
(* has not been wiped verifies under the public key.                       *)
(***************************************************************************)
THEOREM SignaturesVerifyHolds == Spec => []SignaturesVerify
  BY CoreInvHolds, PTL DEF CoreInv

-----------------------------------------------------------------------------

\* The index field can hold a value that is no one-time key's index.
SpareIndex == IndexSpace > Leaves

\* Then a wiped key shows in its index, and never signs again.
RefinementInv == CoreInv /\ (sk.seed = ZeroSeed => sk.idx > LastIndex)

LEMMA RefinementInvNext ==
  ASSUME SpareIndex, RefinementInv, [Next]_vars
  PROVE  RefinementInv'
<1>1. CoreInv'
  BY CoreInvNext DEF RefinementInv
<1> SUFFICES ASSUME sk'.seed = ZeroSeed
             PROVE  sk'.idx > LastIndex
  BY <1>1 DEF RefinementInv
<1>2. CASE Sign
  <2>1. sk'.seed = sk.seed /\ sk.idx < LastIndex /\ sk.idx \in Nat
    BY <1>2, SignNext DEF RefinementInv, CoreInv, Sign
  <2> QED
    BY <2>1, LeavesNat DEF RefinementInv
<1>3. CASE SignLast
  <2>1. sk'.idx = (sk.idx + 1) % IndexSpace /\ sk.idx = LastIndex
    BY <1>3 DEF SignLast, Wiped
  <2>2. Leaves % IndexSpace = Leaves
    BY LeavesNat DEF SpareIndex
  <2> QED
    BY <2>1, <2>2, LeavesNat
<1>4. CASE Refuse
  <2>1. sk'.idx = IndexSpace - 1
    BY <1>4 DEF Refuse, Wiped
  <2> QED
    BY <2>1, LeavesNat DEF SpareIndex
<1>5. CASE UNCHANGED vars
  BY <1>5 DEF vars, RefinementInv
<1> QED
  BY <1>2, <1>3, <1>4, <1>5 DEF Next

LEMMA PromiseInit == Init => Promise!Init
<1> SUFFICES ASSUME Init
             PROVE  Promise!Init
  OBVIOUS
<1>1. sk.idx = 0 /\ sk.seed = RealSeed /\ out.ret = "none"
  BY DEF Init
<1> QED
  BY <1>1 DEF Promise!Init, Promise!NoKey

\* The keys that a signature was made with are those of its lowest layer.
LEMMA SeedOfSignature ==
  ASSUME NEW key, NEW idx \in Nat
  PROVE  /\ Signature(key, idx).layers[0].sig.seed = key.seed
         /\ Signature(key, idx).idx = key.idx
<1>1. 0 \in 0 .. Layers - 1
  BY Sizes
<1>2. Signature(key, idx).layers[0] = SignedAt(key, idx, 0) /\ Signature(key, idx).idx = key.idx
  BY <1>1, SignatureIs
<1>3. SignedAt(key, idx, 0).sig.seed = key.seed
  BY DEF SignedAt, wots_sign
<1> QED
  BY <1>2, <1>3

\* Every step is one the promise allows.
LEMMA PromiseNext ==
  ASSUME SpareIndex, RefinementInv, [Next]_vars
  PROVE  [Promise!Next]_(Promise!vars)
<1> DEFINE next(s) == IF s.seed = RealSeed THEN s.idx ELSE Leaves
           key(o)  == IF o.ret = "ok" /\ o.sm.layers[0].sig.seed = RealSeed
                      THEN o.sm.idx ELSE Leaves
<1>1. sk.idx \in Nat /\ sk.seed \in {RealSeed, ZeroSeed}
  BY DEF RefinementInv, CoreInv
<1>2. CASE Sign
  <2>1. sk.seed = RealSeed /\ sk.idx < Leaves - 1
    BY <1>1, <1>2, LeavesNat DEF RefinementInv, Sign
  <2>2. sk'.seed = RealSeed /\ sk'.idx = sk.idx + 1
    BY <1>2, <2>1, SignNext DEF RefinementInv
  <2>3. out' = [ret |-> "ok", sm |-> Signature(sk, sk.idx)]
    BY <1>2 DEF Sign
  <2>4. key(out') = sk.idx /\ out'.ret = "ok"
    BY <1>1, <2>1, <2>3, SeedOfSignature
  <2>5. Promise!Sign
    BY <2>1, <2>2, <2>4 DEF Promise!Sign
  <2> QED
    BY <2>5 DEF Promise!Next
<1>3. CASE SignLast
  <2>1. sk.seed = RealSeed /\ sk.idx = Leaves - 1
    BY <1>1, <1>3, LeavesNat DEF RefinementInv, SignLast
  <2>2. sk'.seed = ZeroSeed /\ out' = [ret |-> "ok", sm |-> Signature(Wiped, sk.idx)]
    BY <1>3 DEF SignLast, Wiped
  <2>3. key(out') = Leaves /\ out'.ret = "ok"
    <3>1. Signature(Wiped, sk.idx).layers[0].sig.seed = ZeroSeed
      BY <1>1, SeedOfSignature DEF Wiped
    <3> QED
      BY <2>2, <3>1 DEF RealSeed, ZeroSeed
  <2>4. next(sk') = Leaves
    BY <2>2 DEF RealSeed, ZeroSeed
  <2>5. Promise!SignLast
    BY <2>1, <2>3, <2>4 DEF Promise!SignLast, Promise!NoKey
  <2> QED
    BY <2>5 DEF Promise!Next
<1>4. CASE Refuse
  <2>1. sk.seed = ZeroSeed
    BY <1>1, <1>4, LeavesNat DEF RefinementInv, CoreInv, Refuse
  <2>2. sk'.seed = ZeroSeed /\ out'.ret = "spent"
    BY <1>4 DEF Refuse, Wiped
  <2>3. next(sk) = Leaves /\ next(sk') = Leaves /\ key(out') = Leaves
    BY <2>1, <2>2 DEF RealSeed, ZeroSeed
  <2>4. Promise!Refuse
    BY <2>2, <2>3 DEF Promise!Refuse, Promise!NoKey
  <2> QED
    BY <2>4 DEF Promise!Next
<1>5. CASE UNCHANGED vars
  BY <1>5 DEF vars, Promise!vars
<1> QED
  BY <1>2, <1>3, <1>4, <1>5 DEF Next

(***************************************************************************)
(* If the index field has a spare value the reference implementation keeps *)
(* the promise of a signer: its one-time keys in order, none twice, then   *)
(* refusals for good.                                                      *)
(***************************************************************************)
THEOREM ImplementsSignerHolds == SpareIndex /\ Spec => ImplementsSigner
<1>1. Init => RefinementInv
  BY CoreInvInit DEF Init, RefinementInv, RealSeed, ZeroSeed
<1>2. CASE SpareIndex
  <2>1. RefinementInv /\ [Next]_vars => RefinementInv' /\ [Promise!Next]_(Promise!vars)
    BY <1>2, RefinementInvNext, PromiseNext
  <2> QED
    BY <1>1, <2>1, PromiseInit, PTL DEF Spec, ImplementsSigner, Promise!Spec
<1>3. CASE ~ SpareIndex
  BY <1>3
<1> QED
  BY <1>2, <1>3
=============================================================================
