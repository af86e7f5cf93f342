-------------------------- MODULE XmssmtFastProofs --------------------------
(***************************************************************************)
(* Proofs about XmssmtFast, for every tree height, every number of layers, *)
(* every bds_k and whatever the memory held before: no one-time key of any *)
(* layer signs two messages, and the lowest layer's keys are used as a     *)
(* signer promises.  The nodes of the trees play no part in this.  Then    *)
(* the updates: where those of a call give out, the NEXT trees are not     *)
(* complete in time, if the calls spend as Budget says; and they do, as    *)
(* the rest of the module shows, from the index to the layers of a call.   *)
(***************************************************************************)
EXTENDS XmssmtFast, TLAPS

\* The arithmetic of LoopRules; the loop itself plays no part.
NoTurn(p, t, i) == t
NoInv(p, t, i) == TRUE
Rules == INSTANCE LoopRules WITH Body <- NoTurn, Inv <- NoInv

\* The loop over the layers, called with key.
AdvanceTurn(p, w, i) ==
  IF ~ AtTreeEnd(p[1].idx, i) THEN AdvanceLayer(w, i, p[1].idx, p[1].seed)
  ELSE IF p[1].idx < LastIndex THEN SwapLayer(w, i, p[1].idx, p[1].seed)
  ELSE w

(***************************************************************************)
(* After the turns of the layers below i, the stored signature above each  *)
(* of them that ended its tree is by the next key to the right.            *)
(***************************************************************************)
AdvanceInv(p, w, i) ==
  /\ {"states", "wots_sigs", "updates", "needswap_upto"} \subseteq DOMAIN w
  /\ p[1].idx < LastIndex =>
       /\ DOMAIN w.wots_sigs = 0 .. Layers - 2
       /\ \A j \in 0 .. i - 1 :
            AtTreeEnd(p[1].idx, j) =>
              /\ w.wots_sigs[j].tree = ParentAddr(p[1].idx, j).tree
              /\ w.wots_sigs[j].leaf = ParentLeaf(p[1].idx, j)

Advances == INSTANCE LoopRules WITH Body <- AdvanceTurn, Inv <- AdvanceInv

\* Advanced is that loop.
LEMMA AdvancedIs ==
  ASSUME NEW p
  PROVE  Advanced(p[1]) =
           Advances!TheFor(p, Layers,
             FeedLowest([states |-> p[1].states, wots_sigs |-> p[1].wots_sigs,
                         updates |-> Shr(Instances(params), 1), needswap_upto |-> -1],
                        p[1].idx, p[1].seed))
  BY DEF Advanced, AdvanceTurn, For, Advances!TheFor, Advances!For

-----------------------------------------------------------------------------

\* The constants, and the exponents that occur.
LEMMA Sizes ==
  /\ TreeHeight \in Nat \ {0} /\ Layers \in Nat \ {0, 1}
  /\ TreeHeight * Layers \in Nat
  /\ \A i \in 0 .. Layers :
       i * TreeHeight \in 0 .. TreeHeight * Layers /\ i * TreeHeight \in Nat
<1>1. TreeHeight \in Nat \ {0} /\ Layers \in Nat \ {0, 1}
  BY XmssmtFastAssumption
<1>2. \A i \in 0 .. Layers : i * TreeHeight <= TreeHeight * Layers
  BY <1>1
<1> QED
  BY <1>1, <1>2

\* Powers of two; a layer's tree is 2^TreeHeight of those below.
LEMMA Powers ==
  /\ 2^0 = 1 /\ 2^TreeHeight \in Nat \ {0}
  /\ \A i \in 0 .. Layers : 2^(i * TreeHeight) \in Nat \ {0}
  /\ \A i \in 0 .. Layers - 1 :
       2^((i + 1) * TreeHeight) = 2^(i * TreeHeight) * 2^TreeHeight
<1> DEFINE m == TreeHeight * Layers
<1>1. \A k \in 0 .. m : 2^(k + 1) = 2 * 2^k
  BY PowersAssumption DEF PowersOfTwo
<1>2. m \in Nat /\ TreeHeight \in Nat /\ TreeHeight <= m
  <2>1. 1 \in 0 .. Layers /\ 1 * TreeHeight = TreeHeight
    BY Sizes
  <2>2. 1 * TreeHeight \in 0 .. m
    BY <2>1, Sizes
  <2> QED
    BY <2>1, <2>2, Sizes
<1>3. \A i \in 0 .. Layers : i * TreeHeight \in Nat /\ i * TreeHeight <= m
  BY Sizes
<1>4. ASSUME NEW i \in 0 .. Layers - 1
      PROVE  (i + 1) * TreeHeight <= m /\ (i + 1) * TreeHeight = i * TreeHeight + TreeHeight
  <2>1. i + 1 \in 0 .. Layers
    BY Sizes
  <2> QED
    BY <1>3, <2>1, Sizes
<1> HIDE DEF m
<1>5. \A k \in 0 .. m + 1 : 2^k \in Nat \ {0}
  BY <1>1, <1>2, Rules!PowNat
<1>6. ASSUME NEW i \in 0 .. Layers
      PROVE  2^(i * TreeHeight) \in Nat \ {0}
  <2>1. i * TreeHeight \in 0 .. m + 1
    BY <1>2, <1>3
  <2> QED
    BY <1>5, <2>1
<1>7. ASSUME NEW i \in 0 .. Layers - 1
      PROVE  2^((i + 1) * TreeHeight) = 2^(i * TreeHeight) * 2^TreeHeight
  <2>1. i * TreeHeight \in Nat /\ i * TreeHeight + TreeHeight <= m + 1
    <3>1. i \in 0 .. Layers
      BY Sizes
    <3> QED
      BY <1>2, <1>3, <1>4, <3>1
  <2>2. 2^(i * TreeHeight + TreeHeight) = 2^(i * TreeHeight) * 2^TreeHeight
    BY <1>1, <1>2, <2>1, Rules!PowSum
  <2> QED
    BY <1>4, <2>2
<1>8. 2^TreeHeight \in Nat \ {0}
  <2>1. TreeHeight \in 0 .. m + 1
    BY <1>2
  <2> QED
    BY <1>5, <2>1
<1> QED
  BY <1>6, <1>7, <1>8

\* The number of one-time keys of the lowest layer.
LEMMA LeavesNat ==
  /\ Leaves \in Nat \ {0} /\ LastIndex = Leaves - 1
  /\ Leaves = 2^(Layers * TreeHeight)
  /\ IndexSpace \in Nat /\ IndexSpace >= Leaves
<1>1. TreeHeight * Layers = Layers * TreeHeight /\ Layers \in 0 .. Layers
  BY Sizes
<1> QED
  BY <1>1, Powers, XmssmtFastAssumption DEF Leaves, LastIndex

-----------------------------------------------------------------------------

(***************************************************************************)
(* Keys of a layer, numbered over all of its trees: idx stands at key      *)
(* KeyAt(idx, i) of layer i.                                               *)
(***************************************************************************)
KeyAt(idx, i) == Shr(idx, i * TreeHeight)

\* Dividing twice.
LEMMA DivDiv ==
  ASSUME NEW x \in Nat, NEW a \in Nat \ {0}, NEW b \in Nat \ {0}
  PROVE  x \div (a * b) = (x \div a) \div b
<1> DEFINE y == x \div a
           z == y \div b
<1>1. y \in Int /\ y * a <= x /\ x < (y + 1) * a
  BY Rules!DivMod
<1>2. z \in Int /\ z * b <= y /\ y < (z + 1) * b
  <2>1. y \in Int
    BY <1>1
  <2> HIDE DEF y
  <2> QED
    BY <2>1, Rules!DivMod
<1> HIDE DEF y, z
<1>3. (z * b) * a <= y * a /\ (y + 1) * a <= ((z + 1) * b) * a
  <2>1. y + 1 <= (z + 1) * b /\ z * b \in Int /\ (z + 1) * b \in Int
    BY <1>1, <1>2
  <2> QED
    BY <1>1, <1>2, <2>1
<1>4. z * (a * b) = (z * b) * a /\ (z + 1) * (a * b) = ((z + 1) * b) * a
  BY <1>2
<1>5. a * b \in Nat \ {0} /\ z * (a * b) <= x /\ x < (z + 1) * (a * b)
  <2>1. /\ (z * b) * a \in Int /\ y * a \in Int /\ (y + 1) * a \in Int
        /\ ((z + 1) * b) * a \in Int /\ a * b \in Nat \ {0}
    BY <1>1, <1>2
  <2> QED
    BY <1>1, <1>3, <1>4, <2>1
<1>6. x \div (a * b) = z
  <2>1. x \in Int
    OBVIOUS
  <2> DEFINE c == a * b
  <2>2. c \in Nat \ {0} /\ z * c <= x /\ x < (z + 1) * c
    BY <1>5
  <2> HIDE DEF c
  <2>3. x \div c = z
    BY <1>2, <2>1, <2>2, Rules!DivUnique
  <2> QED
    BY <2>3 DEF c
<1> QED
  BY <1>6 DEF y, z

\* Counting on: the quotient follows when the remainder returns to zero.
LEMMA DivNext ==
  ASSUME NEW x \in Nat, NEW a \in Nat \ {0}
  PROVE  /\ x \div a \in Nat
         /\ (x + 1) \div a = IF (x + 1) % a = 0 THEN x \div a + 1 ELSE x \div a
<1> DEFINE q == (x + 1) \div a
           r == (x + 1) % a
<1>1. q \in Int /\ r \in 0 .. a - 1 /\ x + 1 = q * a + r /\ x \in Int /\ x + 1 \in Int
  <2>1. x + 1 \in Int
    OBVIOUS
  <2> QED
    BY <2>1, Rules!DivMod
<1>2. x \div a \in Nat
  OBVIOUS
<1> HIDE DEF q, r
<1>3. CASE r = 0
  <2>1. (q - 1) * a = q * a - a /\ q * a \in Int
    BY <1>1
  <2>2. (q - 1) * a <= x /\ x < ((q - 1) + 1) * a /\ q - 1 \in Int
    BY <1>1, <1>3, <2>1
  <2>3. x \div a = q - 1
    BY <1>1, <2>2, Rules!DivUnique
  <2> QED
    BY <1>1, <1>2, <1>3, <2>3 DEF q, r
<1>4. CASE r # 0
  <2>1. (q + 1) * a = q * a + a /\ q * a \in Int
    BY <1>1
  <2>2. q * a <= x /\ x < (q + 1) * a
    BY <1>1, <1>4, <2>1
  <2>3. x \div a = q
    BY <1>1, <2>2, Rules!DivUnique
  <2> QED
    BY <1>2, <1>4, <2>3 DEF q, r
<1> QED
  BY <1>3, <1>4

\* A signature leaves the layers where they are above a tree that goes on,
\* and takes the next key above one that ends.
LEMMA KeyAtNext ==
  ASSUME NEW idx \in Nat, NEW i \in 0 .. Layers - 2
  PROVE  /\ KeyAt(idx, i + 1) \in Nat
         /\ KeyAt(idx + 1, i + 1) =
              IF AtTreeEnd(idx, i) THEN KeyAt(idx, i + 1) + 1 ELSE KeyAt(idx, i + 1)
<1>1. i + 1 \in 0 .. Layers
  BY Sizes
<1>2. 2^((i + 1) * TreeHeight) \in Nat \ {0}
  BY <1>1, Powers
<1> QED
  BY <1>2, DivNext DEF KeyAt, Shr, Low, AtTreeEnd

\* The address and leaf that SwapLayer signs with are those of the next key.
LEMMA ParentIsNext ==
  ASSUME NEW idx \in Nat, NEW i \in 0 .. Layers - 2, AtTreeEnd(idx, i)
  PROVE  ParentAddr(idx, i).tree * 2^TreeHeight + ParentLeaf(idx, i) = KeyAt(idx + 1, i + 1)
<1> DEFINE a == 2^((i + 1) * TreeHeight)
           b == 2^TreeHeight
           y == (idx + 1) \div a
<1>1. a \in Nat \ {0} /\ b \in Nat \ {0} /\ 2^((i + 2) * TreeHeight) = a * b
  <2>1. i + 1 \in 0 .. Layers /\ i + 1 \in 0 .. Layers - 1 /\ (i + 1) + 1 = i + 2
    BY Sizes
  <2>2. 2^(((i + 1) + 1) * TreeHeight) = a * b
    BY <2>1, Powers
  <2> QED
    BY <2>1, <2>2, Powers
<1>2. y = KeyAt(idx + 1, i + 1) /\ y = idx \div a + 1 /\ y \in Nat
  BY KeyAtNext DEF KeyAt, Shr
<1>3. ParentAddr(idx, i).tree = (idx + 1) \div (a * b) /\ ParentLeaf(idx, i) = y % b
  BY <1>1, <1>2 DEF ParentAddr, ParentLeaf, Shr, Low
<1>4. (idx + 1) \div (a * b) = y \div b
  <2>1. idx + 1 \in Nat
    OBVIOUS
  <2> HIDE DEF b
  <2> QED
    BY <1>1, <2>1, DivDiv DEF y
<1> HIDE DEF a, b, y
<1>5. y = (y \div b) * b + (y % b)
  <2>1. y \in Int /\ b \in Nat \ {0}
    BY <1>1, <1>2
  <2> QED
    BY <2>1, Rules!DivMod
<1>6. ParentAddr(idx, i).tree * b + ParentLeaf(idx, i) = KeyAt(idx + 1, i + 1)
  BY <1>2, <1>3, <1>4, <1>5
<1> QED
  BY <1>6 DEF b

-----------------------------------------------------------------------------

\* Before the last index the topmost layer does not end its tree.
LEMMA TopGoesOn ==
  ASSUME NEW idx \in Nat, idx < LastIndex
  PROVE  ~ AtTreeEnd(idx, Layers - 1)
<1>1. (Layers - 1) + 1 = Layers
  BY Sizes
<1>2. Leaves \in Nat /\ idx + 1 < Leaves
  BY LeavesNat
<1>3. (idx + 1) % Leaves = idx + 1
  BY <1>2
<1> QED
  BY <1>1, <1>3, LeavesNat DEF AtTreeEnd, Low

\* A turn keeps what the turns before it have stored.
LEMMA AdvanceTurnKeeps ==
  ASSUME NEW p, p[1].idx \in Nat, NEW w, NEW i \in 0 .. Layers - 1, AdvanceInv(p, w, i)
  PROVE  AdvanceInv(p, AdvanceTurn(p, w, i), i + 1)
<1> DEFINE idx  == p[1].idx
           seed == p[1].seed
           u    == AdvanceTurn(p, w, i)
<1> SUFFICES AdvanceInv(p, u, i + 1)
  OBVIOUS
<1>1. \A j \in 0 .. (i + 1) - 1 : j \in 0 .. i - 1 \/ j = i
  OBVIOUS
<1>2. CASE ~ AtTreeEnd(idx, i)
  <2>1. u = AdvanceLayer(w, i, idx, seed)
    BY <1>2 DEF AdvanceTurn
  <2>2. u.wots_sigs = w.wots_sigs /\ DOMAIN u = DOMAIN w
    BY <2>1 DEF AdvanceInv, AdvanceLayer
  <2> HIDE DEF u
  <2> QED
    BY <1>1, <1>2, <2>2 DEF AdvanceInv
<1>3. CASE AtTreeEnd(idx, i) /\ idx < LastIndex
  <2>1. u = SwapLayer(w, i, idx, seed)
    BY <1>3 DEF AdvanceTurn
  <2>2. i \in 0 .. Layers - 2
    BY <1>3, TopGoesOn, Sizes
  <2> DEFINE sig == wots_sign(w.states[Layers + i].stack[0], seed, ParentAddr(idx, i),
                              ParentLeaf(idx, i))
  <2>3. u.wots_sigs = [w.wots_sigs EXCEPT ![i] = sig] /\ DOMAIN u = DOMAIN w
    BY <2>1 DEF AdvanceInv, SwapLayer
  <2>4. sig.tree = ParentAddr(idx, i).tree /\ sig.leaf = ParentLeaf(idx, i)
    BY DEF wots_sign
  <2> HIDE DEF u, sig
  <2>5. DOMAIN w.wots_sigs = 0 .. Layers - 2
    BY <1>3 DEF AdvanceInv
  <2>6. u.wots_sigs[i] = sig /\ DOMAIN u.wots_sigs = 0 .. Layers - 2
    BY <2>2, <2>3, <2>5
  <2>7. ASSUME NEW j \in 0 .. i - 1, AtTreeEnd(idx, j)
        PROVE  /\ u.wots_sigs[j].tree = ParentAddr(idx, j).tree
               /\ u.wots_sigs[j].leaf = ParentLeaf(idx, j)
    <3>1. j \in 0 .. Layers - 2 /\ j # i
      BY <2>2, Sizes
    <3>2. u.wots_sigs[j] = w.wots_sigs[j]
      BY <2>3, <2>5, <3>1
    <3> QED
      BY <1>3, <2>7, <3>2 DEF AdvanceInv
  <2> QED
    BY <1>1, <2>3, <2>4, <2>6, <2>7 DEF AdvanceInv
<1>4. CASE AtTreeEnd(idx, i) /\ ~ (idx < LastIndex)
  <2>1. u = w
    BY <1>4 DEF AdvanceTurn
  <2> QED
    BY <1>4, <2>1 DEF AdvanceInv
<1> QED
  BY <1>2, <1>3, <1>4

\* The stored signatures after a call that was not the last: above a tree
\* that has ended, by the key that the next index stands at.
LEMMA StoredByNext ==
  ASSUME NEW key, key.idx \in Nat, key.idx < LastIndex,
         DOMAIN key.wots_sigs = 0 .. Layers - 2
  PROVE  /\ DOMAIN Advanced(key).wots_sigs = 0 .. Layers - 2
         /\ \A i \in 0 .. Layers - 2 :
              AtTreeEnd(key.idx, i) =>
                Advanced(key).wots_sigs[i].tree * 2^TreeHeight + Advanced(key).wots_sigs[i].leaf
                  = KeyAt(key.idx + 1, i + 1)
<1> DEFINE p     == <<key>>
           start == FeedLowest([states |-> key.states, wots_sigs |-> key.wots_sigs,
                                updates |-> Shr(Instances(params), 1), needswap_upto |-> -1],
                               key.idx, key.seed)
           done  == Advances!TheFor(p, Layers, start)
<1>1. p[1] = key
  OBVIOUS
<1>2. Advanced(key) = done
  <2> HIDE DEF p
  <2> QED
    BY <1>1, AdvancedIs
<1>3. start.wots_sigs = key.wots_sigs
      /\ DOMAIN start = {"states", "wots_sigs", "updates", "needswap_upto"}
  BY DEF FeedLowest
<1> HIDE DEF p, start
<1>4. AdvanceInv(p, start, 0)
  BY <1>1, <1>3 DEF AdvanceInv
<1>5. ASSUME NEW w, NEW i \in 0 .. Layers - 1, AdvanceInv(p, w, i)
      PROVE  AdvanceInv(p, AdvanceTurn(p, w, i), i + 1)
  BY <1>1, <1>5, AdvanceTurnKeeps
<1>6. AdvanceInv(p, done, Layers)
  <2>1. Layers \in Nat
    BY Sizes
  <2> QED
    BY <1>4, <1>5, <2>1, Advances!ForRule
<1> HIDE DEF done
<1>7. ASSUME NEW i \in 0 .. Layers - 2, AtTreeEnd(key.idx, i)
      PROVE  done.wots_sigs[i].tree * 2^TreeHeight + done.wots_sigs[i].leaf
               = KeyAt(key.idx + 1, i + 1)
  <2>1. i \in 0 .. Layers - 1
    BY Sizes
  <2>2. /\ done.wots_sigs[i].tree = ParentAddr(key.idx, i).tree
        /\ done.wots_sigs[i].leaf = ParentLeaf(key.idx, i)
    BY <1>1, <1>6, <1>7, <2>1 DEF AdvanceInv
  <2> QED
    BY <1>7, <2>2, ParentIsNext
<1> QED
  BY <1>1, <1>2, <1>6, <1>7 DEF AdvanceInv

-----------------------------------------------------------------------------

(***************************************************************************)
(* The inductive invariant: while the key is live the last key of every    *)
(* layer is the one the index stands at, and of the lowest layer the one   *)
(* before it.                                                              *)
(***************************************************************************)
KeysInv ==
  /\ sk = [idx |-> sk.idx, seed |-> sk.seed, root |-> sk.root,
           states |-> sk.states, wots_sigs |-> sk.wots_sigs]
  /\ sk.idx \in Nat
  /\ sk.seed \in {RealSeed, ZeroSeed}
  /\ ots = [i \in 0 .. Layers - 1 |-> ots[i]]
  /\ \A i \in 0 .. Layers - 1 : ots[i].key \in Int
  /\ sk.seed = RealSeed =>
       /\ sk.idx <= LastIndex
       /\ DOMAIN sk.wots_sigs = 0 .. Layers - 2
       /\ ots[0].key = sk.idx - 1
       /\ \A i \in 1 .. Layers - 1 : ots[i].key = KeyAt(sk.idx, i)

\* A fresh key: the keys above have signed the roots of the first trees.
LEMMA KeysInvInit == Init => KeysInv
<1> SUFFICES ASSUME Init
             PROVE  KeysInv
  OBVIOUS
<1>1. PICK k, g : /\ sk = KeyPair(params, g)
                  /\ ots = [i \in 0 .. Layers - 1 |->
                              IF i = 0 THEN [key |-> -1, msg |-> Junk]
                                       ELSE [key |-> 0, msg |-> sk.wots_sigs[i - 1].msg]]
  BY DEF Init
<1>2. /\ sk = [idx |-> sk.idx, seed |-> sk.seed, root |-> sk.root,
               states |-> sk.states, wots_sigs |-> sk.wots_sigs]
      /\ sk.idx = 0 /\ sk.seed = RealSeed
      /\ DOMAIN sk.wots_sigs = 0 .. Layers - 2
  BY <1>1 DEF KeyPair
<1>3. /\ ots = [i \in 0 .. Layers - 1 |-> ots[i]]
      /\ ots[0].key = -1
      /\ \A i \in 1 .. Layers - 1 : ots[i].key = 0
  <2>1. 0 \in 0 .. Layers - 1 /\ \A i \in 1 .. Layers - 1 : i \in 0 .. Layers - 1 /\ i # 0
    BY Sizes
  <2> QED
    BY <1>1, <2>1
<1>4. \A i \in 1 .. Layers - 1 : KeyAt(0, i) = 0
  <2> SUFFICES ASSUME NEW i \in 1 .. Layers - 1
               PROVE  KeyAt(0, i) = 0
    OBVIOUS
  <2>1. i \in 0 .. Layers
    BY Sizes
  <2>2. 2^(i * TreeHeight) \in Nat \ {0}
    BY <2>1, Powers
  <2> QED
    BY <2>2 DEF KeyAt, Shr
<1>5. \A i \in 0 .. Layers - 1 : ots[i].key \in Int
  <2>1. \A i \in 0 .. Layers - 1 : i = 0 \/ i \in 1 .. Layers - 1
    BY Sizes
  <2>2. ots[0].key = -1 /\ \A i \in 1 .. Layers - 1 : ots[i].key = 0
    BY <1>3
  <2> QED
    BY <2>1, <2>2
<1>6. /\ sk.idx <= LastIndex
      /\ ots[0].key = sk.idx - 1
      /\ \A i \in 1 .. Layers - 1 : ots[i].key = KeyAt(sk.idx, i)
  <2>1. 0 <= LastIndex
    BY LeavesNat
  <2> QED
    BY <1>2, <1>3, <1>4, <2>1
<1>7. sk.idx \in Nat
  BY <1>2
<1> QED
  BY <1>2, <1>3, <1>5, <1>6, <1>7 DEF KeysInv

\* A key written after a call is one, with the seeds of the key in memory.
LEMMA WrittenIs ==
  ASSUME NEW key,
         key = [idx |-> key.idx, seed |-> key.seed, root |-> key.root,
                states |-> key.states, wots_sigs |-> key.wots_sigs]
  PROVE  Written(key) = [idx |-> (key.idx + 1) % IndexSpace, seed |-> key.seed,
                         root |-> key.root, states |-> Written(key).states,
                         wots_sigs |-> Advanced(key).wots_sigs]
<1> DEFINE states == [i \in DOMAIN key.states |-> Serialized(Advanced(key).states[i])]
           next   == (key.idx + 1) % IndexSpace
           sigs   == Advanced(key).wots_sigs
<1>1. Written(key) = [[[key EXCEPT !.idx = next] EXCEPT !.states = states]
                        EXCEPT !.wots_sigs = sigs]
  BY DEF Written
<1> HIDE DEF states, next, sigs
<1>2. Written(key) = [idx |-> next, seed |-> key.seed, root |-> key.root,
                      states |-> states, wots_sigs |-> sigs]
  BY <1>1
<1> QED
  BY <1>2 DEF next, sigs

\* So is a wiped one, without its seeds.
LEMMA WipedIs ==
  ASSUME KeysInv
  PROVE  WipedKey(sk) = [idx |-> sk.idx, seed |-> ZeroSeed, root |-> ZeroNode,
                         states |-> WipedKey(sk).states,
                         wots_sigs |-> WipedKey(sk).wots_sigs]
<1> DEFINE states == [i \in DOMAIN sk.states |-> Wiped(sk.states[i])]
           sigs   == [i \in DOMAIN sk.wots_sigs |-> ZeroSig]
<1>1. sk = [idx |-> sk.idx, seed |-> sk.seed, root |-> sk.root,
            states |-> sk.states, wots_sigs |-> sk.wots_sigs]
  BY DEF KeysInv
<1>2. WipedKey(sk) = [[[[sk EXCEPT !.seed = ZeroSeed] EXCEPT !.root = ZeroNode]
                         EXCEPT !.states = states] EXCEPT !.wots_sigs = sigs]
  BY <1>1 DEF WipedKey
<1> HIDE DEF states, sigs
<1> QED
  BY <1>1, <1>2

\* What Sign does to the fields that the invariant speaks of.
LEMMA SignNext ==
  ASSUME KeysInv, Sign
  PROVE  /\ sk' = [idx |-> sk.idx + 1, seed |-> sk.seed, root |-> sk.root,
                   states |-> sk'.states, wots_sigs |-> sk'.wots_sigs]
         /\ sk'.wots_sigs = Advanced(sk).wots_sigs
         /\ sk.idx \in Nat /\ sk.idx + 1 <= LastIndex
<1>1. sk.idx \in Nat /\ sk.idx < LastIndex
  BY DEF KeysInv, Sign
<1>2. (sk.idx + 1) % IndexSpace = sk.idx + 1
  BY <1>1, LeavesNat
<1>3. sk' = [idx |-> (sk.idx + 1) % IndexSpace, seed |-> sk.seed, root |-> sk.root,
             states |-> sk'.states, wots_sigs |-> Advanced(sk).wots_sigs]
  <2>1. sk' = Written(sk)
    BY DEF Sign
  <2>2. sk = [idx |-> sk.idx, seed |-> sk.seed, root |-> sk.root,
              states |-> sk.states, wots_sigs |-> sk.wots_sigs]
    BY DEF KeysInv
  <2> QED
    BY <2>1, <2>2, WrittenIs
<1> QED
  BY <1>1, <1>2, <1>3, LeavesNat

(***************************************************************************)
(* What Sign does to the history of a live key: in every layer the last    *)
(* key used is then the one that the next index stands at, and where that  *)
(* is the key from before the entry is the old one.                        *)
(***************************************************************************)
LEMMA SignUses ==
  ASSUME KeysInv, Sign, sk.seed = RealSeed
  PROVE  /\ ots' = [i \in 0 .. Layers - 1 |-> ots'[i]]
         /\ ots'[0].key = sk.idx
         /\ \A i \in 1 .. Layers - 1 :
              /\ ots'[i].key = KeyAt(sk.idx + 1, i) /\ ots'[i].key \in Nat
              /\ \/ ots'[i] = ots[i]
                 \/ ots'[i].key = ots[i].key + 1
<1>1. ots' = Used(sk, sk')
  BY DEF Sign
<1>2. sk'.wots_sigs = Advanced(sk).wots_sigs /\ sk.idx \in Nat /\ sk.idx < LastIndex
  BY SignNext, LeavesNat DEF Sign
<1>3. ots' = [i \in 0 .. Layers - 1 |-> ots'[i]]
  BY <1>1 DEF Used
<1>4. ots'[0].key = sk.idx
  <2>1. 0 \in 0 .. Layers - 1
    BY Sizes
  <2> QED
    BY <1>1, <2>1 DEF Used
<1>5. ASSUME NEW i \in 1 .. Layers - 1
      PROVE  /\ ots'[i].key = KeyAt(sk.idx + 1, i) /\ ots'[i].key \in Nat
             /\ \/ ots'[i] = ots[i]
                \/ ots'[i].key = ots[i].key + 1
  <2>1. i - 1 \in 0 .. Layers - 2 /\ i \in 0 .. Layers - 1 /\ i # 0 /\ (i - 1) + 1 = i
    BY Sizes
  <2>2. ots[i].key = KeyAt(sk.idx, i)
    BY DEF KeysInv
  <2>3. /\ KeyAt(sk.idx, (i - 1) + 1) \in Nat
        /\ KeyAt(sk.idx + 1, (i - 1) + 1) =
             IF AtTreeEnd(sk.idx, i - 1) THEN KeyAt(sk.idx, (i - 1) + 1) + 1
             ELSE KeyAt(sk.idx, (i - 1) + 1)
    BY <1>2, <2>1, KeyAtNext
  <2>4. CASE AtTreeEnd(sk.idx, i - 1)
    <3> DEFINE sig == sk'.wots_sigs[i - 1]
    <3>1. ots'[i] = [key |-> sig.tree * 2^TreeHeight + sig.leaf, msg |-> sig.msg]
      BY <1>1, <2>1, <2>4 DEF Used
    <3>2. sig.tree * 2^TreeHeight + sig.leaf = KeyAt(sk.idx + 1, (i - 1) + 1)
      <4>1. DOMAIN sk.wots_sigs = 0 .. Layers - 2
        BY DEF KeysInv
      <4> QED
        BY <1>2, <2>1, <2>4, <4>1, StoredByNext
    <3> HIDE DEF sig
    <3> QED
      BY <2>1, <2>2, <2>3, <2>4, <3>1, <3>2
  <2>5. CASE ~ AtTreeEnd(sk.idx, i - 1)
    <3>1. ots'[i] = ots[i]
      BY <1>1, <2>1, <2>5 DEF Used
    <3> QED
      BY <2>1, <2>2, <2>3, <2>5, <3>1
  <2> QED
    BY <2>4, <2>5
<1> QED
  BY <1>3, <1>4, <1>5

\* A call with a wiped key, the one that wipes it included, uses no key.
LEMMA DeadUses ==
  ASSUME KeysInv, NEW key, key.seed # RealSeed, NEW written
  PROVE  Used(key, written) = ots
<1>1. ots = [i \in 0 .. Layers - 1 |-> ots[i]]
  BY DEF KeysInv
<1>2. Used(key, written) = [i \in 0 .. Layers - 1 |-> ots[i]]
  BY DEF Used
<1> QED
  BY <1>1, <1>2

\* SignLast and Refuse leave a key without seeds.
LEMMA DeadNext ==
  ASSUME KeysInv, SignLast \/ Refuse
  PROVE  /\ sk' = [idx |-> sk'.idx, seed |-> ZeroSeed, root |-> ZeroNode,
                   states |-> sk'.states, wots_sigs |-> sk'.wots_sigs]
         /\ SignLast => sk'.idx = Leaves % IndexSpace /\ sk.idx = Leaves - 1
         /\ Refuse => sk'.idx = IndexSpace - 1
         /\ sk'.idx \in Nat
         /\ ots' = ots
<1> DEFINE key == WipedKey(sk)
<1>1. key = [idx |-> sk.idx, seed |-> ZeroSeed, root |-> ZeroNode,
             states |-> key.states, wots_sigs |-> key.wots_sigs]
  BY WipedIs
<1>2. Leaves \in Nat \ {0} /\ LastIndex = Leaves - 1 /\ IndexSpace \in Nat \ {0}
  BY LeavesNat
<1>3. CASE SignLast
  <2>1. sk' = Written(key) /\ ots' = Used(key, sk') /\ sk.idx = Leaves - 1
    BY <1>2, <1>3 DEF SignLast
  <2> HIDE DEF key
  <2>2. /\ key = [idx |-> key.idx, seed |-> key.seed, root |-> key.root,
                  states |-> key.states, wots_sigs |-> key.wots_sigs]
        /\ key.idx = sk.idx /\ key.seed = ZeroSeed /\ key.root = ZeroNode
    BY <1>1
  <2>3. sk' = [idx |-> (sk.idx + 1) % IndexSpace, seed |-> ZeroSeed, root |-> ZeroNode,
               states |-> sk'.states, wots_sigs |-> Advanced(key).wots_sigs]
    BY <2>1, <2>2, WrittenIs
  <2>4. (sk.idx + 1) % IndexSpace = Leaves % IndexSpace /\ Leaves % IndexSpace \in Nat
    <3>1. sk.idx + 1 = Leaves
      BY <1>2, <2>1
    <3> QED
      BY <1>2, <3>1
  <2>5. ots' = ots
    <3>1. key.seed # RealSeed
      BY <2>2 DEF RealSeed, ZeroSeed
    <3> QED
      BY <2>1, <3>1, DeadUses
  <2>6. ~ Refuse
    BY <1>2, <2>1 DEF Refuse
  <2> QED
    BY <2>1, <2>3, <2>4, <2>5, <2>6
<1>4. CASE Refuse
  <2> DEFINE states == [i \in DOMAIN key.states |-> Erased(key.states[i])]
             max    == IndexSpace - 1
             sigs   == key.wots_sigs
             sts    == key.states
  <2>1. ots' = ots /\ sk' = [[key EXCEPT !.idx = max] EXCEPT !.states = states]
    BY <1>1, <1>4 DEF Refuse
  <2> HIDE DEF states, key, max, sigs, sts
  <2>2. sk' = [idx |-> max, seed |-> ZeroSeed, root |-> ZeroNode,
               states |-> states, wots_sigs |-> sigs]
    <3>1. key = [idx |-> sk.idx, seed |-> ZeroSeed, root |-> ZeroNode,
                 states |-> sts, wots_sigs |-> sigs]
      BY <1>1 DEF sts, sigs
    <3> QED
      BY <2>1, <3>1
  <2>3. ~ SignLast
    BY <1>2, <1>4 DEF Refuse, SignLast, KeysInv
  <2>4. max \in Nat /\ max = IndexSpace - 1
    BY <1>2 DEF max
  <2>5. /\ sk' = [idx |-> sk'.idx, seed |-> ZeroSeed, root |-> ZeroNode,
                  states |-> sk'.states, wots_sigs |-> sk'.wots_sigs]
        /\ sk'.idx = max
    BY <2>2
  <2> QED
    BY <2>1, <2>3, <2>4, <2>5
<1> QED
  BY <1>3, <1>4

\* The steps.
LEMMA KeysInvNext == KeysInv /\ [Next]_vars => KeysInv'
<1> SUFFICES ASSUME KeysInv, [Next]_vars
             PROVE  KeysInv'
  OBVIOUS
<1>1. CASE Sign
  <2>1. /\ sk' = [idx |-> sk.idx + 1, seed |-> sk.seed, root |-> sk.root,
                  states |-> sk'.states, wots_sigs |-> sk'.wots_sigs]
        /\ sk'.wots_sigs = Advanced(sk).wots_sigs
        /\ sk.idx \in Nat /\ sk.idx + 1 <= LastIndex
    BY <1>1, SignNext
  <2>2. CASE sk.seed = RealSeed
    <3>1. /\ ots' = [i \in 0 .. Layers - 1 |-> ots'[i]]
          /\ ots'[0].key = sk.idx
          /\ \A i \in 1 .. Layers - 1 :
               ots'[i].key = KeyAt(sk.idx + 1, i) /\ ots'[i].key \in Nat
      BY <1>1, <2>2, SignUses
    <3>2. \A i \in 0 .. Layers - 1 : ots'[i].key \in Int
      <4>1. \A i \in 0 .. Layers - 1 : i = 0 \/ i \in 1 .. Layers - 1
        BY Sizes
      <4> QED
        BY <2>1, <3>1, <4>1
    <3>3. DOMAIN sk'.wots_sigs = 0 .. Layers - 2
      <4>1. DOMAIN sk.wots_sigs = 0 .. Layers - 2 /\ sk.idx < LastIndex
        BY <1>1, <2>2 DEF KeysInv, Sign
      <4> QED
        BY <2>1, <4>1, StoredByNext
    <3>4. sk'.idx = sk.idx + 1 /\ sk'.seed = RealSeed
      BY <2>1, <2>2
    <3>5. \A i \in 1 .. Layers - 1 : ots'[i].key = KeyAt(sk'.idx, i)
      BY <3>1, <3>4
    <3> QED
      BY <2>1, <3>1, <3>2, <3>3, <3>4, <3>5 DEF KeysInv
  <2>3. CASE sk.seed # RealSeed
    <3>1. ots' = ots
      BY <1>1, <2>3, DeadUses DEF Sign
    <3>2. sk'.seed = ZeroSeed /\ sk'.idx = sk.idx + 1 /\ sk'.root = sk.root
      BY <2>1, <2>3 DEF KeysInv
    <3> QED
      BY <2>1, <3>1, <3>2 DEF KeysInv, RealSeed, ZeroSeed
  <2> QED
    BY <2>2, <2>3
<1>2. CASE SignLast \/ Refuse
  <2>1. /\ sk' = [idx |-> sk'.idx, seed |-> ZeroSeed, root |-> ZeroNode,
                  states |-> sk'.states, wots_sigs |-> sk'.wots_sigs]
        /\ sk'.idx \in Nat /\ ots' = ots
    BY <1>2, DeadNext
  <2>2. sk'.seed = ZeroSeed /\ sk'.root = ZeroNode
    BY <2>1
  <2> QED
    BY <2>1, <2>2 DEF KeysInv, RealSeed, ZeroSeed
<1>3. CASE UNCHANGED vars
  BY <1>3 DEF vars, KeysInv
<1> QED
  BY <1>1, <1>2, <1>3 DEF Next

\* KeysInv is an invariant.
THEOREM KeysInvHolds == Spec => []KeysInv
  BY KeysInvInit, KeysInvNext, PTL DEF Spec

(***************************************************************************)
(* One step of the property: a layer's entry is kept, or is a later key's. *)
(***************************************************************************)
LEMMA KeysMoveOn ==
  ASSUME KeysInv, Next
  PROVE  \A i \in 0 .. Layers - 1 :
           /\ ots'[i].key >= ots[i].key
           /\ ots'[i].key = ots[i].key => ots'[i].msg = ots[i].msg
<1>1. \A i \in 0 .. Layers - 1 : ots[i].key \in Int
  BY DEF KeysInv
<1>2. CASE ots' = ots
  BY <1>1, <1>2
<1>3. CASE Sign /\ sk.seed = RealSeed
  <2>1. /\ ots'[0].key = sk.idx
        /\ \A i \in 1 .. Layers - 1 : ots'[i] = ots[i] \/ ots'[i].key = ots[i].key + 1
    BY <1>3, SignUses
  <2>2. ots[0].key = sk.idx - 1 /\ sk.idx \in Nat
    BY <1>3 DEF KeysInv
  <2> SUFFICES ASSUME NEW i \in 0 .. Layers - 1
               PROVE  /\ ots'[i].key >= ots[i].key
                      /\ ots'[i].key = ots[i].key => ots'[i].msg = ots[i].msg
    OBVIOUS
  <2>3. CASE i = 0
    BY <2>1, <2>2, <2>3
  <2>4. CASE i # 0
    <3>1. i \in 1 .. Layers - 1 /\ ots[i].key \in Int
      BY <1>1, <2>4, Sizes
    <3> QED
      BY <2>1, <3>1
  <2> QED
    BY <2>3, <2>4
<1>4. CASE Sign /\ sk.seed # RealSeed
  <2>1. ots' = ots
    BY <1>4, DeadUses DEF Sign
  <2> QED
    BY <1>2, <2>1
<1>5. CASE SignLast \/ Refuse
  <2>1. ots' = ots
    BY <1>5, DeadNext
  <2> QED
    BY <1>2, <2>1
<1> QED
  BY <1>3, <1>4, <1>5 DEF Next

(***************************************************************************)
(* No one-time key of any layer signs two messages, over the whole life of *)
(* a key and beyond, for every height, number of layers and bds_k.         *)
(***************************************************************************)
THEOREM OneMessagePerKeyHolds == Spec => OneMessagePerKey
<1> DEFINE Step == \A i \in 0 .. Layers - 1 :
                     /\ ots'[i].key >= ots[i].key
                     /\ ots'[i].key = ots[i].key => ots'[i].msg = ots[i].msg
<1>1. KeysInv /\ [Next]_vars => [Step]_vars
  BY KeysMoveOn
<1> QED
  BY <1>1, KeysInvHolds, PTL DEF Spec, OneMessagePerKey

-----------------------------------------------------------------------------

\* The index field can hold a value that is no one-time key's index.
SpareIndex == IndexSpace > Leaves

\* Then a wiped key shows in its index, and never signs again.
RefinementInv == KeysInv /\ (sk.seed = ZeroSeed => sk.idx > LastIndex)

\* The steps.
LEMMA RefinementInvNext ==
  ASSUME SpareIndex, RefinementInv, [Next]_vars
  PROVE  RefinementInv'
<1>1. KeysInv /\ KeysInv'
  BY KeysInvNext DEF RefinementInv
<1> SUFFICES ASSUME sk'.seed = ZeroSeed
             PROVE  sk'.idx > LastIndex
  BY <1>1 DEF RefinementInv
<1>2. Leaves \in Nat \ {0} /\ LastIndex = Leaves - 1 /\ IndexSpace \in Nat /\ IndexSpace > Leaves
  BY LeavesNat DEF SpareIndex
<1>3. CASE Sign
  <2>1. sk'.seed = sk.seed /\ sk.idx < LastIndex /\ sk.idx \in Nat
    <3>1. sk' = [idx |-> sk.idx + 1, seed |-> sk.seed, root |-> sk.root,
                 states |-> sk'.states, wots_sigs |-> sk'.wots_sigs]
      BY <1>1, <1>3, SignNext
    <3>2. sk'.seed = sk.seed
      BY <3>1
    <3> QED
      BY <1>1, <1>3, <3>2 DEF KeysInv, Sign
  <2> QED
    BY <1>2, <2>1 DEF RefinementInv
<1>4. CASE SignLast
  <2>1. sk'.idx = Leaves % IndexSpace
    BY <1>1, <1>4, DeadNext
  <2> QED
    BY <1>2, <2>1
<1>5. CASE Refuse
  <2>1. sk'.idx = IndexSpace - 1
    BY <1>1, <1>5, DeadNext
  <2> QED
    BY <1>2, <2>1
<1>6. CASE UNCHANGED vars
  BY <1>6 DEF vars, RefinementInv
<1> QED
  BY <1>3, <1>4, <1>5, <1>6 DEF Next

\* A fresh key maps to a fresh signer.
LEMMA PromiseInit == Init => Promise!Init
<1> SUFFICES ASSUME Init
             PROVE  Promise!Init
  OBVIOUS
<1>1. sk.idx = 0 /\ sk.seed = RealSeed /\ out.ret = "none"
  BY DEF Init, KeyPair
<1> QED
  BY <1>1 DEF Promise!Init, Promise!NoKey

\* The lowest layer's signature is by the key in memory.
LEMMA SeedOfSignature ==
  ASSUME NEW key
  PROVE  /\ Signature(key).layers[0].sig.seed = key.seed
         /\ Signature(key).idx = key.idx
<1>1. 0 \in 0 .. Layers - 1
  BY Sizes
<1> DEFINE lowest == wots_sign(hash_message(key.root, key.idx), key.seed,
                               AddrAt(key.idx, 0), LeafAt(key.idx, 0))
<1>2. Signature(key).layers[0].sig = lowest /\ Signature(key).idx = key.idx
  BY <1>1 DEF Signature
<1>3. lowest.seed = key.seed
  BY DEF wots_sign
<1> QED
  BY <1>2, <1>3

\* Every step is one the promise allows.
LEMMA PromiseNext ==
  ASSUME SpareIndex, RefinementInv, [Next]_vars
  PROVE  [Promise!Next]_(Promise!vars)
<1> DEFINE next(s) == IF s.seed = RealSeed THEN s.idx ELSE Leaves
           key(o)  == IF o.ret = "ok" /\ o.sm.layers[0].sig.seed = RealSeed
                      THEN o.sm.idx ELSE Leaves
<1>1. sk.idx \in Nat /\ sk.seed \in {RealSeed, ZeroSeed} /\ KeysInv
  BY DEF RefinementInv, KeysInv
<1>2. CASE Sign
  <2>1. sk.seed = RealSeed /\ sk.idx < Leaves - 1
    BY <1>1, <1>2, LeavesNat DEF RefinementInv, Sign
  <2>2. sk'.seed = RealSeed /\ sk'.idx = sk.idx + 1
    <3>1. sk' = [idx |-> sk.idx + 1, seed |-> sk.seed, root |-> sk.root,
                 states |-> sk'.states, wots_sigs |-> sk'.wots_sigs]
      BY <1>1, <1>2, SignNext
    <3> QED
      BY <2>1, <3>1
  <2>3. out' = [ret |-> "ok", sm |-> Signature(sk)]
    BY <1>2 DEF Sign
  <2>4. key(out') = sk.idx /\ out'.ret = "ok"
    BY <2>1, <2>3, SeedOfSignature
  <2>5. Promise!Sign
    BY <2>1, <2>2, <2>4 DEF Promise!Sign
  <2> QED
    BY <2>5 DEF Promise!Next
<1>3. CASE SignLast
  <2>1. sk.seed = RealSeed /\ sk.idx = Leaves - 1
    BY <1>1, <1>3, LeavesNat DEF RefinementInv, SignLast
  <2>2. sk'.seed = ZeroSeed /\ out' = [ret |-> "ok", sm |-> Signature(WipedKey(sk))]
    <3>1. sk' = [idx |-> sk'.idx, seed |-> ZeroSeed, root |-> ZeroNode,
                 states |-> sk'.states, wots_sigs |-> sk'.wots_sigs]
      BY <1>1, <1>3, DeadNext
    <3> QED
      BY <1>3, <3>1 DEF SignLast
  <2>3. key(out') = Leaves /\ out'.ret = "ok"
    <3>1. WipedKey(sk).seed = ZeroSeed
      BY <1>1, WipedIs
    <3>2. Signature(WipedKey(sk)).layers[0].sig.seed = ZeroSeed
      BY <3>1, SeedOfSignature
    <3> QED
      BY <2>2, <3>2 DEF RealSeed, ZeroSeed
  <2>4. next(sk') = Leaves
    BY <2>2 DEF RealSeed, ZeroSeed
  <2>5. Promise!SignLast
    BY <2>1, <2>3, <2>4 DEF Promise!SignLast, Promise!NoKey
  <2> QED
    BY <2>5 DEF Promise!Next
<1>4. CASE Refuse
  <2>1. sk.seed = ZeroSeed
    BY <1>1, <1>4, LeavesNat DEF KeysInv, Refuse
  <2>2. sk'.seed = ZeroSeed /\ out'.ret = "spent"
    <3>1. sk' = [idx |-> sk'.idx, seed |-> ZeroSeed, root |-> ZeroNode,
                 states |-> sk'.states, wots_sigs |-> sk'.wots_sigs]
      BY <1>1, <1>4, DeadNext
    <3> QED
      BY <1>4, <3>1 DEF Refuse
  <2>3. next(sk) = Leaves /\ next(sk') = Leaves /\ key(out') = Leaves
    BY <2>1, <2>2 DEF RealSeed, ZeroSeed
  <2>4. Promise!Refuse
    BY <2>2, <2>3 DEF Promise!Refuse, Promise!NoKey
  <2> QED
    BY <2>4 DEF Promise!Next
<1>5. CASE UNCHANGED vars
  BY <1>5 DEF vars, Promise!vars
<1> QED
  BY <1>2, <1>3, <1>4, <1>5 DEF Next

(***************************************************************************)
(* If the index field has a spare value the hypertree keeps the promise of *)
(* a signer: the one-time keys of its lowest layer in order, none twice,   *)
(* then refusals for good.                                                 *)
(***************************************************************************)
THEOREM ImplementsSignerHolds == SpareIndex /\ Spec => ImplementsSigner
<1>1. Init => RefinementInv
  <2>1. Init => sk.seed = RealSeed
    BY DEF Init, KeyPair
  <2> QED
    BY <2>1, KeysInvInit DEF RefinementInv, RealSeed, ZeroSeed
<1>2. CASE SpareIndex
  <2>1. RefinementInv /\ [Next]_vars => RefinementInv' /\ [Promise!Next]_(Promise!vars)
    BY <1>2, RefinementInvNext, PromiseNext
  <2> QED
    BY <1>1, <2>1, PromiseInit, PTL DEF Spec, ImplementsSigner, Promise!Spec
<1>3. CASE ~ SpareIndex
  BY <1>3
<1> QED
  BY <1>2, <1>3
-----------------------------------------------------------------------------

(***************************************************************************)
(* Only the starving layer's count matters.  The two counts are compared   *)
(* while there is a tree to come; the last tree of a layer has no NEXT.    *)
(***************************************************************************)
BudgetInv == Spending!TypeOK /\ Spending!NoFasterThanUsed

TreeSizes == 2^TreeHeight \in Nat /\ 2^TreeHeight >= 2 /\ Layers \in Nat /\ Layers >= 2

\* They are so by the assumptions on the constants.
LEMMA TreeSizesHold == TreeSizes
<1>1. TreeHeight \in 0 .. TreeHeight * Layers /\ TreeHeight \in Nat \ {0}
  <2>1. 1 \in 0 .. Layers /\ 1 * TreeHeight = TreeHeight
    BY Sizes
  <2>2. 1 * TreeHeight \in 0 .. TreeHeight * Layers
    BY <2>1, Sizes
  <2> QED
    BY <2>1, <2>2, Sizes
<1>2. 2^0 < 2^TreeHeight
  <2> DEFINE m == TreeHeight * Layers
  <2>1. \A i \in 0 .. m : 2^(i + 1) = 2 * 2^i
    BY PowersAssumption DEF PowersOfTwo
  <2>2. m \in Nat /\ TreeHeight <= m + 1
    BY <1>1, Sizes
  <2> HIDE DEF m
  <2> QED
    BY <1>1, <2>1, <2>2, Rules!PowLess
<1> QED
  BY <1>2, Powers, Sizes DEF TreeSizes

\* The counts stay in their ranges.
LEMMA BudgetTypeNext ==
  ASSUME TreeSizes, Spending!TypeOK, [Spending!Call]_(Spending!vars)
  PROVE  Spending!TypeOK'
<1>1. CASE UNCHANGED (Spending!vars)
  BY <1>1 DEF Spending!vars, Spending!TypeOK
<1>2. CASE Spending!Call
  <2>1. LeavesUsed' \in [Spending!Layer -> 0 .. 2^TreeHeight - 1]
    BY <1>2 DEF Spending!Call, Spending!TypeOK, TreeSizes
  <2> QED
    BY <1>2, <2>1 DEF Spending!Call, Spending!TypeOK
<1> QED
  BY <1>1, <1>2

(***************************************************************************)
(* The turn of a layer between the lowest and the top, in the four cases   *)
(* the argument needs: a tree that ends takes one, a tree that goes on     *)
(* leaves one less than it found, if it found any, and nothing of nothing; *)
(* and a NEXT tree that found nothing gets nothing.                        *)
(***************************************************************************)
LEMMA TurnCounts ==
  ASSUME NEW i \in Spending!Lower, i > 0, NEW u \in Nat, NEW v, NEW n,
         Spending!Turn(i, u, v, n)
  PROVE  /\ Spending!Ended(i) => v = u - 1 /\ n = 0
         /\ ~ Spending!Ended(i) /\ Spending!HasNext(i) =>
              /\ v \in Nat
              /\ u > 0 => v <= u - 1
              /\ u = 0 => v = 0 /\ n = LeavesReady[i]
  BY DEF Spending!Turn, Spending!OneLess, Spending!Remainders, Spending!Endless

\* What layer 0 leaves: all but one when its tree ends, else at most all.
LEMMA TurnLowest ==
  ASSUME 0 \in Spending!Lower, NEW u \in Nat, NEW v, NEW n, Spending!Turn(0, u, v, n)
  PROVE  /\ Spending!Ended(0) => v = u - 1
         /\ ~ Spending!Ended(0) => v \in 0 .. u
  BY DEF Spending!Turn, Spending!OneLess, Spending!Remainders, Spending!Endless

\* Trees end from below, and a tree to come above is one to come below.
LEMMA Nested ==
  ASSUME TreeSizes, NEW i \in Spending!Layer, NEW k \in 0 .. i
  PROVE  /\ Spending!Ended(i) => Spending!Ended(k)
         /\ Spending!HasNext(i) => Spending!HasNext(k)
  BY DEF Spending!Ended, Spending!HasNext, Spending!Layer, TreeSizes

(***************************************************************************)
(* With nothing swapped just below, the starving layer finds no update, so *)
(* its NEXT tree stays as it is.                                           *)
(***************************************************************************)
LEMMA NothingLeft ==
  ASSUME TreeSizes, Spending!TypeOK, Spending!GivesOut, Spending!Call,
         Spending!HasNext(Spending!Starving), ~ Spending!Ended(Spending!Starving - 1)
  PROVE  LeavesReady'[Spending!Starving] = LeavesReady[Spending!Starving]
<1>1. PICK left \in [Spending!Layer -> Spending!Endless .. UpdatesPerCall] :
        /\ left[0] = UpdatesPerCall
        /\ \A i \in Spending!Lower : Spending!Turn(i, left[i], left[i + 1], LeavesReady'[i])
  BY DEF Spending!Call
<1>2. /\ UpdatesPerCall \in {1, 2}
      /\ \A i \in 0 .. Spending!Starving : i \in Spending!Lower /\ i \in Spending!Layer
  BY DEF Spending!GivesOut, Spending!Starving, Spending!Lower, Spending!Layer, TreeSizes
<1>3. \A i \in 0 .. Spending!Starving : Spending!HasNext(i)
  BY <1>2, Nested DEF Spending!Starving
<1>4. ~ Spending!Ended(Spending!Starving)
  BY <1>2, Nested DEF Spending!Starving
<1>5. \A i \in 0 .. Spending!Starving - 1 :
        Spending!Ended(i) => \A k \in 0 .. i : Spending!Ended(k)
  BY <1>2, Nested DEF Spending!Starving
<1>6. Spending!Turn(0, UpdatesPerCall, left[1], LeavesReady'[0])
  BY <1>1, <1>2 DEF Spending!Starving
<1>7. /\ left[1] \in Nat /\ left[1] <= UpdatesPerCall
      /\ Spending!Ended(0) => left[1] = UpdatesPerCall - 1
  BY <1>2, <1>6, TurnLowest DEF Spending!Starving
<1>8. Spending!Turn(1, left[1], left[2], LeavesReady'[1])
  BY <1>1, <1>2 DEF Spending!Starving
<1>9. CASE UpdatesPerCall = 1
  <2>1. ~ Spending!Ended(1)
    BY <1>9 DEF Spending!Starving
  <2>2. left[2] = 0
    BY <1>2, <1>3, <1>7, <1>8, <1>9, <2>1, TurnCounts DEF Spending!Starving
  <2>3. Spending!Turn(2, 0, left[3], LeavesReady'[2])
    BY <1>1, <1>2, <1>9, <2>2 DEF Spending!Starving
  <2> QED
    BY <1>2, <1>3, <1>4, <1>9, <2>3, TurnCounts DEF Spending!Starving
<1>10. CASE UpdatesPerCall = 2
  <2>1. Spending!Turn(2, left[2], left[3], LeavesReady'[2])
    BY <1>1, <1>2, <1>10 DEF Spending!Starving
  <2>2. ~ Spending!Ended(2)
    BY <1>10 DEF Spending!Starving
  <2>3. left[2] \in {0, 1}
    <3>1. CASE Spending!Ended(1)
      BY <1>2, <1>5, <1>7, <1>8, <1>10, <3>1, TurnCounts DEF Spending!Starving
    <3>2. CASE ~ Spending!Ended(1)
      BY <1>2, <1>3, <1>7, <1>8, <1>10, <3>2, TurnCounts DEF Spending!Starving
    <3> QED
      BY <3>1, <3>2
  <2>4. left[3] = 0
    BY <1>2, <1>3, <1>10, <2>1, <2>2, <2>3, TurnCounts DEF Spending!Starving
  <2>5. Spending!Turn(3, 0, left[4], LeavesReady'[3])
    BY <1>1, <1>2, <1>10, <2>4 DEF Spending!Starving
  <2> QED
    BY <1>2, <1>3, <1>4, <1>10, <2>5, TurnCounts DEF Spending!Starving
<1> QED
  BY <1>2, <1>9, <1>10

LEMMA BudgetInvInit == TreeSizes /\ Spending!Init => BudgetInv
  BY DEF TreeSizes, BudgetInv, Spending!Init, Spending!TypeOK, Spending!NoFasterThanUsed,
         Spending!Starving, Spending!GivesOut, Spending!Layer, Spending!Lower

(***************************************************************************)
(* One step: where all below was swapped, both counts go up by at most     *)
(* and exactly one; where it was not, neither moves; and the count of a    *)
(* tree that was just swapped out is zero.                                 *)
(***************************************************************************)
LEMMA NoFasterThanUsedNext ==
  ASSUME TreeSizes, BudgetInv, [Spending!Call]_(Spending!vars)
  PROVE  Spending!NoFasterThanUsed'
<1> DEFINE s == Spending!Starving
<1>1. CASE UNCHANGED (Spending!vars)
  BY <1>1 DEF BudgetInv, Spending!vars, Spending!NoFasterThanUsed, Spending!GivesOut,
              Spending!HasNext, Spending!Starving
<1>2. CASE Spending!Call
  <2> SUFFICES ASSUME Spending!GivesOut', Spending!HasNext(s)'
               PROVE  LeavesReady'[s] <= LeavesUsed'[s]
    BY <1>2 DEF Spending!NoFasterThanUsed, Spending!Starving, Spending!Call
  <2>1. Spending!TypeOK /\ Spending!TypeOK'
    BY BudgetTypeNext DEF BudgetInv
  <2>2. /\ Spending!GivesOut /\ s' = s /\ s > 0 /\ s \in Nat
        /\ s \in Spending!Lower /\ s \in Spending!Layer /\ s - 1 \in Spending!Layer
    BY <1>2 DEF Spending!GivesOut, Spending!Starving, Spending!Call, Spending!Lower,
                Spending!Layer, TreeSizes
  <2>3. /\ LeavesUsed[s] \in 0 .. 2^TreeHeight - 1
        /\ LeavesUsed'[s] \in 0 .. 2^TreeHeight - 1 /\ 2^TreeHeight \in Nat
    BY <2>1, <2>2 DEF Spending!TypeOK, TreeSizes
  <2>4. PICK u, v : Spending!Turn(s, u, v, LeavesReady'[s])
    BY <1>2, <2>2 DEF Spending!Call
  <2>5. CASE Spending!Ended(s)
    <3>1. LeavesReady'[s] = 0
      BY <2>4, <2>5 DEF Spending!Turn
    <3> QED
      BY <2>3, <3>1
  <2>6. CASE ~ Spending!Ended(s)
    <3>1. Spending!HasNext(s)
      <4>1. \A k \in s + 1 .. Layers - 1 :
              /\ k > 0 /\ s \in 0 .. k - 1
              /\ k \in Spending!Layer /\ k - 1 \in Spending!Layer
        BY <2>2 DEF Spending!Layer, TreeSizes
      <4>2. \A k \in s + 1 .. Layers - 1 : ~ Spending!Ended(k - 1)
        BY <2>6, <4>1, Nested
      <4>3. \A k \in s + 1 .. Layers - 1 : LeavesUsed'[k] = LeavesUsed[k]
        BY <1>2, <4>1, <4>2 DEF Spending!Call
      <4> QED
        BY <2>2, <4>3 DEF Spending!HasNext
    <3>2. LeavesReady[s] <= LeavesUsed[s]
      BY <2>2, <3>1 DEF BudgetInv, Spending!NoFasterThanUsed
    <3>3. CASE Spending!Ended(s - 1)
      <4>1. LeavesUsed[s] # 2^TreeHeight - 1
        BY <2>2, <2>6, <3>3 DEF Spending!Ended
      <4>2. LeavesUsed'[s] = LeavesUsed[s] + 1
        BY <1>2, <2>2, <3>3, <4>1 DEF Spending!Call
      <4>3. LeavesReady[s] \in Nat
        BY <2>1, <2>2 DEF Spending!TypeOK
      <4>4. LeavesReady'[s] \in {LeavesReady[s], LeavesReady[s] + 1}
        BY <2>2, <2>4, <2>6, <4>3 DEF Spending!Turn, Spending!Fed
      <4> QED
        BY <2>3, <3>2, <4>2, <4>3, <4>4
    <3>4. CASE ~ Spending!Ended(s - 1)
      <4>1. LeavesReady'[s] = LeavesReady[s]
        BY <1>2, <2>1, <2>2, <3>1, <3>4, NothingLeft
      <4>2. LeavesUsed'[s] = LeavesUsed[s]
        BY <1>2, <2>2, <3>4 DEF Spending!Call
      <4> QED
        BY <3>2, <4>1, <4>2
    <3> QED
      BY <3>3, <3>4
  <2> QED
    BY <2>5, <2>6
<1> QED
  BY <1>1, <1>2

(***************************************************************************)
(* For trees of any height and any number of layers: with one or two       *)
(* updates a call and a layer above those they reach, the NEXT tree of     *)
(* that layer never is ahead of the tree in use.                           *)
(***************************************************************************)
THEOREM NoFasterThanUsedHolds == Spending!Spec => []Spending!NoFasterThanUsed
<1>1. BudgetInv /\ [Spending!Call]_(Spending!vars) => BudgetInv'
  BY TreeSizesHold, BudgetTypeNext, NoFasterThanUsedNext DEF BudgetInv
<1>2. BudgetInv => Spending!NoFasterThanUsed
  BY DEF BudgetInv
<1>0. Spending!Init => BudgetInv
  BY TreeSizesHold, BudgetInvInit
<1> QED
  BY <1>0, <1>1, <1>2, PTL DEF Spending!Spec

(***************************************************************************)
(* So it is never complete when it is swapped in, and the layer above      *)
(* signs something else than the root of the tree: not once in a long      *)
(* life but each time.                                                     *)
(***************************************************************************)
THEOREM SwappedInUnfinishedHolds == Spending!Spec => []Spending!SwappedInUnfinished
<1>1. ASSUME TreeSizes, Spending!TypeOK, Spending!NoFasterThanUsed
      PROVE  Spending!SwappedInUnfinished
  <2> SUFFICES ASSUME Spending!GivesOut,
                      Spending!Ended(Spending!Starving), Spending!HasNext(Spending!Starving)
               PROVE  LeavesReady[Spending!Starving] < 2^TreeHeight
    BY DEF Spending!SwappedInUnfinished
  <2>1. Spending!Starving \in Spending!Lower /\ Spending!Starving \in Nat
    BY <1>1 DEF Spending!GivesOut, Spending!Starving, Spending!Lower, TreeSizes
  <2>2. LeavesUsed[Spending!Starving] = 2^TreeHeight - 1 /\ LeavesReady[Spending!Starving] \in Nat
    BY <1>1, <2>1 DEF Spending!Ended, Spending!TypeOK
  <2>3. LeavesReady[Spending!Starving] <= LeavesUsed[Spending!Starving]
    BY <1>1 DEF Spending!NoFasterThanUsed
  <2> QED
    BY <1>1, <2>2, <2>3 DEF TreeSizes
<1>2. BudgetInv /\ [Spending!Call]_(Spending!vars) => BudgetInv'
  BY TreeSizesHold, BudgetTypeNext, NoFasterThanUsedNext DEF BudgetInv
<1>3. BudgetInv => Spending!SwappedInUnfinished
  BY TreeSizesHold, <1>1 DEF BudgetInv
<1>0. Spending!Init => BudgetInv
  BY TreeSizesHold, BudgetInvInit
<1> QED
  BY <1>0, <1>2, <1>3, PTL DEF Spending!Spec
-----------------------------------------------------------------------------

(***************************************************************************)
(* The calls spend as Budget says.  First the index: a layer's tree ends   *)
(* when the leaves of all layers up to it are the last of their trees, and *)
(* a tree is to come when that of a layer above it is not.                 *)
(***************************************************************************)

\* The number of a key is its tree's, a key of the layer above, and a leaf.
LEMMA KeyDigits ==
  ASSUME NEW idx \in Nat, NEW i \in 0 .. Layers - 1
  PROVE  /\ KeyAt(idx, i) \in Nat /\ KeyAt(idx, i + 1) \in Nat
         /\ LeafAt(idx, i) \in 0 .. 2^TreeHeight - 1
         /\ KeyAt(idx, i) = KeyAt(idx, i + 1) * 2^TreeHeight + LeafAt(idx, i)
         /\ TreeAt(idx, i) = KeyAt(idx, i + 1)
         /\ LeafAt(idx, i) = KeyAt(idx, i) % 2^TreeHeight
<1> DEFINE a == 2^(i * TreeHeight)
           b == 2^TreeHeight
           y == idx \div a
<1>1. a \in Nat \ {0} /\ b \in Nat \ {0} /\ 2^((i + 1) * TreeHeight) = a * b
  <2>1. i \in 0 .. Layers
    BY Sizes
  <2> QED
    BY <2>1, Powers
<1>2. KeyAt(idx, i) = y /\ LeafAt(idx, i) = y % b /\ TreeAt(idx, i) = KeyAt(idx, i + 1)
      /\ KeyAt(idx, i + 1) = idx \div (a * b)
  BY <1>1 DEF KeyAt, LeafAt, TreeAt, Shr, Low
<1> HIDE DEF a, b
<1>3. idx \div (a * b) = y \div b
  BY <1>1, DivDiv
<1>4. y \in Nat /\ y \div b \in Nat
  <2>1. y \in Nat
    BY <1>1
  <2> HIDE DEF y
  <2> QED
    BY <1>1, <2>1
<1> HIDE DEF y
<1>5. y % b \in 0 .. b - 1 /\ y = (y \div b) * b + (y % b)
  <2>1. y \in Int
    BY <1>4
  <2> QED
    BY <1>1, <2>1, Rules!DivMod
<1> QED
  BY <1>2, <1>3, <1>4, <1>5 DEF b

\* A number is the last before a multiple of a product.
LEMMA LastBefore ==
  ASSUME NEW x \in Nat, NEW a \in Nat \ {0}, NEW b \in Nat \ {0}
  PROVE  (x + 1) % (a * b) = 0 <=> (x + 1) % a = 0 /\ (x \div a) % b = b - 1
<1>1. PICK q \in Int, r \in 0 .. a - 1 : x = q * a + r /\ q = x \div a
  <2>1. x \div a \in Int /\ x % a \in 0 .. a - 1 /\ x = (x \div a) * a + (x % a)
    BY Rules!DivMod
  <2> QED
    BY <2>1
<1>2. PICK t \in Int, s \in 0 .. b - 1 : q = t * b + s /\ s = q % b
  <2>1. q \div b \in Int /\ q % b \in 0 .. b - 1 /\ q = (q \div b) * b + (q % b)
    BY Rules!DivMod
  <2> QED
    BY <2>1
<1>3. PICK c \in Nat \ {0} : c = a * b
  OBVIOUS
<1>4. PICK d \in Int : d = t * c
  OBVIOUS
<1>5. PICK e \in Int : e = s * a
  OBVIOUS
<1>6. x = d + e + r
  <2>1. q * a = (t * b) * a + s * a
    <3>1. q = t * b + s
      BY <1>2
    <3> QED
      BY <3>1
  <2>2. (t * b) * a = t * (a * b)
    OBVIOUS
  <2> QED
    BY <1>1, <1>3, <1>4, <1>5, <2>1, <2>2
<1>7. e \in Nat /\ e <= c - a /\ (e = c - a <=> s = b - 1)
  <2>1. (b - 1 - s) * a = c - a - e
    BY <1>3, <1>4, <1>5
  <2>2. e \in Nat
    BY <1>3, <1>4, <1>5
  <2>3. b - 1 - s \in Nat
    OBVIOUS
  <2> DEFINE f == b - 1 - s
  <2>4. f * a = c - a - e /\ f \in Nat
    BY <2>1, <2>3
  <2>5. f = 0 <=> s = b - 1
    OBVIOUS
  <2> HIDE DEF f
  <2>6. f * a >= 0 /\ (f * a = 0 <=> f = 0)
    BY <2>4
  <2> QED
    BY <1>3, <1>4, <1>5, <2>2, <2>4, <2>5, <2>6
<1>8. PICK y \in Int, u \in Int, v \in Int : y = x + 1 /\ u = q + 1 /\ v = t + 1
  OBVIOUS
<1>9. y % a = 0 <=> r = a - 1
  <2>0. PICK g \in Int : g = q * a
    OBVIOUS
  <2>1. u * a = q * a + a /\ q * a \in Int
    BY <1>8
  <2>2. CASE r = a - 1
    <3>1. y = u * a
      <4>1. x = g + r /\ u * a = g + a
        BY <1>1, <2>0, <2>1
      <4> QED
        BY <1>8, <2>2, <4>1
    <3>2. u * a <= y /\ y < (u + 1) * a
      BY <1>8, <3>1
    <3>3. y % a = y - u * a
      BY <3>2, Rules!DivUnique
    <3> QED
      BY <2>2, <3>1, <3>3
  <2>3. CASE r # a - 1
    <3>1. q * a <= y /\ y < (q + 1) * a
      BY <1>1, <1>8, <2>1, <2>3
    <3>2. y % a = y - q * a
      BY <3>1, Rules!DivUnique
    <3> QED
      BY <1>1, <1>8, <2>1, <2>3, <3>2
  <2> QED
    BY <2>2, <2>3
<1>10. y % c = 0 <=> e + r + 1 = c
  <2>1. e + r + 1 \in 1 .. c /\ v * c = d + c /\ t * c = d
    BY <1>3, <1>4, <1>5, <1>7, <1>8
  <2>2. CASE e + r + 1 = c
    <3>1. y = v * c
      BY <1>3, <1>4, <1>5, <1>6, <1>8, <2>1, <2>2
    <3>2. v * c <= y /\ y < (v + 1) * c
      <4>1. PICK h \in Int : h = v * c
        BY <1>8
      <4>2. (v + 1) * c = h + c
        BY <1>8, <4>1
      <4> QED
        BY <1>3, <3>1, <4>1, <4>2
    <3>3. y % c = y - v * c
      BY <3>2, Rules!DivUnique
    <3> QED
      BY <1>3, <1>4, <1>5, <1>8, <2>2, <3>1, <3>3
  <2>3. CASE e + r + 1 # c
    <3>1. t * c <= y /\ y < (t + 1) * c
      BY <1>3, <1>4, <1>5, <1>6, <1>8, <2>1, <2>3
    <3>2. y % c = y - t * c
      BY <3>1, Rules!DivUnique
    <3> QED
      BY <1>3, <1>4, <1>5, <1>6, <1>8, <2>1, <2>3, <3>2
  <2> QED
    BY <2>2, <2>3
<1>11. e + r + 1 = c <=> s = b - 1 /\ r = a - 1
  BY <1>3, <1>4, <1>5, <1>7
<1> QED
  BY <1>1, <1>2, <1>3, <1>4, <1>5, <1>8, <1>9, <1>10, <1>11

\* Which trees end.
LEMMA EndsAre ==
  ASSUME NEW idx \in Nat, NEW i \in 0 .. Layers - 1
  PROVE  AtTreeEnd(idx, i) <=> \A k \in 0 .. i : LeafAt(idx, k) = 2^TreeHeight - 1
<1>1. ASSUME NEW k \in 0 .. Layers - 1
      PROVE  AtTreeEnd(idx, k) <=>
               (idx + 1) % 2^(k * TreeHeight) = 0 /\ LeafAt(idx, k) = 2^TreeHeight - 1
  <2> DEFINE a == 2^(k * TreeHeight)
             b == 2^TreeHeight
  <2>1. a \in Nat \ {0} /\ b \in Nat \ {0} /\ 2^((k + 1) * TreeHeight) = a * b
    <3>1. k \in 0 .. Layers
      BY Sizes
    <3> QED
      BY <3>1, Powers
  <2>2. (AtTreeEnd(idx, k) <=> (idx + 1) % (a * b) = 0) /\ LeafAt(idx, k) = (idx \div a) % b
    BY <2>1 DEF AtTreeEnd, LeafAt, Shr, Low
  <2>3. (idx + 1) % (a * b) = 0 <=> (idx + 1) % a = 0 /\ (idx \div a) % b = b - 1
    <3> HIDE DEF a, b
    <3> QED
      BY <2>1, LastBefore
  <2> QED
    BY <2>2, <2>3
<1> DEFINE S == {n \in Nat : n <= Layers - 1 =>
                   (AtTreeEnd(idx, n) <=> \A k \in 0 .. n : LeafAt(idx, k) = 2^TreeHeight - 1)}
<1>2. 0 \in S
  <2>1. 0 \in 0 .. Layers - 1 /\ 0 * TreeHeight = 0
    BY Sizes
  <2>2. 2^(0 * TreeHeight) = 1
    BY <2>1, Powers
  <2>5. (idx + 1) % 1 = 0
    OBVIOUS
  <2>3. AtTreeEnd(idx, 0) <=> LeafAt(idx, 0) = 2^TreeHeight - 1
    BY <1>1, <2>1, <2>2, <2>5
  <2>4. \A k \in 0 .. 0 : k = 0
    OBVIOUS
  <2> QED
    BY <2>3, <2>4
<1>3. ASSUME NEW n \in Nat, n \in S
      PROVE  n + 1 \in S
  <2> SUFFICES ASSUME n + 1 <= Layers - 1
               PROVE  AtTreeEnd(idx, n + 1) <=>
                        \A k \in 0 .. n + 1 : LeafAt(idx, k) = 2^TreeHeight - 1
    OBVIOUS
  <2>1. n + 1 \in 0 .. Layers - 1
    BY Sizes
  <2>2. AtTreeEnd(idx, n + 1) <=> AtTreeEnd(idx, n) /\ LeafAt(idx, n + 1) = 2^TreeHeight - 1
    BY <1>1, <2>1 DEF AtTreeEnd, Low
  <2>3. AtTreeEnd(idx, n) <=> \A k \in 0 .. n : LeafAt(idx, k) = 2^TreeHeight - 1
    BY <1>3, Sizes
  <2>4. \A k \in 0 .. n + 1 : k \in 0 .. n \/ k = n + 1
    OBVIOUS
  <2>5. \A k \in 0 .. n : k \in 0 .. n + 1
    OBVIOUS
  <2>6. n + 1 \in 0 .. n + 1
    OBVIOUS
  <2> QED
    BY <2>2, <2>3, <2>4, <2>5, <2>6
<1> HIDE DEF S
<1>4. i \in S
  <2>1. i \in Nat
    OBVIOUS
  <2> QED
    BY <1>2, <1>3, <2>1, Rules!SetInduction
<1> QED
  BY <1>4 DEF S
\* What is left of the hypertree from layer j on, and when the key of that
\* layer is the last.
LEMMA LastKey ==
  ASSUME NEW idx \in Nat, idx < Leaves, NEW j \in 0 .. Layers
  PROVE  /\ 2^((Layers - j) * TreeHeight) \in Nat \ {0}
         /\ KeyAt(idx, j) \in Nat /\ KeyAt(idx, j) <= 2^((Layers - j) * TreeHeight) - 1
         /\ KeyAt(idx, j) = 2^((Layers - j) * TreeHeight) - 1
              <=> \A k \in j .. Layers - 1 : LeafAt(idx, k) = 2^TreeHeight - 1
<1> DEFINE Rest(n) == 2^((Layers - n) * TreeHeight)
           b == 2^TreeHeight
           Good(n) == /\ Rest(n) \in Nat \ {0}
                      /\ KeyAt(idx, n) \in Nat /\ KeyAt(idx, n) <= Rest(n) - 1
                      /\ KeyAt(idx, n) = Rest(n) - 1 <=>
                           \A k \in n .. Layers - 1 : LeafAt(idx, k) = b - 1
           S == {m \in Nat : m <= Layers => Good(Layers - m)}
<1>1. 0 \in S
  <2>1. Layers \in 0 .. Layers /\ (Layers - Layers) * TreeHeight = 0 /\ Layers - 0 = Layers
    BY Sizes
  <2>2. Rest(Layers) = 1
    BY <2>1, Powers
  <2>3. KeyAt(idx, Layers) = idx \div Leaves
    BY LeavesNat DEF KeyAt, Shr
  <2>4. idx \div Leaves = 0
    BY LeavesNat
  <2>5. Layers .. Layers - 1 = {}
    BY Sizes
  <2>6. Good(Layers)
    BY <2>2, <2>3, <2>4, <2>5
  <2> HIDE DEF Good
  <2> QED
    BY <2>1, <2>6
<1>2. ASSUME NEW m \in Nat, m \in S
      PROVE  m + 1 \in S
  <2> SUFFICES ASSUME m + 1 <= Layers
               PROVE  Good(Layers - (m + 1))
    OBVIOUS
  <2> DEFINE n == Layers - (m + 1)
  <2>1. n \in 0 .. Layers - 1 /\ n \in Nat /\ Layers - m = n + 1 /\ Layers - n = m + 1
        /\ Layers - (n + 1) = m /\ m \in 0 .. Layers - 1 /\ n + 1 <= Layers
    BY Sizes
  <2>2. Good(n + 1)
    <3> HIDE DEF Good, n
    <3> QED
      BY <1>2, <2>1, Sizes
  <2>3. b \in Nat \ {0} /\ Rest(n) = Rest(n + 1) * b
    <3> HIDE DEF n
    <3> QED
      BY <2>1, Powers
  <2> HIDE DEF n
  <2>4. /\ KeyAt(idx, n) = KeyAt(idx, n + 1) * b + LeafAt(idx, n)
        /\ LeafAt(idx, n) \in 0 .. b - 1
    BY <2>1, KeyDigits
  <2> DEFINE q == KeyAt(idx, n + 1)
             r == LeafAt(idx, n)
             M == Rest(n + 1)
  <2>5. M \in Nat \ {0} /\ q \in Nat /\ q <= M - 1
        /\ (q = M - 1 <=> \A k \in n + 1 .. Layers - 1 : LeafAt(idx, k) = b - 1)
    BY <2>2
  <2>6. KeyAt(idx, n) = q * b + r /\ r \in 0 .. b - 1 /\ Rest(n) = M * b
    BY <2>3, <2>4
  <2>7. (\A k \in n .. Layers - 1 : LeafAt(idx, k) = b - 1) <=> q = M - 1 /\ r = b - 1
    <3>1. \A k \in n .. Layers - 1 : k = n \/ k \in n + 1 .. Layers - 1
      BY <2>1
    <3>2. n \in n .. Layers - 1 /\ \A k \in n + 1 .. Layers - 1 : k \in n .. Layers - 1
      BY <2>1, Sizes
    <3> HIDE DEF q, M, b
    <3> QED
      BY <2>5, <3>1, <3>2
  <2> HIDE DEF q, r, M, b, Rest
  <2>8. M * b \in Nat \ {0} /\ q * b + r \in Nat /\ q * b + r <= M * b - 1
        /\ (q * b + r = M * b - 1 <=> q = M - 1 /\ r = b - 1)
    <3>1. PICK d \in Nat : d = M - 1 - q
      BY <2>5
    <3>2. M * b = q * b + d * b + b
      BY <2>3, <2>5, <3>1
    <3>3. q * b \in Nat /\ d * b \in Nat /\ (d # 0 => d * b >= b) /\ (d = 0 => d * b = 0)
      BY <2>3, <2>5
    <3>4. d = 0 <=> q = M - 1
      BY <2>5, <3>1
    <3>5. PICK f \in Nat, g \in Nat : f = q * b /\ g = d * b
      BY <3>3
    <3> QED
      BY <2>3, <2>6, <3>2, <3>3, <3>4, <3>5
  <2>9. Good(n)
    BY <2>5, <2>6, <2>7, <2>8 DEF M
  <2> HIDE DEF Good
  <2> QED
    BY <2>9 DEF n
<1> HIDE DEF S, Good
<1>3. Layers - j \in S
  <2>1. Layers - j \in Nat
    BY Sizes
  <2> HIDE DEF S
  <2> QED
    BY <1>1, <1>2, <2>1, Rules!SetInduction
<1>4. Good(j)
  <2>1. Layers - j <= Layers /\ Layers - (Layers - j) = j
    BY Sizes
  <2> QED
    BY <1>3, <2>1 DEF S
<1> QED
  BY <1>4 DEF Good

\* Which layers have a tree to come: the test compares leaf numbers one tree
\* further on, with what the layer has in all.
LEMMA HasNextIs ==
  ASSUME NEW idx \in Nat, idx < Leaves, NEW i \in 0 .. Layers - 1
  PROVE  HasNext(idx, i) <=> \E k \in i + 1 .. Layers - 1 : LeafAt(idx, k) < 2^TreeHeight - 1
<1> DEFINE b == 2^TreeHeight
           q == KeyAt(idx, i + 1)
           r == LeafAt(idx, i)
           M == 2^((Layers - (i + 1)) * TreeHeight)
<1>1. i + 1 \in 0 .. Layers /\ Layers - (i + 1) \in 0 .. Layers - 1
      /\ (Layers - (i + 1)) + 1 = Layers - i /\ (Layers - i) * TreeHeight = TreeHeight * (Layers - i)
  BY Sizes
<1>2. M \in Nat \ {0} /\ q \in Nat /\ q <= M - 1
      /\ (q = M - 1 <=> \A k \in i + 1 .. Layers - 1 : LeafAt(idx, k) = b - 1)
  BY <1>1, LastKey
<1>3. b \in Nat \ {0} /\ r \in 0 .. b - 1 /\ TreeAt(idx, i) = q
  BY KeyDigits, Powers
<1>4. 2^(TreeHeight * (Layers - i)) = M * b
  BY <1>1, Powers
<1>5. HasNext(idx, i) <=> (1 + q) * b + r < M * b
  BY <1>3, <1>4 DEF HasNext
<1>6. \A k \in i + 1 .. Layers - 1 : LeafAt(idx, k) \in 0 .. b - 1
  <2>1. \A k \in i + 1 .. Layers - 1 : k \in 0 .. Layers - 1
    OBVIOUS
  <2> QED
    BY <2>1, KeyDigits
<1>7. (\E k \in i + 1 .. Layers - 1 : LeafAt(idx, k) < b - 1)
        <=> ~ \A k \in i + 1 .. Layers - 1 : LeafAt(idx, k) = b - 1
  <2> HIDE DEF b
  <2> QED
    BY <1>3, <1>6
<1> HIDE DEF b, q, r, M
<1>8. (1 + q) * b + r < M * b <=> q < M - 1
  <2>1. PICK d \in Nat : d = M - 1 - q
    BY <1>2
  <2>2. M * b = (1 + q) * b + d * b
    BY <1>2, <1>3, <2>1
  <2>3. (1 + q) * b \in Nat /\ d * b \in Nat /\ (d # 0 => d * b >= b) /\ (d = 0 => d * b = 0)
    BY <1>2, <1>3
  <2>4. PICK f \in Nat, g \in Nat : f = (1 + q) * b /\ g = d * b
    BY <2>3
  <2> QED
    BY <1>2, <1>3, <2>1, <2>2, <2>3, <2>4
<1> QED
  BY <1>2, <1>5, <1>7, <1>8 DEF b

\* Where the layers stand at the next index.
LEMMA LeafNext ==
  ASSUME NEW idx \in Nat, NEW i \in 0 .. Layers - 1
  PROVE  LeafAt(idx + 1, i) =
           IF i > 0 /\ ~ AtTreeEnd(idx, i - 1) THEN LeafAt(idx, i)
           ELSE IF LeafAt(idx, i) = 2^TreeHeight - 1 THEN 0 ELSE LeafAt(idx, i) + 1
<1> DEFINE b == 2^TreeHeight
           y == KeyAt(idx, i)
           z == KeyAt(idx + 1, i)
<1>1. b \in Nat \ {0} /\ y \in Nat /\ LeafAt(idx, i) = y % b /\ LeafAt(idx + 1, i) = z % b
      /\ z \in Nat
  <2>1. idx + 1 \in Nat
    OBVIOUS
  <2> QED
    BY <2>1, KeyDigits, Powers
<1>2. z = IF i > 0 /\ ~ AtTreeEnd(idx, i - 1) THEN y ELSE y + 1
  <2>1. CASE i = 0
    <3>1. 2^(i * TreeHeight) = 1
      <4>1. i * TreeHeight = 0
        BY <2>1, Sizes
      <4> QED
        BY <4>1, Powers
    <3>2. y = idx /\ z = idx + 1
      BY <3>1 DEF KeyAt, Shr
    <3> QED
      BY <2>1, <3>2
  <2>2. CASE i # 0
    <3>1. i - 1 \in 0 .. Layers - 2 /\ (i - 1) + 1 = i /\ i > 0
      BY <2>2, Sizes
    <3> QED
      BY <3>1, KeyAtNext
  <2> QED
    BY <2>1, <2>2
<1> HIDE DEF b, y, z
<1>3. (y + 1) % b = IF y % b = b - 1 THEN 0 ELSE (y % b) + 1
  <2>1. y % b \in 0 .. b - 1 /\ y = (y \div b) * b + (y % b) /\ y \div b \in Int
    <3>1. y \in Int
      BY <1>1
    <3> QED
      BY <1>1, <3>1, Rules!DivMod
  <2>2. PICK t \in Int, r \in 0 .. b - 1 : y = t * b + r /\ r = y % b
    BY <2>1
  <2>3. PICK x \in Int, u \in Int : x = y + 1 /\ u = t + 1
    BY <1>1
  <2>4. t * b \in Int /\ u * b = t * b + b
    BY <1>1, <2>3
  <2>5. CASE r = b - 1
    <3>1. x = u * b
      <4>1. PICK h \in Int : h = t * b
        BY <2>4
      <4>2. y = h + r /\ u * b = h + b
        BY <2>2, <2>4, <4>1
      <4> QED
        BY <1>1, <2>3, <2>5, <4>2
    <3>2. u * b <= x /\ x < (u + 1) * b
      BY <1>1, <3>1
    <3>3. x % b = x - u * b
      BY <1>1, <3>2, Rules!DivUnique
    <3>4. x % b = 0
      BY <3>1, <3>3
    <3> QED
      BY <2>2, <2>3, <2>5, <3>4
  <2>6. CASE r # b - 1
    <3>1. t * b <= x /\ x < (t + 1) * b /\ x - t * b = r + 1
      <4>1. PICK h \in Int : h = t * b
        BY <2>4
      <4>2. y = h + r /\ (t + 1) * b = h + b
        BY <2>2, <2>3, <2>4, <4>1
      <4> QED
        BY <1>1, <2>3, <2>6, <4>1, <4>2
    <3>2. x % b = x - t * b
      BY <1>1, <3>1, Rules!DivUnique
    <3> QED
      BY <2>2, <2>3, <2>6, <3>1, <3>2
  <2> QED
    BY <2>5, <2>6
<1> QED
  BY <1>1, <1>2, <1>3 DEF b

\* At the last index every layer is at the end of its last tree.
LEMMA LastLeaves ==
  \A i \in 0 .. Layers - 1 : LeafAt(LastIndex, i) = 2^TreeHeight - 1
<1>1. LastIndex \in Nat /\ LastIndex + 1 = Leaves /\ Leaves = 2^(Layers * TreeHeight)
      /\ Leaves \in Nat \ {0}
  BY LeavesNat
<1>2. Layers - 1 \in 0 .. Layers - 1 /\ (Layers - 1) + 1 = Layers
  BY Sizes
<1>3. (LastIndex + 1) % Leaves = 0
  BY <1>1
<1>4. AtTreeEnd(LastIndex, Layers - 1)
  BY <1>1, <1>2, <1>3 DEF AtTreeEnd, Low
<1> QED
  BY <1>1, <1>2, <1>4, EndsAre
-----------------------------------------------------------------------------

\* Powers up to the leaves of a tree: positive, and at least double the ones
\* before.
LEMMA TreePowers ==
  /\ TreeHeight \in Nat
  /\ \A a \in 0 .. TreeHeight : 2^a \in Nat \ {0}
  /\ \A a, b \in 0 .. TreeHeight : a < b => 2 * 2^a <= 2^b
<1> DEFINE m == TreeHeight * Layers
<1>1. \A k \in 0 .. m : 2^(k + 1) = 2 * 2^k
  BY PowersAssumption DEF PowersOfTwo
<1>2. m \in Nat /\ TreeHeight \in Nat /\ TreeHeight <= m
  <2>1. 1 \in 0 .. Layers /\ 1 * TreeHeight = TreeHeight
    BY Sizes
  <2>2. 1 * TreeHeight \in 0 .. m
    BY <2>1, Sizes
  <2> QED
    BY <2>1, <2>2, Sizes
<1> HIDE DEF m
<1>3. \A a \in 0 .. TreeHeight : 2^a \in Nat \ {0}
  <2>1. \A a \in 0 .. TreeHeight : a \in 0 .. m + 1
    BY <1>2
  <2> QED
    BY <1>1, <1>2, <2>1, Rules!PowNat
<1>4. ASSUME NEW a \in 0 .. TreeHeight, NEW b \in 0 .. TreeHeight, a < b
      PROVE  2 * 2^a <= 2^b
  <2>1. a \in Nat /\ b \in Nat /\ b <= m + 1
    BY <1>2
  <2>2. PICK q \in Nat : q > 0 /\ 2^b = (2 * q) * 2^a
    BY <1>1, <1>2, <1>4, <2>1, Rules!PowLess
  <2>3. PICK x \in Nat : x = 2^a
    BY <1>3
  <2>4. (2 * q) * x = 2 * x + (2 * (q - 1)) * x /\ (2 * (q - 1)) * x >= 0
    BY <2>2
  <2>5. (2 * (q - 1)) * x \in Int
    BY <2>2
  <2> QED
    BY <2>2, <2>3, <2>4, <2>5
<1> QED
  BY <1>2, <1>3, <1>4

\* Sets of numbers have a least element.
LEMMA MinIs ==
  ASSUME NEW S, S \subseteq Nat, S # {}
  PROVE  Min(S) \in S /\ \A n \in S : Min(S) <= n
<1>1. \E m \in S : \A n \in S : m <= n
  <2> SUFFICES ASSUME \A m \in S : \E n \in S : n < m
               PROVE  FALSE
    OBVIOUS
  <2> DEFINE T == {n \in Nat : \A m \in 0 .. n : m \notin S}
  <2>1. 0 \in T
    <3>1. 0 \notin S
      OBVIOUS
    <3> QED
      BY <3>1
  <2>2. ASSUME NEW n \in Nat, n \in T
        PROVE  n + 1 \in T
    <3>1. n + 1 \notin S
      <4> SUFFICES ASSUME n + 1 \in S
                   PROVE  FALSE
        OBVIOUS
      <4>1. PICK m \in S : m < n + 1
        OBVIOUS
      <4>2. m \in 0 .. n
        BY <4>1
      <4> QED
        BY <2>2, <4>2
    <3>2. \A m \in 0 .. n + 1 : m \in 0 .. n \/ m = n + 1
      OBVIOUS
    <3> QED
      BY <2>2, <3>1, <3>2
  <2> HIDE DEF T
  <2>3. Nat \subseteq T
    BY <2>1, <2>2, Rules!SetInduction
  <2>4. \A n \in Nat : n \notin S
    BY <2>3 DEF T
  <2> QED
    BY <2>4
<1> QED
  BY <1>1 DEF Min

-----------------------------------------------------------------------------

(***************************************************************************)
(* The states of the trees, as far as they decide what is spent: their     *)
(* form, the leaf count, and whether an instance is at work.               *)
(***************************************************************************)

\* A parameter set of these trees.
Sized(par) == par.tree_height = TreeHeight /\ par.bds_k \in 0 .. TreeHeight

\* The fields of bds_state and of treehash_inst, and as many instances as
\* there are.
Shaped(par, s) ==
  /\ {"stack", "stackoffset", "stacklevels", "auth", "keep", "treehash", "retain",
      "next_leaf"} \subseteq DOMAIN s
  /\ DOMAIN s.treehash = 0 .. Instances(par) - 1
  /\ \A j \in DOMAIN s.treehash :
       {"h", "next_idx", "stackusage", "completed", "node"} \subseteq DOMAIN s.treehash[j]
  /\ s.stackoffset \in Int

\* No instance is at work.
Settled(s) == \A j \in DOMAIN s.treehash : s.treehash[j].completed = 1

\* t comes from s without a leaf counted and without an instance set to work.
Steady(par, s, t) ==
  Shaped(par, t) /\ t.next_leaf = s.next_leaf /\ (Settled(s) => Settled(t))

\* The number of instances.
LEMMA InstancesNat ==
  ASSUME NEW par, Sized(par)
  PROVE  /\ Instances(par) \in 0 .. TreeHeight /\ Instances(par) = TreeHeight - par.bds_k
         /\ par.tree_height = TreeHeight /\ TreeHeight \in Nat
  BY TreePowers DEF Sized, Instances

\* A change of other fields, or of an instance's node.
SameWork(s, t) ==
  /\ DOMAIN t = DOMAIN s /\ t.next_leaf = s.next_leaf /\ t.stackoffset \in Int
  /\ DOMAIN t.treehash = DOMAIN s.treehash
  /\ \A j \in DOMAIN s.treehash : /\ DOMAIN t.treehash[j] = DOMAIN s.treehash[j]
                                  /\ t.treehash[j].completed = s.treehash[j].completed

LEMMA SameSteady ==
  ASSUME NEW par, NEW s, NEW t, Shaped(par, s), SameWork(s, t)
  PROVE  Steady(par, s, t)
  BY DEF Shaped, SameWork, Steady, Settled

LEMMA SteadySteady ==
  ASSUME NEW par, NEW s, NEW t, NEW u, Steady(par, s, t), Steady(par, t, u)
  PROVE  Steady(par, s, u)
  BY DEF Steady

\* The node of one instance.
LEMMA NodeOfInstance ==
  ASSUME NEW par, NEW s, NEW h, NEW node, Shaped(par, s)
  PROVE  SameWork(s, [s EXCEPT !.treehash[h].node = node])
<1> DEFINE th == [s.treehash EXCEPT ![h].node = node]
           u  == [s EXCEPT !.treehash[h].node = node]
<1>1. u = [s EXCEPT !.treehash = th]
  OBVIOUS
<1>2. DOMAIN th = DOMAIN s.treehash
  OBVIOUS
<1>3. ASSUME NEW j \in DOMAIN s.treehash
      PROVE  /\ DOMAIN th[j] = DOMAIN s.treehash[j]
             /\ th[j].completed = s.treehash[j].completed
  <2>1. {"completed", "node"} \subseteq DOMAIN s.treehash[j]
    BY DEF Shaped
  <2>2. CASE j = h
    <3>1. th[j] = [s.treehash[j] EXCEPT !.node = node]
      BY <2>2
    <3> HIDE DEF th
    <3> QED
      BY <2>1, <3>1
  <2>3. CASE j # h
    <3>1. th[j] = s.treehash[j]
      BY <2>3
    <3> QED
      BY <3>1
  <2> QED
    BY <2>2, <2>3
<1> HIDE DEF th, u
<1>4. u.treehash = th /\ DOMAIN u = DOMAIN s /\ u.next_leaf = s.next_leaf
      /\ u.stackoffset = s.stackoffset
  BY <1>1 DEF Shaped
<1>5. SameWork(s, u)
  BY <1>2, <1>3, <1>4 DEF SameWork, Shaped
<1> QED
  BY <1>5 DEF u

\* Two nodes merged into one.
LEMMA MergeSteady ==
  ASSUME NEW par, NEW s, NEW seed, NEW addr, NEW idx, Shaped(par, s)
  PROVE  Steady(par, s, Merge(par, s, seed, addr, idx))
<1> DEFINE top  == s.stackoffset - 1
           h    == s.stacklevels[top]
           pos  == Shr(idx, h)
           node == s.stack[top]
           kept == Save(par, s, h, pos, node)
           u    == Merge(par, s, seed, addr, idx)
<1>1. SameWork(s, kept)
  <2> HIDE DEF h, pos, node
  <2>1. CASE pos = 1
    <3>1. kept = [s EXCEPT !.auth = Put(@, h, node)]
      BY <2>1 DEF Save
    <3> DEFINE a == Put(s.auth, h, node)
    <3>2. kept = [s EXCEPT !.auth = a]
      BY <3>1
    <3> HIDE DEF a, kept
    <3> QED
      BY <3>2 DEF Shaped, SameWork
  <2>2. CASE pos # 1 /\ h < Instances(par) /\ pos = 3
    <3>1. kept = [s EXCEPT !.treehash[h].node = node]
      BY <2>2 DEF Save
    <3>2. SameWork(s, [s EXCEPT !.treehash[h].node = node])
      BY NodeOfInstance
    <3> HIDE DEF kept
    <3> QED
      BY <3>1, <3>2
  <2>3. CASE pos # 1 /\ ~ (h < Instances(par) /\ pos = 3) /\ h >= Instances(par)
    <3> DEFINE a == Put(s.retain, RetainSlot(par, h, pos), node)
    <3>1. kept = [s EXCEPT !.retain = a]
      BY <2>3 DEF Save
    <3> HIDE DEF a, kept
    <3> QED
      BY <3>1 DEF Shaped, SameWork
  <2>4. CASE pos # 1 /\ ~ (h < Instances(par) /\ pos = 3) /\ ~ (h >= Instances(par))
    <3>1. kept = s
      BY <2>4 DEF Save
    <3> QED
      BY <3>1 DEF Shaped, SameWork
  <2> QED
    BY <2>1, <2>2, <2>3, <2>4
<1>2. Steady(par, s, kept)
  BY <1>1, SameSteady
<1> DEFINE a == Put(kept.stack, top - 1, thash_h(s.stack[top - 1], s.stack[top], seed, addr, h,
                                                 Shr(idx, h + 1)))
           b == Put(kept.stacklevels, top - 1, h + 1)
<1>3. u = [[[kept EXCEPT !.stack = a] EXCEPT !.stacklevels = b] EXCEPT !.stackoffset = top]
  BY DEF Merge
<1>4. top \in Int
  BY DEF Shaped
<1> HIDE DEF top, kept, a, b, u
<1>5. Steady(par, kept, u)
  <2>1. SameWork(kept, u)
    BY <1>2, <1>3, <1>4 DEF Steady, Shaped, SameWork
  <2> QED
    BY <1>2, <2>1, SameSteady DEF Steady
<1>6. Steady(par, s, u)
  BY <1>2, <1>5, SteadySteady
<1> QED
  BY <1>6 DEF u

\* The merges after a leaf, called with p: params, the seed, the address, the
\* leaf, and the state before.
MergeTurn(p, t, i) == IF TopPair(t) THEN Merge(p[1], t, p[2], p[3], p[4]) ELSE t
MergeInv(p, t, i) == Steady(p[1], p[5], t)
Merging == INSTANCE LoopRules WITH Body <- MergeTurn, Inv <- MergeInv

\* AddLeaf before its merges.
PushedLeaf(par, s, seed, addr, idx) ==
  LET pushed == [s EXCEPT
        !.stack = Put(@, s.stackoffset, gen_leaf_wots(seed, addr, idx)),
        !.stacklevels = Put(@, s.stackoffset, 0),
        !.stackoffset = @ + 1]
  IN  IF Instances(par) > 0 /\ idx = 3
      THEN [pushed EXCEPT !.treehash[0].node = Junk]
      ELSE pushed

\* AddLeaf is that loop.
LEMMA AddLeafIs ==
  ASSUME NEW par, NEW s, NEW seed, NEW addr, NEW idx
  PROVE  AddLeaf(par, s, seed, addr, idx) =
           Merging!TheFor(<<par, seed, addr, idx, s>>, par.tree_height,
                          PushedLeaf(par, s, seed, addr, idx))
<1> DEFINE p == <<par, seed, addr, idx, s>>
<1>1. p[1] = par /\ p[2] = seed /\ p[3] = addr /\ p[4] = idx /\ p[5] = s
  OBVIOUS
<1> HIDE DEF p
<1>2. AddLeaf(p[1], p[5], p[2], p[3], p[4]) =
        Merging!TheFor(p, p[1].tree_height, PushedLeaf(p[1], p[5], p[2], p[3], p[4]))
  BY DEF AddLeaf, PushedLeaf, MergeTurn, While, For, Merging!TheFor, Merging!For
<1> QED
  BY <1>1, <1>2 DEF p

\* A leaf more counts no leaf and sets no instance to work.
LEMMA AddLeafSteady ==
  ASSUME NEW par, Sized(par), NEW s, NEW seed, NEW addr, NEW idx, Shaped(par, s)
  PROVE  Steady(par, s, AddLeaf(par, s, seed, addr, idx))
<1> DEFINE p == <<par, seed, addr, idx, s>>
           start == PushedLeaf(par, s, seed, addr, idx)
           n == par.tree_height
           done == Merging!TheFor(p, n, start)
           o == s.stackoffset
           a == Put(s.stack, o, gen_leaf_wots(seed, addr, idx))
           b == Put(s.stacklevels, o, 0)
           c == o + 1
           pushed == [[[s EXCEPT !.stack = a] EXCEPT !.stacklevels = b] EXCEPT !.stackoffset = c]
<1>1. p[1] = par /\ p[5] = s /\ n \in Nat
  BY InstancesNat
<1>2. AddLeaf(par, s, seed, addr, idx) = done
  BY AddLeafIs
<1>3. start = pushed \/ start = [pushed EXCEPT !.treehash[0].node = Junk]
  BY DEF PushedLeaf
<1>4. c \in Int
  BY DEF Shaped
<1> HIDE DEF p, start, n, o, a, b, c
<1>5. SameWork(s, pushed)
  BY <1>4 DEF SameWork, Shaped
<1> HIDE DEF pushed
<1>6. Steady(par, s, pushed)
  BY <1>5, SameSteady
<1>7. Steady(par, s, start)
  <2>1. CASE start = pushed
    BY <1>6, <2>1
  <2>2. CASE start = [pushed EXCEPT !.treehash[0].node = Junk]
    <3>1. Shaped(par, pushed)
      BY <1>6 DEF Steady
    <3>2. SameWork(pushed, start)
      BY <2>2, <3>1, NodeOfInstance
    <3> QED
      BY <1>6, <3>1, <3>2, SameSteady, SteadySteady
  <2> QED
    BY <1>3, <2>1, <2>2
<1>8. MergeInv(p, start, 0)
  BY <1>1, <1>7 DEF MergeInv
<1>9. ASSUME NEW t, NEW i \in 0 .. n - 1, MergeInv(p, t, i)
      PROVE  MergeInv(p, MergeTurn(p, t, i), i + 1)
  <2>1. Steady(par, s, t)
    BY <1>1, <1>9 DEF MergeInv
  <2>2. CASE TopPair(t)
    <3>1. MergeTurn(p, t, i) = Merge(par, t, p[2], p[3], p[4])
      BY <1>1, <2>2 DEF MergeTurn
    <3>2. Steady(par, t, Merge(par, t, p[2], p[3], p[4]))
      BY <2>1, MergeSteady DEF Steady
    <3> QED
      BY <1>1, <2>1, <3>1, <3>2, SteadySteady DEF MergeInv
  <2>3. CASE ~ TopPair(t)
    BY <1>9, <2>3 DEF MergeTurn, MergeInv
  <2> QED
    BY <2>2, <2>3
<1>10. MergeInv(p, done, n)
  BY <1>1, <1>8, <1>9, Merging!ForRule
<1> HIDE DEF done
<1> QED
  BY <1>1, <1>2, <1>10 DEF MergeInv
\* One more leaf of a NEXT tree.
LEMMA StateUpdateIs ==
  ASSUME NEW par, Sized(par), NEW s, NEW seed, NEW addr, Shaped(par, s),
         s.next_leaf \in 0 .. 2^TreeHeight,
         NEW u, u = bds_state_update(par, s, seed, addr)
  PROVE  /\ Shaped(par, u) /\ (Settled(s) => Settled(u))
         /\ u.next_leaf = IF s.next_leaf < 2^TreeHeight THEN s.next_leaf + 1 ELSE s.next_leaf
<1>1. par.tree_height = TreeHeight /\ 2^TreeHeight \in Nat
  BY InstancesNat, TreePowers
<1>2. CASE s.next_leaf = 2^TreeHeight
  <2>1. u = s
    BY <1>1, <1>2 DEF bds_state_update
  <2> QED
    BY <1>1, <1>2, <2>1
<1>3. CASE s.next_leaf # 2^TreeHeight
  <2> DEFINE t == AddLeaf(par, s, seed, addr, s.next_leaf)
  <2>1. u = [t EXCEPT !.next_leaf = @ + 1]
    BY <1>1, <1>3 DEF bds_state_update
  <2>2. Steady(par, s, t)
    BY AddLeafSteady
  <2> HIDE DEF t
  <2>3. /\ u.next_leaf = s.next_leaf + 1 /\ u.treehash = t.treehash
        /\ u.stackoffset = t.stackoffset /\ DOMAIN u = DOMAIN t
    BY <2>1, <2>2 DEF Steady, Shaped
  <2>4. Shaped(par, u) /\ (Settled(s) => Settled(u))
    BY <2>2, <2>3 DEF Steady, Shaped, Settled
  <2>5. s.next_leaf < 2^TreeHeight
    BY <1>1, <1>3
  <2> QED
    BY <2>3, <2>4, <2>5
<1> QED
  BY <1>2, <1>3

-----------------------------------------------------------------------------

\* The two nested loops over the leaves of treehash_init: p is params, the
\* seed and the address, and in the inner loop also the number of the block.
LowOf(p) == p[1].tree_height \div 2

InnerTurn(p, u, j) == AddLeaf(p[1], u, p[2], p[3], p[4] * 2^LowOf(p) + j)
OuterTurn(p, t, i) ==
  For(2^LowOf(p), LAMBDA u, j : AddLeaf(p[1], u, p[2], p[3], i * 2^LowOf(p) + j), t)
InitInv(p, t, i) == Shaped(p[1], t) /\ Settled(t)
Inner == INSTANCE LoopRules WITH Body <- InnerTurn, Inv <- InitInv
Outer == INSTANCE LoopRules WITH Body <- OuterTurn, Inv <- InitInv

\* The state when the first leaf is added.
Cleared(s) ==
  [s EXCEPT !.stackoffset = 0,
            !.treehash = [i \in DOMAIN @ |->
                           [@[i] EXCEPT !.h = i, !.completed = 1, !.stackusage = 0]]]

\* treehash_init is the loop, and gives the state its stack back.
Built(p, s) == Outer!TheFor(p, 2^(p[1].tree_height - LowOf(p)), Cleared(s))
InitEnd(s, done) ==
  [done EXCEPT !.stack = s.stack, !.stacklevels = s.stacklevels,
               !.stackoffset = s.stackoffset]

LEMMA InitIs ==
  ASSUME NEW par, NEW s, NEW seed, NEW addr
  PROVE  treehash_init(par, s, seed, addr).state =
           InitEnd(s, Built(<<par, seed, addr>>, s))
<1> DEFINE p == <<par, seed, addr>>
<1>1. p[1] = par /\ p[2] = seed /\ p[3] = addr
  OBVIOUS
<1> HIDE DEF p
<1>2. treehash_init(p[1], s, p[2], p[3]).state = InitEnd(s, Built(p, s))
  BY DEF treehash_init, ForLeaves, OuterTurn, LowOf, Cleared, For, Outer!TheFor, Outer!For,
         Built, InitEnd
<1> QED
  BY <1>1, <1>2 DEF p

\* A block of leaves.
LEMMA OuterKeeps ==
  ASSUME NEW p, Sized(p[1]), NEW t, NEW i, InitInv(p, t, i)
  PROVE  InitInv(p, OuterTurn(p, t, i), i + 1)
<1> DEFINE r    == <<p[1], p[2], p[3], i>>
           b    == 2^LowOf(r)
           done == Inner!TheFor(r, b, t)
<1>1. r[1] = p[1] /\ r[2] = p[2] /\ r[3] = p[3] /\ r[4] = i
  OBVIOUS
<1> HIDE DEF r
<1>2. LowOf(r) = LowOf(p) /\ b \in Nat
  <2>1. LowOf(r) = LowOf(p) /\ LowOf(r) = TreeHeight \div 2
    BY <1>1, InstancesNat DEF LowOf
  <2>2. TreeHeight \div 2 \in 0 .. TreeHeight
    BY TreePowers
  <2> QED
    BY <2>1, <2>2, TreePowers
<1>3. OuterTurn(p, t, i) = done
  <2>1. For(2^LowOf(r), LAMBDA u, j : AddLeaf(r[1], u, r[2], r[3], r[4] * 2^LowOf(r) + j), t)
          = Inner!TheFor(r, 2^LowOf(r), t)
    BY DEF InnerTurn, For, Inner!TheFor, Inner!For
  <2>2. OuterTurn(p, t, i) =
          For(2^LowOf(r), LAMBDA u, j : AddLeaf(r[1], u, r[2], r[3], r[4] * 2^LowOf(r) + j), t)
    BY <1>1, <1>2 DEF OuterTurn, For
  <2> QED
    BY <2>1, <2>2
<1>4. InitInv(r, t, 0)
  BY <1>1 DEF InitInv
<1> HIDE DEF b
<1>5. ASSUME NEW u, NEW j \in 0 .. b - 1, InitInv(r, u, j)
      PROVE  InitInv(r, InnerTurn(r, u, j), j + 1)
  <2> DEFINE leaf == r[4] * 2^LowOf(r) + j
  <2>1. InnerTurn(r, u, j) = AddLeaf(r[1], u, r[2], r[3], leaf)
    BY DEF InnerTurn
  <2> HIDE DEF leaf
  <2>2. Steady(r[1], u, AddLeaf(r[1], u, r[2], r[3], leaf))
    BY <1>1, <1>5, AddLeafSteady DEF InitInv
  <2> QED
    BY <1>5, <2>1, <2>2 DEF InitInv, Steady
<1>6. InitInv(r, done, b)
  BY <1>2, <1>4, <1>5, Inner!ForRule
<1> HIDE DEF done
<1> QED
  BY <1>1, <1>3, <1>6 DEF InitInv

\* A first tree, whatever the memory held, has no instance at work.
LEMMA TreeSettled ==
  ASSUME NEW par, Sized(par), NEW s, NEW seed, NEW addr, Shaped(par, s)
  PROVE  LET u == treehash_init(par, s, seed, addr).state
         IN  Shaped(par, u) /\ Settled(u)
<1> DEFINE p == <<par, seed, addr>>
           k == 2^(par.tree_height - LowOf(p))
           first == Cleared(s)
           done == Outer!TheFor(p, k, first)
           th == [i \in DOMAIN s.treehash |->
                   [s.treehash[i] EXCEPT !.h = i, !.completed = 1, !.stackusage = 0]]
           o == s.stackoffset
           u == InitEnd(s, done)
<1>1. treehash_init(par, s, seed, addr).state = u
  <2>1. done = Built(p, s)
    BY DEF Built
  <2> HIDE DEF done
  <2> QED
    BY <2>1, InitIs
<1>2. first = [[s EXCEPT !.stackoffset = 0] EXCEPT !.treehash = th]
  BY DEF Cleared
<1>3. /\ DOMAIN th = DOMAIN s.treehash
      /\ \A j \in DOMAIN s.treehash :
           /\ {"h", "next_idx", "stackusage", "completed", "node"} \subseteq DOMAIN th[j]
           /\ th[j].completed = 1
  <2> SUFFICES ASSUME NEW j \in DOMAIN s.treehash
               PROVE  /\ {"h", "next_idx", "stackusage", "completed", "node"} \subseteq DOMAIN th[j]
                      /\ th[j].completed = 1
    OBVIOUS
  <2>1. {"h", "next_idx", "stackusage", "completed", "node"} \subseteq DOMAIN s.treehash[j]
    BY DEF Shaped
  <2>2. th[j] = [s.treehash[j] EXCEPT !.h = j, !.completed = 1, !.stackusage = 0]
    OBVIOUS
  <2> HIDE DEF th
  <2> QED
    BY <2>1, <2>2
<1>4. p[1] = par
  OBVIOUS
<1>5. k \in Nat
  <2>1. LowOf(p) = TreeHeight \div 2 /\ par.tree_height = TreeHeight
    BY <1>4, InstancesNat DEF LowOf
  <2>2. TreeHeight - (TreeHeight \div 2) \in 0 .. TreeHeight
    BY TreePowers
  <2> QED
    BY <2>1, <2>2, TreePowers
<1>6. o \in Int
  BY DEF Shaped
<1> HIDE DEF p, first, th, k, o
<1>7. DOMAIN first = DOMAIN s /\ first.treehash = th /\ first.stackoffset = 0
  BY <1>2 DEF Shaped
<1>8. InitInv(p, first, 0)
  BY <1>3, <1>4, <1>7 DEF InitInv, Shaped, Settled
<1>9. ASSUME NEW t, NEW i \in 0 .. k - 1, InitInv(p, t, i)
      PROVE  InitInv(p, OuterTurn(p, t, i), i + 1)
  BY <1>4, <1>9, OuterKeeps
<1>10. InitInv(p, done, k)
  BY <1>5, <1>8, <1>9, Outer!ForRule
<1> HIDE DEF done
<1>11. Shaped(par, done) /\ Settled(done)
  BY <1>4, <1>10 DEF InitInv
<1>12. DOMAIN u = DOMAIN done /\ u.treehash = done.treehash /\ u.stackoffset = o
  BY <1>11 DEF Shaped, InitEnd, o
<1> HIDE DEF u
<1>13. Shaped(par, u) /\ Settled(u)
  BY <1>6, <1>11, <1>12 DEF Shaped, Settled
<1> QED
  BY <1>1, <1>13

\* A state written to the key and read back.
LEMMA SerializedIs ==
  ASSUME NEW par, NEW s, Shaped(par, s)
  PROVE  /\ Shaped(par, Serialized(s))
         /\ Settled(s) => Settled(Serialized(s))
         /\ s.next_leaf \in Nat /\ s.next_leaf < UINT_SPACE =>
              Serialized(s).next_leaf = s.next_leaf
<1> DEFINE th == [i \in DOMAIN s.treehash |-> StoredInstance(s.treehash[i])]
           o == Unsigned(s.stackoffset)
           n == Unsigned(s.next_leaf)
           u == Serialized(s)
<1>1. u = [[[s EXCEPT !.stackoffset = o] EXCEPT !.next_leaf = n] EXCEPT !.treehash = th]
  BY DEF Serialized
<1>2. /\ DOMAIN th = DOMAIN s.treehash
      /\ \A j \in DOMAIN s.treehash :
           /\ {"h", "next_idx", "stackusage", "completed", "node"} \subseteq DOMAIN th[j]
           /\ s.treehash[j].completed = 1 => th[j].completed = 1
  <2> SUFFICES ASSUME NEW j \in DOMAIN s.treehash
               PROVE  /\ {"h", "next_idx", "stackusage", "completed", "node"} \subseteq DOMAIN th[j]
                      /\ s.treehash[j].completed = 1 => th[j].completed = 1
    OBVIOUS
  <2> DEFINE inst == s.treehash[j]
             a == inst.h % 256
             b == Unsigned(inst.next_idx)
             c == inst.stackusage % 256
             d == inst.completed % 256
  <2>1. {"h", "next_idx", "stackusage", "completed", "node"} \subseteq DOMAIN inst
    BY DEF Shaped
  <2>2. th[j] = [[[[inst EXCEPT !.h = a] EXCEPT !.next_idx = b] EXCEPT !.stackusage = c]
                   EXCEPT !.completed = d]
    BY DEF StoredInstance
  <2>3. inst.completed = 1 => d = 1
    OBVIOUS
  <2> HIDE DEF th, inst, a, b, c, d
  <2>4. {"h", "next_idx", "stackusage", "completed", "node"} \subseteq DOMAIN th[j]
        /\ th[j].completed = d
    BY <2>1, <2>2
  <2> QED
    BY <2>3, <2>4 DEF inst
<1>3. o \in Int
  BY UnsignedAssumption DEF Shaped, Unsigned
<1>4. s.next_leaf \in Nat /\ s.next_leaf < UINT_SPACE => n = s.next_leaf
  BY UnsignedAssumption DEF Unsigned
<1> HIDE DEF th, o, n, u
<1>5. u.treehash = th /\ u.stackoffset = o /\ u.next_leaf = n /\ DOMAIN u = DOMAIN s
  BY <1>1 DEF Shaped
<1>6. Shaped(par, u) /\ (Settled(s) => Settled(u))
  BY <1>2, <1>3, <1>5 DEF Shaped, Settled
<1> QED
  BY <1>4, <1>5, <1>6 DEF u
-----------------------------------------------------------------------------

\* The loop of treehash_update, called with p: lv, the state before, the seed
\* and the address, and where the tail nodes of lv begin and how many leaves
\* they stand for.
More(lv, w) ==
  /\ w.state.treehash[lv].stackusage > 0
  /\ w.state.stacklevels[w.state.stackoffset - 1] = w.height

Hashed(p, w) ==
  [node   |-> thash_h(w.state.stack[w.state.stackoffset - 1], w.node, p[3], p[4],
                      w.height, Shr(p[2].treehash[p[1]].next_idx, w.height + 1)),
   height |-> w.height + 1,
   state  |-> [w.state EXCEPT !.treehash[p[1]].stackusage = @ - 1, !.stackoffset = @ - 1]]

UpdateTurn(p, w, i) == IF More(p[1], w) THEN Hashed(p, w) ELSE w

\* n nodes have been taken off the stack.
Taken(lv, s, t, n) ==
  /\ DOMAIN t = DOMAIN s /\ t.next_leaf = s.next_leaf /\ t.stacklevels = s.stacklevels
  /\ t.stackoffset = s.stackoffset - n
  /\ DOMAIN t.treehash = DOMAIN s.treehash
  /\ \A j \in DOMAIN s.treehash :
       /\ DOMAIN t.treehash[j] = DOMAIN s.treehash[j]
       /\ j # lv => t.treehash[j] = s.treehash[j]
       /\ t.treehash[j].h = s.treehash[j].h
       /\ t.treehash[j].completed = s.treehash[j].completed
  /\ lv \in DOMAIN s.treehash /\ s.treehash[lv].stackusage \in Int =>
       t.treehash[lv].stackusage = s.treehash[lv].stackusage - n

(***************************************************************************)
(* Tail nodes of an instance of height a, at the positions from b to below *)
(* o of a stack: their heights fall, and up[q] is the number of leaves     *)
(* under the nodes below position q.                                       *)
(***************************************************************************)
Tower(lev, b, o, a, up) ==
  /\ b \in Int /\ o \in Int /\ b <= o
  /\ up[b] = 0
  /\ \A q \in b .. o : up[q] \in Nat
  /\ \A q \in b .. o - 1 :
       /\ q \in DOMAIN lev /\ lev[q] \in 0 .. a - 1
       /\ up[q + 1] = up[q] + 2^lev[q]
       /\ up[q + 1] + 2^lev[q] <= 2^a
  /\ \A q, r \in b .. o - 1 : q < r => lev[q] > lev[r]

\* lv has such tail nodes.
Stands(lv, s, b, up) ==
  /\ lv \in DOMAIN s.treehash
  /\ s.treehash[lv].stackusage = s.stackoffset - b
  /\ Tower(s.stacklevels, b, s.stackoffset, lv, up)

\* The new node stands for the new leaf and those of the nodes taken off.
Climbs(lv, s, b, up, n) ==
  LET v == s.stackoffset - n IN
  /\ v >= b /\ n <= lv
  /\ up[v] + 2^n = up[s.stackoffset] + 1
  /\ v > b => s.stacklevels[v - 1] >= n

UpdateInv(p, w, i) ==
  /\ {"node", "height", "state"} \subseteq DOMAIN w
  /\ w.height \in 0 .. i
  /\ w.height < i => ~ More(p[1], w)
  /\ Taken(p[1], p[2], w.state, w.height)
  /\ Stands(p[1], p[2], p[5], p[6]) => Climbs(p[1], p[2], p[5], p[6], w.height)

Update == INSTANCE LoopRules WITH Body <- UpdateTurn, Inv <- UpdateInv

UpdateStart(p) ==
  [node |-> gen_leaf_wots(p[3], p[4], p[2].treehash[p[1]].next_idx), height |-> 0,
   state |-> p[2]]

\* The end of treehash_update.
UpdateEnd(lv, done) ==
  LET t == done.state IN
  IF done.height = t.treehash[lv].h
  THEN [t EXCEPT !.treehash[lv].node = done.node,
                 !.treehash[lv].completed = 1]
  ELSE [t EXCEPT !.stack = Put(@, t.stackoffset, done.node),
                 !.stacklevels = Put(@, t.stackoffset, done.height),
                 !.stackoffset = @ + 1,
                 !.treehash[lv].stackusage = @ + 1,
                 !.treehash[lv].next_idx = @ + 1]

\* treehash_update is that loop and that end.
LEMMA UpdateIs ==
  ASSUME NEW par, NEW s, NEW lv, NEW seed, NEW addr, NEW b, NEW up
  PROVE  treehash_update(par, s, lv, seed, addr) =
           UpdateEnd(lv, Update!TheFor(<<lv, s, seed, addr, b, up>>, par.tree_height,
                                       UpdateStart(<<lv, s, seed, addr, b, up>>)))
<1> DEFINE p == <<lv, s, seed, addr, b, up>>
<1>1. p[1] = lv /\ p[2] = s /\ p[3] = seed /\ p[4] = addr
  OBVIOUS
<1> HIDE DEF p
<1>2. treehash_update(par, p[2], p[1], p[3], p[4]) =
        UpdateEnd(p[1], Update!TheFor(p, par.tree_height, UpdateStart(p)))
  BY DEF treehash_update, UpdateEnd, UpdateStart, UpdateTurn, More, Hashed,
         While, For, Update!TheFor, Update!For
<1> QED
  BY <1>1, <1>2 DEF p

\* The state after a turn.
LEMMA HashedTaken ==
  ASSUME NEW par, NEW p, NEW w, NEW n \in Nat, Shaped(par, p[2]),
         Taken(p[1], p[2], w.state, n)
  PROVE  Taken(p[1], p[2], Hashed(p, w).state, n + 1)
<1> DEFINE lv == p[1]
           s == p[2]
           t == w.state
           th == [t.treehash EXCEPT ![lv].stackusage = @ - 1]
           o == t.stackoffset - 1
           u == Hashed(p, w).state
<1>1. u = [[t EXCEPT !.treehash = th] EXCEPT !.stackoffset = o]
  BY DEF Hashed
<1>2. DOMAIN t = DOMAIN s /\ DOMAIN t.treehash = DOMAIN s.treehash
      /\ t.stackoffset = s.stackoffset - n /\ s.stackoffset \in Int
  BY DEF Taken, Shaped
<1>3. ASSUME NEW j \in DOMAIN s.treehash
      PROVE  /\ DOMAIN th[j] = DOMAIN s.treehash[j]
             /\ j # lv => th[j] = s.treehash[j]
             /\ th[j].h = s.treehash[j].h
             /\ th[j].completed = s.treehash[j].completed
             /\ j = lv => th[j].stackusage = t.treehash[j].stackusage - 1
  <2>1. {"h", "stackusage", "completed"} \subseteq DOMAIN t.treehash[j]
        /\ DOMAIN t.treehash[j] = DOMAIN s.treehash[j]
        /\ (j # lv => t.treehash[j] = s.treehash[j])
        /\ t.treehash[j].h = s.treehash[j].h
        /\ t.treehash[j].completed = s.treehash[j].completed
    BY DEF Shaped, Taken
  <2>2. j \in DOMAIN t.treehash
    BY <1>2
  <2>3. CASE j = lv
    <3>1. th[j] = [t.treehash[j] EXCEPT !.stackusage = @ - 1]
      BY <2>2, <2>3
    <3> HIDE DEF th, t, s, lv
    <3> QED
      BY <2>1, <2>3, <3>1
  <2>4. CASE j # lv
    <3>1. th[j] = t.treehash[j]
      BY <2>2, <2>4
    <3> HIDE DEF th, t, s, lv
    <3> QED
      BY <2>1, <2>4, <3>1
  <2> QED
    BY <2>3, <2>4
<1>4. DOMAIN th = DOMAIN s.treehash /\ o = s.stackoffset - (n + 1)
  BY <1>2
<1>5. lv \in DOMAIN s.treehash /\ s.treehash[lv].stackusage \in Int =>
        th[lv].stackusage = s.treehash[lv].stackusage - (n + 1)
  <2> SUFFICES ASSUME lv \in DOMAIN s.treehash, s.treehash[lv].stackusage \in Int
               PROVE  th[lv].stackusage = s.treehash[lv].stackusage - (n + 1)
    OBVIOUS
  <2>1. t.treehash[lv].stackusage = s.treehash[lv].stackusage - n
    BY DEF Taken
  <2>2. th[lv].stackusage = t.treehash[lv].stackusage - 1
    BY <1>3
  <2> HIDE DEF th, t, s, lv
  <2> QED
    BY <2>1, <2>2
<1> HIDE DEF th, o, u
<1>6. /\ u.treehash = th /\ u.stackoffset = o /\ DOMAIN u = DOMAIN t
      /\ u.next_leaf = t.next_leaf /\ u.stacklevels = t.stacklevels
  BY <1>1, <1>2 DEF Shaped
<1>7. t.next_leaf = s.next_leaf /\ t.stacklevels = s.stacklevels
  BY DEF Taken
<1> HIDE DEF lv, s, t
<1>8. Taken(lv, s, u, n + 1)
  BY <1>2, <1>3, <1>4, <1>5, <1>6, <1>7 DEF Taken
<1> QED
  BY <1>8 DEF lv, s, u

\* Each power is twice the one before.
LEMMA PowersUp == \A a \in 0 .. TreeHeight : 2^(a + 1) = 2 * 2^a
<1>1. TreeHeight \in Nat /\ TreeHeight * Layers \in Nat /\ TreeHeight <= TreeHeight * Layers
  <2>1. 1 \in 0 .. Layers /\ 1 * TreeHeight = TreeHeight
    BY Sizes
  <2>2. 1 * TreeHeight \in 0 .. TreeHeight * Layers
    BY <2>1, Sizes
  <2> QED
    BY <2>1, <2>2, Sizes
<1>2. ASSUME NEW a \in 0 .. TreeHeight
      PROVE  a \in 0 .. TreeHeight * Layers
  <2> DEFINE m == TreeHeight * Layers
  <2>1. TreeHeight \in Nat /\ m \in Nat /\ TreeHeight <= m
    BY <1>1
  <2> HIDE DEF m
  <2>2. a \in 0 .. m
    BY <2>1
  <2> QED
    BY <2>2 DEF m
<1> QED
  BY <1>2, PowersAssumption DEF PowersOfTwo

\* One node higher.
LEMMA ClimbsOn ==
  ASSUME NEW lv \in 0 .. TreeHeight, NEW s, NEW b, NEW up, NEW n \in Nat,
         Stands(lv, s, b, up), Climbs(lv, s, b, up, n),
         s.treehash[lv].stackusage - n > 0,
         s.stacklevels[(s.stackoffset - n) - 1] = n
  PROVE  Climbs(lv, s, b, up, n + 1)
<1> DEFINE o == s.stackoffset
           lev == s.stacklevels
           v == o - n
<1>1. Tower(lev, b, o, lv, up) /\ s.treehash[lv].stackusage = o - b
  BY DEF Stands
<1>2. v >= b /\ n <= lv /\ up[v] + 2^n = up[o] + 1
  BY DEF Climbs
<1>3. b \in Int /\ o \in Int /\ b <= o
  BY <1>1 DEF Tower
<1>4. v > b /\ v - 1 \in b .. o - 1 /\ lev[v - 1] = n /\ (v - 1) + 1 = v /\ v \in b .. o
      /\ v - 1 \in b .. o /\ o \in b .. o
  BY <1>1, <1>2, <1>3
<1>5. n \in 0 .. lv - 1 /\ up[v] = up[v - 1] + 2^n
  BY <1>1, <1>4 DEF Tower
<1>6. n \in 0 .. TreeHeight /\ n + 1 <= lv
  BY <1>5, TreePowers
<1>7. 2^(n + 1) = 2 * 2^n /\ 2^n \in Nat
  BY <1>6, PowersUp, TreePowers
<1>8. up[v] \in Nat /\ up[v - 1] \in Nat /\ up[o] \in Nat
  BY <1>1, <1>4 DEF Tower
<1>9. up[v - 1] + 2^(n + 1) = up[o] + 1
  <2> DEFINE x == up[v]
             y == up[v - 1]
             z == up[o]
  <2>1. PICK k \in Nat : k = 2^n
    BY <1>7
  <2>2. x \in Nat /\ y \in Nat /\ z \in Nat /\ x + k = z + 1 /\ x = y + k
    BY <1>2, <1>5, <1>8, <2>1
  <2> HIDE DEF x, y, z
  <2>3. y + 2 * k = z + 1
    BY <2>2
  <2> QED
    BY <1>7, <2>1, <2>3 DEF y, z
<1>10. v - 1 > b => lev[(v - 1) - 1] >= n + 1
  <2> SUFFICES ASSUME v - 1 > b
               PROVE  lev[(v - 1) - 1] >= n + 1
    OBVIOUS
  <2> DEFINE r == (v - 1) - 1
  <2>1. r \in b .. o - 1 /\ r < v - 1
    BY <1>3, <1>4
  <2> HIDE DEF r
  <2>2. lev[r] > lev[v - 1] /\ lev[r] \in 0 .. lv - 1
    BY <1>1, <1>4, <2>1 DEF Tower
  <2>3. lev[r] >= n + 1
    BY <1>4, <2>2
  <2> QED
    BY <2>3 DEF r
<1>11. s.stackoffset - (n + 1) = v - 1
  BY <1>3
<1> HIDE DEF o, lev, v
<1>12. v - 1 >= b
  BY <1>3, <1>4
<1> QED
  BY <1>6, <1>9, <1>10, <1>11, <1>12 DEF Climbs, o, lev

\* A turn.
LEMMA UpdateKeeps ==
  ASSUME NEW par, NEW p, NEW w, NEW i \in Nat, Shaped(par, p[2]), UpdateInv(p, w, i),
         Stands(p[1], p[2], p[5], p[6]) => p[1] \in 0 .. TreeHeight
  PROVE  UpdateInv(p, UpdateTurn(p, w, i), i + 1)
<1>1. CASE ~ More(p[1], w)
  <2>1. UpdateTurn(p, w, i) = w
    BY <1>1 DEF UpdateTurn
  <2>2. w.height \in 0 .. i + 1
    BY DEF UpdateInv
  <2> QED
    BY <1>1, <2>1, <2>2 DEF UpdateInv
<1>2. CASE More(p[1], w)
  <2> DEFINE v == Hashed(p, w)
  <2>1. UpdateTurn(p, w, i) = v
    BY <1>2 DEF UpdateTurn
  <2>2. w.height = i /\ w.height \in Nat
    BY <1>2 DEF UpdateInv
  <2>3. v.height = i + 1 /\ {"node", "height", "state"} \subseteq DOMAIN v
    BY <2>2 DEF Hashed
  <2>4. Taken(p[1], p[2], v.state, i + 1)
    BY <2>2, HashedTaken DEF UpdateInv
  <2>5. ASSUME Stands(p[1], p[2], p[5], p[6])
        PROVE  Climbs(p[1], p[2], p[5], p[6], i + 1)
    <3>1. Taken(p[1], p[2], w.state, i) /\ Climbs(p[1], p[2], p[5], p[6], i)
      BY <2>2, <2>5 DEF UpdateInv
    <3>2. p[2].treehash[p[1]].stackusage \in Int
      BY <2>5 DEF Stands, Tower
    <3>3. w.state.treehash[p[1]].stackusage = p[2].treehash[p[1]].stackusage - i
          /\ w.state.stackoffset = p[2].stackoffset - i
          /\ w.state.stacklevels = p[2].stacklevels
      BY <2>5, <3>1, <3>2 DEF Taken, Stands
    <3>4. /\ p[2].treehash[p[1]].stackusage - i > 0
          /\ p[2].stacklevels[(p[2].stackoffset - i) - 1] = i
      BY <1>2, <2>2, <3>3 DEF More
    <3> QED
      BY <2>5, <3>1, <3>4, ClimbsOn
  <2> HIDE DEF v
  <2>6. UpdateInv(p, v, i + 1)
    BY <2>3, <2>4, <2>5 DEF UpdateInv
  <2> QED
    BY <2>1, <2>6
<1> QED
  BY <1>1, <1>2

\* The loop: nodes are taken off the stack as long as the topmost has the
\* height reached.
LEMMA UpdateRuns ==
  ASSUME NEW par, Sized(par), NEW s, NEW lv, NEW seed, NEW addr, NEW b, NEW up,
         Shaped(par, s), Stands(lv, s, b, up) => lv \in 0 .. TreeHeight
  PROVE  \E w : /\ treehash_update(par, s, lv, seed, addr) = UpdateEnd(lv, w)
                /\ w.height \in 0 .. TreeHeight
                /\ w.height < TreeHeight => ~ More(lv, w)
                /\ Taken(lv, s, w.state, w.height)
                /\ Stands(lv, s, b, up) => Climbs(lv, s, b, up, w.height)
<1> DEFINE p == <<lv, s, seed, addr, b, up>>
           w == Update!TheFor(p, TreeHeight, UpdateStart(p))
<1>1. p[1] = lv /\ p[2] = s /\ p[5] = b /\ p[6] = up
  OBVIOUS
<1>2. par.tree_height = TreeHeight /\ TreeHeight \in Nat
  BY InstancesNat
<1>3. treehash_update(par, s, lv, seed, addr) = UpdateEnd(lv, w)
  BY <1>2, UpdateIs
<1> DEFINE start == UpdateStart(p)
<1> HIDE DEF p
<1>4. start.height = 0 /\ start.state = s /\ {"node", "height", "state"} \subseteq DOMAIN start
  BY <1>1 DEF UpdateStart
<1> HIDE DEF start
<1>5. Taken(lv, s, s, 0)
  BY DEF Taken, Shaped
<1>6. Stands(lv, s, b, up) => Climbs(lv, s, b, up, 0)
  <2> SUFFICES ASSUME Stands(lv, s, b, up)
               PROVE  Climbs(lv, s, b, up, 0)
    OBVIOUS
  <2> DEFINE o == s.stackoffset
             lev == s.stacklevels
  <2>1. Tower(lev, b, o, lv, up) /\ lv \in 0 .. TreeHeight
    BY DEF Stands
  <2>2. b \in Int /\ o \in Int /\ b <= o /\ o - 0 = o /\ o \in b .. o
    BY <2>1 DEF Tower
  <2>3. 2^0 = 1 /\ up[o] \in Nat
    BY <2>1, <2>2, Powers DEF Tower
  <2>4. o > b => lev[o - 1] >= 0
    <3>1. o > b => o - 1 \in b .. o - 1
      BY <2>2
    <3>2. o > b => lev[o - 1] \in 0 .. lv - 1
      BY <2>1, <3>1 DEF Tower
    <3> QED
      BY <2>1, <3>2
  <2> HIDE DEF lev, o
  <2> QED
    BY <2>1, <2>2, <2>3, <2>4 DEF Climbs, o, lev
<1>7. UpdateInv(p, start, 0)
  BY <1>1, <1>4, <1>5, <1>6 DEF UpdateInv
<1>8. ASSUME NEW x, NEW i \in 0 .. TreeHeight - 1, UpdateInv(p, x, i)
      PROVE  UpdateInv(p, UpdateTurn(p, x, i), i + 1)
  <2>1. i \in Nat
    BY <1>2
  <2> QED
    BY <1>1, <1>8, <2>1, UpdateKeeps
<1>9. UpdateInv(p, w, TreeHeight)
  <2> HIDE DEF w
  <2>1. UpdateInv(p, Update!TheFor(p, TreeHeight, start), TreeHeight)
    BY <1>2, <1>7, <1>8, Update!ForRule
  <2> QED
    BY <2>1 DEF w, start
<1> HIDE DEF w
<1> QED
  BY <1>1, <1>3, <1>9 DEF UpdateInv

\* lv has delivered its node, or has a tail node of height n more.
Delivered(lv, s, u, n) ==
  /\ u.stackoffset = s.stackoffset - n
  /\ lv \in DOMAIN s.treehash => u.treehash[lv].completed = 1

Stacked(lv, s, u, n) ==
  /\ u.stackoffset = s.stackoffset - n + 1
  /\ u.stacklevels = Put(s.stacklevels, s.stackoffset - n, n)
  /\ lv \in DOMAIN s.treehash =>
       /\ u.treehash[lv].completed = s.treehash[lv].completed
       /\ u.treehash[lv].h = s.treehash[lv].h
       /\ s.treehash[lv].stackusage \in Int =>
            u.treehash[lv].stackusage = s.treehash[lv].stackusage - n + 1

\* The other instances are as they were, and no leaf was counted.
OnlyAt(par, lv, s, u) ==
  /\ Shaped(par, u) /\ u.next_leaf = s.next_leaf
  /\ \A j \in DOMAIN s.treehash : j # lv => u.treehash[j] = s.treehash[j]

\* The end of treehash_update.
LEMMA UpdateEnds ==
  ASSUME NEW par, NEW s, NEW lv, NEW w, Shaped(par, s), w.height \in Nat,
         Taken(lv, s, w.state, w.height)
  PROVE  /\ OnlyAt(par, lv, s, UpdateEnd(lv, w))
         /\ w.height = w.state.treehash[lv].h =>
              Delivered(lv, s, UpdateEnd(lv, w), w.height)
         /\ w.height # w.state.treehash[lv].h =>
              Stacked(lv, s, UpdateEnd(lv, w), w.height)
<1> DEFINE t == w.state
           n == w.height
           u == UpdateEnd(lv, w)
<1>1. /\ DOMAIN t = DOMAIN s /\ t.next_leaf = s.next_leaf /\ t.stacklevels = s.stacklevels
      /\ t.stackoffset = s.stackoffset - n /\ DOMAIN t.treehash = DOMAIN s.treehash
      /\ s.stackoffset \in Int /\ n \in Nat
      /\ {"stack", "stackoffset", "stacklevels", "auth", "keep", "treehash", "retain",
          "next_leaf"} \subseteq DOMAIN t
  BY DEF Taken, Shaped
<1>2. \A j \in DOMAIN s.treehash :
        /\ {"h", "next_idx", "stackusage", "completed", "node"} \subseteq DOMAIN t.treehash[j]
        /\ j # lv => t.treehash[j] = s.treehash[j]
        /\ t.treehash[j].h = s.treehash[j].h
        /\ t.treehash[j].completed = s.treehash[j].completed
  BY DEF Taken, Shaped
<1>3. lv \in DOMAIN s.treehash /\ s.treehash[lv].stackusage \in Int =>
        t.treehash[lv].stackusage = s.treehash[lv].stackusage - n
  BY DEF Taken
<1>4. DOMAIN s.treehash = 0 .. Instances(par) - 1
  BY DEF Shaped
<1>5. CASE n = t.treehash[lv].h
  <2> DEFINE inst == [[t.treehash[lv] EXCEPT !.node = w.node] EXCEPT !.completed = 1]
             th == [t.treehash EXCEPT ![lv] = inst]
  <2>1. u = [t EXCEPT !.treehash = th]
    <3>1. u = [t EXCEPT !.treehash[lv].node = w.node, !.treehash[lv].completed = 1]
      BY <1>5 DEF UpdateEnd
    <3> DEFINE th1 == [t.treehash EXCEPT ![lv].node = w.node]
               y == [t EXCEPT !.treehash = th1]
    <3>2. y.treehash = th1 /\ u = [y EXCEPT !.treehash[lv].completed = 1]
      BY <1>1, <3>1
    <3> DEFINE th2 == [th1 EXCEPT ![lv].completed = 1]
    <3>3. th2 = th
      <4>1. CASE lv \in DOMAIN t.treehash
        BY <4>1
      <4>2. CASE lv \notin DOMAIN t.treehash
        BY <4>2
      <4> QED
        BY <4>1, <4>2
    <3>4. u = [y EXCEPT !.treehash = th2]
      <4> HIDE DEF th1, y, u
      <4> QED
        BY <3>2
    <3> HIDE DEF th1, th2, th, u
    <3> QED
      BY <3>3, <3>4
  <2>2. lv \in DOMAIN s.treehash =>
          /\ {"h", "next_idx", "stackusage", "completed", "node"} \subseteq DOMAIN inst
          /\ inst.completed = 1
    BY <1>2
  <2> HIDE DEF inst
  <2>3. /\ DOMAIN th = DOMAIN s.treehash
        /\ lv \in DOMAIN s.treehash => th[lv] = inst
        /\ \A j \in DOMAIN s.treehash : j # lv => th[j] = s.treehash[j]
        /\ \A j \in DOMAIN s.treehash :
             {"h", "next_idx", "stackusage", "completed", "node"} \subseteq DOMAIN th[j]
    BY <1>1, <1>2, <2>2
  <2> HIDE DEF th, u
  <2>4. /\ u.treehash = th /\ u.stackoffset = t.stackoffset /\ u.next_leaf = t.next_leaf
        /\ DOMAIN u = DOMAIN t
    BY <1>1, <2>1
  <2> HIDE DEF t, n
  <2>5. OnlyAt(par, lv, s, u)
    BY <1>1, <1>4, <2>3, <2>4 DEF OnlyAt, Shaped
  <2>6. Delivered(lv, s, u, n)
    BY <1>1, <2>2, <2>3, <2>4 DEF Delivered
  <2> QED
    BY <1>5, <2>5, <2>6 DEF u, n, t
<1>6. CASE n # t.treehash[lv].h
  <2> DEFINE stack == Put(t.stack, t.stackoffset, w.node)
             levels == Put(t.stacklevels, t.stackoffset, n)
             o == t.stackoffset + 1
             inst == [[t.treehash[lv] EXCEPT !.stackusage = @ + 1] EXCEPT !.next_idx = @ + 1]
             th == [t.treehash EXCEPT ![lv] = inst]
  <2>1. u = [[[[t EXCEPT !.stack = stack] EXCEPT !.stacklevels = levels]
                 EXCEPT !.stackoffset = o] EXCEPT !.treehash = th]
    <3>1. u = [t EXCEPT !.stack = Put(@, t.stackoffset, w.node),
                        !.stacklevels = Put(@, t.stackoffset, n),
                        !.stackoffset = @ + 1,
                        !.treehash[lv].stackusage = @ + 1,
                        !.treehash[lv].next_idx = @ + 1]
      BY <1>6 DEF UpdateEnd
    <3>2. u = [[[[t EXCEPT !.stack = stack] EXCEPT !.stacklevels = levels]
                 EXCEPT !.stackoffset = o] EXCEPT !.treehash[lv].stackusage = @ + 1,
                                                  !.treehash[lv].next_idx = @ + 1]
      BY <1>1, <3>1
    <3> DEFINE x == [[[t EXCEPT !.stack = stack] EXCEPT !.stacklevels = levels]
                      EXCEPT !.stackoffset = o]
    <3>3. x.treehash = t.treehash /\ "treehash" \in DOMAIN x
      BY <1>1
    <3>4. u = [x EXCEPT !.treehash[lv].stackusage = @ + 1, !.treehash[lv].next_idx = @ + 1]
      BY <3>2
    <3> HIDE DEF x, u
    <3> DEFINE th1 == [t.treehash EXCEPT ![lv].stackusage = @ + 1]
               y == [x EXCEPT !.treehash = th1]
    <3>5. y.treehash = th1 /\ u = [y EXCEPT !.treehash[lv].next_idx = @ + 1]
      BY <3>3, <3>4
    <3> DEFINE th2 == [th1 EXCEPT ![lv].next_idx = @ + 1]
    <3>6. th2 = th
      <4>1. CASE lv \in DOMAIN t.treehash
        BY <4>1
      <4>2. CASE lv \notin DOMAIN t.treehash
        BY <4>2
      <4> QED
        BY <4>1, <4>2
    <3>7. u = [y EXCEPT !.treehash = th2]
      <4> HIDE DEF th1, y
      <4> QED
        BY <3>5
    <3> HIDE DEF th1, th2, th
    <3>8. u = [x EXCEPT !.treehash = th]
      BY <3>6, <3>7
    <3> QED
      BY <3>8 DEF x
  <2>2. lv \in DOMAIN s.treehash =>
          /\ {"h", "next_idx", "stackusage", "completed", "node"} \subseteq DOMAIN inst
          /\ inst.completed = s.treehash[lv].completed
          /\ inst.h = s.treehash[lv].h
          /\ inst.stackusage = t.treehash[lv].stackusage + 1
    BY <1>2
  <2> HIDE DEF inst
  <2>3. /\ DOMAIN th = DOMAIN s.treehash
        /\ lv \in DOMAIN s.treehash => th[lv] = inst
        /\ \A j \in DOMAIN s.treehash : j # lv => th[j] = s.treehash[j]
        /\ \A j \in DOMAIN s.treehash :
             {"h", "next_idx", "stackusage", "completed", "node"} \subseteq DOMAIN th[j]
    BY <1>1, <1>2, <2>2
  <2>4. o \in Int /\ o = s.stackoffset - n + 1
        /\ levels = Put(s.stacklevels, s.stackoffset - n, n)
    BY <1>1
  <2> HIDE DEF th, u, stack, levels, o
  <2>5. /\ u.treehash = th /\ u.stackoffset = o /\ u.next_leaf = t.next_leaf
        /\ DOMAIN u = DOMAIN t /\ u.stacklevels = levels
    BY <1>1, <2>1
  <2>6. lv \in DOMAIN s.treehash /\ s.treehash[lv].stackusage \in Int =>
          inst.stackusage = s.treehash[lv].stackusage - n + 1
    BY <1>1, <1>3, <2>2
  <2> HIDE DEF t, n
  <2>7. OnlyAt(par, lv, s, u)
    BY <1>1, <1>4, <2>3, <2>4, <2>5 DEF OnlyAt, Shaped
  <2>8. Stacked(lv, s, u, n)
    BY <1>1, <2>2, <2>3, <2>4, <2>5, <2>6 DEF Stacked
  <2> QED
    BY <1>6, <2>7, <2>8 DEF u, n, t
<1> QED
  BY <1>5, <1>6

\* Whichever instance is given a leaf.
LEMMA UpdateOnly ==
  ASSUME NEW par, Sized(par), NEW s, NEW lv, NEW seed, NEW addr, Shaped(par, s)
  PROVE  OnlyAt(par, lv, s, treehash_update(par, s, lv, seed, addr))
<1>1. Stands(lv, s, 0, 0) => lv \in 0 .. TreeHeight
  BY InstancesNat DEF Stands, Shaped
<1>2. PICK w : /\ treehash_update(par, s, lv, seed, addr) = UpdateEnd(lv, w)
               /\ w.height \in 0 .. TreeHeight /\ Taken(lv, s, w.state, w.height)
  BY <1>1, UpdateRuns
<1>3. w.height \in Nat
  BY <1>2, TreePowers
<1> QED
  BY <1>2, <1>3, UpdateEnds

\* An array after Put.
LEMMA PutIs ==
  ASSUME NEW a, NEW i, NEW v
  PROVE  /\ i \in DOMAIN Put(a, i, v) /\ Put(a, i, v)[i] = v
         /\ \A q \in DOMAIN a : /\ q \in DOMAIN Put(a, i, v)
                                /\ q # i => Put(a, i, v)[q] = a[q]
  BY DEF Put

-----------------------------------------------------------------------------

(***************************************************************************)
(* Of the instances at work the first, a, has got done leaves; the others  *)
(* above it have none, and those below it have delivered.                  *)
(***************************************************************************)
Fresh(s, j) ==
  s.treehash[j].completed = 0 /\ s.treehash[j].stackusage = 0 /\ s.treehash[j].h = j

AtWork(s, a, done) ==
  /\ a \in DOMAIN s.treehash
  /\ s.treehash[a].completed = 0 /\ s.treehash[a].h = a
  /\ \E b, up : Stands(a, s, b, up) /\ up[s.stackoffset] = done
  /\ \A j \in DOMAIN s.treehash : /\ j < a => s.treehash[j].completed = 1
                                  /\ j > a => s.treehash[j].completed = 1 \/ Fresh(s, j)

\* An instance delivers after 2^a leaves.
LEMMA WorkerBound ==
  ASSUME NEW par, Sized(par), NEW s, NEW a, NEW done, Shaped(par, s), AtWork(s, a, done)
  PROVE  a \in 0 .. TreeHeight - 1 /\ a \in 0 .. Instances(par) - 1 /\ done \in 0 .. 2^a - 1
<1>1. a \in 0 .. Instances(par) - 1 /\ a \in 0 .. TreeHeight - 1 /\ a \in 0 .. TreeHeight
  BY InstancesNat DEF AtWork, Shaped
<1>2. PICK b, up : Stands(a, s, b, up) /\ up[s.stackoffset] = done
  BY DEF AtWork
<1> DEFINE o == s.stackoffset
           lev == s.stacklevels
<1>3. Tower(lev, b, o, a, up) /\ up[o] = done
  BY <1>2 DEF Stands
<1> HIDE DEF o, lev
<1>4. b \in Int /\ o \in Int /\ b <= o /\ up[b] = 0 /\ done \in Nat
  BY <1>3 DEF Tower
<1>5. 2^a \in Nat \ {0}
  BY <1>1, TreePowers
<1>6. CASE b = o
  BY <1>1, <1>3, <1>4, <1>5, <1>6
<1>7. CASE b < o
  <2>1. o - 1 \in b .. o - 1 /\ (o - 1) + 1 = o
    BY <1>4, <1>7
  <2>2. lev[o - 1] \in 0 .. a - 1 /\ done + 2^lev[o - 1] <= 2^a
    BY <1>3, <2>1 DEF Tower
  <2>3. lev[o - 1] \in 0 .. TreeHeight
    <3> DEFINE l == lev[o - 1]
    <3>1. l \in 0 .. a - 1 /\ TreeHeight \in Nat
      BY <2>2, TreePowers
    <3> HIDE DEF l
    <3>2. l \in 0 .. TreeHeight
      BY <1>1, <3>1
    <3> QED
      BY <3>2 DEF l
  <2>4. 2^lev[o - 1] \in Nat \ {0}
    BY <2>3, TreePowers
  <2> QED
    BY <1>1, <1>4, <1>5, <2>2, <2>4
<1> QED
  BY <1>4, <1>6, <1>7

\* The first instance at work is the one that needs an update most.
LEMMA Neediest ==
  ASSUME NEW par, Sized(par), NEW s, NEW a, NEW done, Shaped(par, s), AtWork(s, a, done)
  PROVE  NeediestInstance(par, s) = a
<1> DEFINE low == [i \in DOMAIN s.treehash |-> LowNode(par, s, i)]
           open == {i \in DOMAIN low : low[i] < par.tree_height}
           least == {i \in open : \A j \in open : low[i] <= low[j]}
<1>1. /\ a \in 0 .. TreeHeight - 1 /\ a \in DOMAIN s.treehash /\ par.tree_height = TreeHeight
      /\ TreeHeight \in Nat /\ DOMAIN s.treehash \subseteq 0 .. TreeHeight - 1
  BY WorkerBound, InstancesNat DEF Shaped, AtWork
<1>2. low[a] \in 0 .. a
  <2>1. low[a] = IF s.treehash[a].stackusage = 0 THEN a
                 ELSE treehash_minheight_on_stack(par, s, s.treehash[a])
    BY DEF AtWork, LowNode
  <2>2. CASE s.treehash[a].stackusage = 0
    BY <1>1, <2>1, <2>2
  <2>3. CASE s.treehash[a].stackusage # 0
    <3> DEFINE n == s.treehash[a].stackusage
               o == s.stackoffset
               lev == s.stacklevels
               nodes == {lev[o - i - 1] : i \in 0 .. n - 1}
               S == {par.tree_height} \union nodes
    <3>1. PICK b, up : Stands(a, s, b, up)
      BY DEF AtWork
    <3>2. Tower(lev, b, o, a, up) /\ n = o - b /\ n # 0
      BY <2>3, <3>1 DEF Stands
    <3>3. low[a] = Min(S)
      BY <2>1, <2>3 DEF treehash_minheight_on_stack
    <3> HIDE DEF n, o, lev
    <3>4. b \in Int /\ o \in Int /\ b <= o
      BY <3>2 DEF Tower
    <3>5. \A i \in 0 .. n - 1 : lev[o - i - 1] \in 0 .. a - 1
      <4> SUFFICES ASSUME NEW i \in 0 .. n - 1
                   PROVE  lev[o - i - 1] \in 0 .. a - 1
        OBVIOUS
      <4>1. o - i - 1 \in b .. o - 1
        BY <3>2, <3>4
      <4> QED
        BY <3>2, <4>1 DEF Tower
    <3>6. nodes \subseteq 0 .. a - 1
      BY <3>5
    <3>7. 0 \in 0 .. n - 1 /\ lev[o - 0 - 1] \in nodes
      <4>1. 0 \in 0 .. n - 1
        BY <3>2, <3>4
      <4> QED
        BY <4>1
    <3>8. S \subseteq Nat /\ S # {}
      BY <1>1, <3>6
    <3> DEFINE m == lev[o - 0 - 1]
    <3>9. m \in S /\ m \in 0 .. a - 1
      BY <3>6, <3>7
    <3> HIDE DEF S, m, nodes, low
    <3>10. Min(S) \in S /\ Min(S) <= m
      BY <3>8, <3>9, MinIs
    <3>11. Min(S) \in Nat
      BY <3>8, <3>10
    <3>12. PICK k \in Nat : k = Min(S)
      BY <3>11
    <3>13. k <= m /\ m \in 0 .. a - 1 /\ a \in Int
      BY <1>1, <3>9, <3>10, <3>12
    <3>14. k \in 0 .. a
      BY <3>13
    <3> QED
      BY <3>3, <3>12, <3>14
  <2> QED
    BY <2>2, <2>3
<1>3. \A j \in DOMAIN s.treehash : j # a => j > a \/ low[j] = TreeHeight
  <2> SUFFICES ASSUME NEW j \in DOMAIN s.treehash, j # a, ~ j > a
               PROVE  low[j] = TreeHeight
    OBVIOUS
  <2>1. j < a
    BY <1>1
  <2>2. s.treehash[j].completed = 1
    BY <2>1 DEF AtWork
  <2> QED
    BY <1>1, <2>2 DEF LowNode
<1>4. \A j \in DOMAIN s.treehash : j > a => low[j] \in {j, TreeHeight}
  <2> SUFFICES ASSUME NEW j \in DOMAIN s.treehash, j > a
               PROVE  low[j] \in {j, TreeHeight}
    OBVIOUS
  <2>1. s.treehash[j].completed = 1 \/ (s.treehash[j].completed = 0 /\ s.treehash[j].stackusage = 0)
    BY DEF AtWork, Fresh
  <2>2. low[j] = LowNode(par, s, j)
    OBVIOUS
  <2> HIDE DEF low
  <2> QED
    BY <1>1, <2>1, <2>2 DEF LowNode
<1>5. DOMAIN low = DOMAIN s.treehash
  OBVIOUS
<1>6. NeediestInstance(par, s) = IF open = {} THEN Instances(par) ELSE Min(least)
  BY DEF NeediestInstance
<1> HIDE DEF low
<1>7. a \in open /\ \A j \in open : j # a => low[a] < low[j]
  <2>1. a \in open
    BY <1>1, <1>2, <1>5
  <2>2. ASSUME NEW j \in open, j # a
        PROVE  low[a] < low[j]
    <3>1. j \in DOMAIN s.treehash /\ low[j] < TreeHeight /\ j \in Int
      BY <1>1, <1>5
    <3>2. j > a /\ low[j] = j
      BY <1>1, <1>3, <1>4, <2>2, <3>1
    <3> QED
      BY <1>1, <1>2, <3>1, <3>2
  <2> QED
    BY <2>1, <2>2
<1>8. \A j \in open : low[j] \in Int
  <2>1. \A j \in open : j = a \/ low[j] \in {j, TreeHeight} \/ low[j] = TreeHeight
    BY <1>3, <1>4, <1>5
  <2> QED
    BY <1>1, <1>2, <1>5, <2>1
<1>9. least = {a}
  <2>1. a \in least
    BY <1>2, <1>7, <1>8
  <2>2. \A j \in least : j = a
    BY <1>2, <1>7, <1>8
  <2> QED
    BY <2>1, <2>2
<1>10. Min({a}) = a
  <2>1. {a} \subseteq Nat /\ {a} # {}
    BY <1>1
  <2> QED
    BY <2>1, MinIs
<1> HIDE DEF open, least
<1> QED
  BY <1>6, <1>7, <1>9, <1>10

\* With no instance at work there is none that needs an update.
LEMMA NoneNeedy ==
  ASSUME NEW par, Sized(par), NEW s, Shaped(par, s), Settled(s)
  PROVE  NeediestInstance(par, s) = Instances(par)
<1> DEFINE low == [i \in DOMAIN s.treehash |-> LowNode(par, s, i)]
           open == {i \in DOMAIN low : low[i] < par.tree_height}
<1>1. par.tree_height \in Nat
  BY InstancesNat
<1>2. \A j \in DOMAIN low : low[j] = par.tree_height
  BY DEF LowNode, Settled
<1>3. open = {}
  <2> HIDE DEF low
  <2> QED
    BY <1>1, <1>2
<1> QED
  BY <1>3 DEF NeediestInstance

\* Where nothing has been started, the first of those to start is at work.
LEMMA FirstFresh ==
  ASSUME NEW par, Sized(par), NEW s, Shaped(par, s),
         \A j \in DOMAIN s.treehash : s.treehash[j].completed = 1 \/ Fresh(s, j)
  PROVE  Settled(s) \/ \E c : AtWork(s, c, 0)
<1> SUFFICES ASSUME ~ Settled(s)
             PROVE  \E c : AtWork(s, c, 0)
  OBVIOUS
<1> DEFINE S == {j \in DOMAIN s.treehash : s.treehash[j].completed # 1}
           c == Min(S)
           o == s.stackoffset
           up == [q \in {o} |-> 0]
<1>1. S \subseteq Nat /\ S # {} /\ S \subseteq DOMAIN s.treehash
  BY InstancesNat DEF Settled, Shaped
<1>2. c \in S /\ \A j \in S : c <= j
  <2> HIDE DEF S
  <2> QED
    BY <1>1, MinIs
<1>3. o \in Int /\ up[o] = 0
  BY DEF Shaped
<1> HIDE DEF c, o, up
<1>4. c \in DOMAIN s.treehash /\ Fresh(s, c)
  BY <1>2
<1>5. \A j \in DOMAIN s.treehash : j < c => s.treehash[j].completed = 1
  <2> SUFFICES ASSUME NEW j \in DOMAIN s.treehash, j < c, s.treehash[j].completed # 1
               PROVE  FALSE
    OBVIOUS
  <2>1. j \in S /\ c \in S
    BY <1>2
  <2>2. c <= j /\ c \in Nat /\ j \in Nat
    BY <1>1, <1>2, <2>1
  <2> QED
    BY <2>2
<1>6. Tower(s.stacklevels, o, o, c, up)
  BY <1>3 DEF Tower
<1>7. Stands(c, s, o, up)
  BY <1>3, <1>4, <1>6 DEF Stands, Fresh, o
<1>8. AtWork(s, c, 0)
  BY <1>3, <1>4, <1>5, <1>7 DEF AtWork, Fresh, o
<1> QED
  BY <1>8

\* The tail nodes with a new one of height n, which the topmost has not.
Unlike(s, b, n) ==
  LET v == s.stackoffset - n IN v > b => s.stacklevels[v - 1] # n
Grows(a, s, b, up, n) ==
  LET v == s.stackoffset - n IN
  \E up2 : /\ Tower(Put(s.stacklevels, v, n), b, v + 1, a, up2)
           /\ up2[v + 1] = up[s.stackoffset] + 1

LEMMA TowerOn ==
  ASSUME NEW s, NEW a \in 0 .. TreeHeight, NEW b, NEW up, NEW n \in 0 .. a - 1,
         Stands(a, s, b, up), Climbs(a, s, b, up, n), Unlike(s, b, n)
  PROVE  Grows(a, s, b, up, n)
<1> DEFINE v == s.stackoffset - n
           o == s.stackoffset
           lev == s.stacklevels
           lev2 == Put(lev, v, n)
           done == up[o]
           up2 == [q \in b .. v + 1 |-> IF q <= v THEN up[q] ELSE done + 1]
<1>1. Tower(lev, b, o, a, up)
  BY DEF Stands
<1>2. v >= b /\ up[v] + 2^n = done + 1 /\ (v > b => lev[v - 1] >= n /\ lev[v - 1] # n)
  BY DEF Climbs, Unlike
<1>3. b \in Int /\ o \in Int /\ b <= o /\ v \in Int /\ v <= o /\ n \in Nat /\ a \in Nat
  BY <1>1 DEF Tower
<1>4. /\ v \in DOMAIN lev2 /\ lev2[v] = n
      /\ \A q \in DOMAIN lev : q \in DOMAIN lev2 /\ (q # v => lev2[q] = lev[q])
  BY PutIs
<1>5. /\ up[b] = 0
      /\ \A q \in b .. o : up[q] \in Nat
      /\ \A q \in b .. o - 1 :
           /\ q \in DOMAIN lev /\ lev[q] \in 0 .. a - 1
           /\ up[q + 1] = up[q] + 2^lev[q]
           /\ up[q + 1] + 2^lev[q] <= 2^a
      /\ \A q, r \in b .. o - 1 : q < r => lev[q] > lev[r]
  BY <1>1 DEF Tower
<1> HIDE DEF o, lev, lev2, v
<1>6. n \in 0 .. TreeHeight /\ 2^n \in Nat /\ 2^a \in Nat /\ 2 * 2^n <= 2^a
  <2>1. n \in 0 .. TreeHeight /\ n < a
    BY <1>3, TreePowers
  <2> QED
    BY <2>1, TreePowers
<1>7. up[v] \in Nat /\ done \in Nat
  <2>1. v \in b .. o /\ o \in b .. o
    BY <1>2, <1>3
  <2> QED
    BY <1>5, <2>1
<1>8. up[v] + 2^n + 2^n <= 2^a
  <2>1. CASE v = b
    BY <1>5, <1>6, <2>1
  <2>2. CASE v > b
    <3>1. v - 1 \in b .. o - 1 /\ (v - 1) + 1 = v
      BY <1>2, <1>3, <2>2
    <3> DEFINE l == lev[v - 1]
    <3>2. l \in 0 .. a - 1 /\ up[v] + 2^l <= 2^a /\ l > n
      <4>1. l \in 0 .. a - 1 /\ up[v] + 2^l <= 2^a
        BY <1>5, <3>1
      <4> QED
        BY <1>2, <1>3, <2>2, <4>1
    <3> HIDE DEF l
    <3>3. l \in 0 .. TreeHeight /\ n < l
      BY <1>3, <3>2, TreePowers
    <3>4. 2 * 2^n <= 2^l /\ 2^l \in Nat
      BY <1>6, <3>3, TreePowers
    <3> QED
      BY <1>6, <1>7, <3>2, <3>4
  <2> QED
    BY <1>2, <1>3, <2>1, <2>2
<1>9. \A q \in b .. v : q < v => lev[q] > n
  <2> SUFFICES ASSUME NEW q \in b .. v, q < v
               PROVE  lev[q] > n
    OBVIOUS
  <2>1. v > b /\ v - 1 \in b .. o - 1 /\ q \in b .. o - 1
    BY <1>3
  <2> DEFINE k == lev[q]
             l == lev[v - 1]
  <2>2. k \in 0 .. a - 1 /\ l \in 0 .. a - 1 /\ l >= n /\ l # n
    BY <1>2, <1>5, <2>1
  <2>3. q < v - 1 => k > l
    BY <1>5, <2>1
  <2>4. q = v - 1 => k = l
    OBVIOUS
  <2>5. q < v - 1 \/ q = v - 1
    BY <1>3
  <2> HIDE DEF k, l
  <2>6. k > n
    BY <1>3, <2>2, <2>3, <2>4, <2>5
  <2> QED
    BY <2>6 DEF k
<1>10. /\ \A q \in b .. v : up2[q] = up[q] /\ up[q] \in Nat
       /\ up2[v + 1] = done + 1
  <2>1. \A q \in b .. v : q \in b .. v + 1 /\ q <= v /\ q \in b .. o
    BY <1>3
  <2>2. v + 1 \in b .. v + 1 /\ ~ (v + 1 <= v)
    BY <1>2, <1>3
  <2> QED
    BY <1>5, <2>1, <2>2
<1> HIDE DEF up2, done
<1>11. \A q \in b .. (v + 1) - 1 :
           /\ q \in DOMAIN lev2 /\ lev2[q] \in 0 .. a - 1
           /\ up2[q + 1] = up2[q] + 2^lev2[q]
           /\ up2[q + 1] + 2^lev2[q] <= 2^a
  <2> SUFFICES ASSUME NEW q \in b .. (v + 1) - 1
               PROVE  /\ q \in DOMAIN lev2 /\ lev2[q] \in 0 .. a - 1
                      /\ up2[q + 1] = up2[q] + 2^lev2[q]
                      /\ up2[q + 1] + 2^lev2[q] <= 2^a
    OBVIOUS
  <2>1. CASE q = v
    <3>1. up2[v] = up[v] /\ up2[v + 1] = up[v] + 2^n
      <4>1. v \in b .. v
        BY <1>2, <1>3
      <4> QED
        BY <1>2, <1>10, <4>1
    <3> QED
      BY <1>4, <1>6, <1>7, <1>8, <2>1, <3>1
  <2>2. CASE q # v
    <3>1. q \in b .. v /\ q + 1 \in b .. v /\ q \in b .. o - 1
      BY <1>3, <2>2
    <3>2. up2[q] = up[q] /\ up2[q + 1] = up[q + 1]
      BY <1>10, <3>1
    <3>3. q \in DOMAIN lev2 /\ lev2[q] = lev[q]
      BY <1>4, <1>5, <2>2, <3>1
    <3> QED
      BY <1>5, <3>1, <3>2, <3>3
  <2> QED
    BY <2>1, <2>2
<1>12. \A q, r \in b .. (v + 1) - 1 : q < r => lev2[q] > lev2[r]
  <2> SUFFICES ASSUME NEW q \in b .. (v + 1) - 1, NEW r \in b .. (v + 1) - 1, q < r
               PROVE  lev2[q] > lev2[r]
    OBVIOUS
  <2>1. q \in b .. v /\ q < v /\ q \in b .. o - 1 /\ q # v
    BY <1>3
  <2>2. lev2[q] = lev[q]
    BY <1>4, <1>5, <2>1
  <2>3. CASE r = v
    BY <1>4, <1>9, <2>1, <2>2, <2>3
  <2>4. CASE r # v
    <3>1. r \in b .. o - 1
      BY <1>3, <2>4
    <3>2. lev2[r] = lev[r]
      BY <1>4, <1>5, <2>4, <3>1
    <3> QED
      BY <1>5, <2>1, <2>2, <3>1, <3>2
  <2> QED
    BY <2>3, <2>4
<1>13. \A q \in b .. v + 1 : up2[q] \in Nat
  <2>1. \A q \in b .. v + 1 : q \in b .. v \/ q = v + 1
    BY <1>3
  <2> QED
    BY <1>7, <1>10, <2>1
<1>14. up2[b] = 0
  <2>1. b \in b .. v
    BY <1>2, <1>3
  <2> QED
    BY <1>5, <1>10, <2>1
<1>15. Tower(lev2, b, v + 1, a, up2)
  <2>1. b \in Int /\ v + 1 \in Int /\ b <= v + 1
    BY <1>2, <1>3
  <2> QED
    BY <2>1, <1>11, <1>12, <1>13, <1>14 DEF Tower
<1> QED
  BY <1>10, <1>15 DEF lev2, lev, done, o, v, Grows

(***************************************************************************)
(* A leaf for the instance at work: it stands for one leaf more, or it has *)
(* all of them and delivers, and the next begins.                          *)
(***************************************************************************)
LEMMA WorkerStep ==
  ASSUME NEW par, Sized(par), NEW s, NEW a, NEW done, Shaped(par, s), AtWork(s, a, done),
         NEW seed, NEW addr, NEW u, u = treehash_update(par, s, a, seed, addr)
  PROVE  /\ Shaped(par, u)
         /\ \/ AtWork(u, a, done + 1)
            \/ done + 1 = 2^a /\ (Settled(u) \/ \E c : c > a /\ AtWork(u, c, 0))
<1>1. /\ a \in 0 .. TreeHeight - 1 /\ a \in 0 .. TreeHeight /\ a \in DOMAIN s.treehash
      /\ TreeHeight \in Nat
  <2>1. a \in 0 .. TreeHeight - 1
    BY WorkerBound
  <2>2. TreeHeight \in Nat
    BY TreePowers
  <2> QED
    BY <2>1, <2>2 DEF AtWork
<1>2. PICK b, up : Stands(a, s, b, up) /\ up[s.stackoffset] = done
  BY DEF AtWork
<1>3. PICK w : /\ treehash_update(par, s, a, seed, addr) = UpdateEnd(a, w)
               /\ w.height \in 0 .. TreeHeight
               /\ w.height < TreeHeight => ~ More(a, w)
               /\ Taken(a, s, w.state, w.height)
               /\ Stands(a, s, b, up) => Climbs(a, s, b, up, w.height)
  <2>1. Stands(a, s, b, up) => a \in 0 .. TreeHeight
    BY <1>1
  <2> QED
    BY <2>1, UpdateRuns
<1> DEFINE n == w.height
           o == s.stackoffset
           v == o - n
<1>4. n \in Nat /\ n <= a /\ n < TreeHeight /\ Climbs(a, s, b, up, n) /\ ~ More(a, w)
  <2>1. Climbs(a, s, b, up, n)
    BY <1>2, <1>3
  <2>2. n <= a
    BY <2>1 DEF Climbs
  <2> HIDE DEF n
  <2>3. n \in Nat /\ n < TreeHeight
    BY <1>1, <1>3, <2>2 DEF n
  <2> QED
    BY <1>3, <2>1, <2>2, <2>3 DEF n
<1>5. /\ b \in Int /\ o \in Int /\ b <= o /\ s.treehash[a].stackusage = o - b
      /\ Tower(s.stacklevels, b, o, a, up)
  BY <1>2 DEF Stands, Tower
<1>6. /\ OnlyAt(par, a, s, u)
      /\ n = w.state.treehash[a].h => Delivered(a, s, u, n)
      /\ n # w.state.treehash[a].h => Stacked(a, s, u, n)
  BY <1>3, <1>4, UpdateEnds
<1>7. w.state.treehash[a].h = a
  BY <1>1, <1>3 DEF Taken, AtWork
<1>8. Shaped(par, u) /\ DOMAIN u.treehash = DOMAIN s.treehash
  BY <1>6 DEF OnlyAt, Shaped
<1>9. \A j \in DOMAIN s.treehash :
        /\ j < a => u.treehash[j].completed = 1
        /\ j > a => u.treehash[j].completed = 1 \/ Fresh(u, j)
  <2> SUFFICES ASSUME NEW j \in DOMAIN s.treehash, j # a
               PROVE  /\ j < a => u.treehash[j].completed = 1
                      /\ j > a => u.treehash[j].completed = 1 \/ Fresh(u, j)
    BY <1>1
  <2>1. u.treehash[j] = s.treehash[j]
    BY <1>6 DEF OnlyAt
  <2> QED
    BY <2>1 DEF AtWork, Fresh
<1>10. CASE n = a
  <2>1. Delivered(a, s, u, n)
    BY <1>6, <1>7, <1>10
  <2>2. u.treehash[a].completed = 1
    BY <1>1, <2>1 DEF Delivered
  <2>3. v >= b /\ up[v] + 2^n = up[o] + 1 /\ (v > b => s.stacklevels[v - 1] >= n)
    BY <1>4 DEF Climbs
  <2>4. v = b
    <3> SUFFICES ASSUME v > b
                 PROVE  FALSE
      BY <1>4, <1>5, <2>3
    <3>1. v - 1 \in b .. o - 1
      BY <1>4, <1>5
    <3> DEFINE l == s.stacklevels[v - 1]
    <3>2. l \in 0 .. a - 1 /\ l >= n
      BY <1>5, <2>3, <3>1 DEF Tower
    <3> HIDE DEF l
    <3> QED
      BY <1>1, <1>10, <3>2
  <2>5. done + 1 = 2^a
    <3>1. up[b] = 0 /\ 2^a \in Nat
      BY <1>1, <1>5, TreePowers DEF Tower
    <3> QED
      BY <1>2, <1>10, <2>3, <2>4, <3>1
  <2>6. \A j \in DOMAIN u.treehash : u.treehash[j].completed = 1 \/ Fresh(u, j)
    <3>1. \A j \in DOMAIN s.treehash : j < a \/ j = a \/ j > a
      BY <1>1, InstancesNat DEF Shaped
    <3> QED
      BY <1>8, <1>9, <2>2, <3>1
  <2>7. Settled(u) \/ \E c : AtWork(u, c, 0)
    BY <1>8, <2>6, FirstFresh
  <2>8. ASSUME NEW c, AtWork(u, c, 0)
        PROVE  c > a
    <3>1. c \in DOMAIN s.treehash /\ u.treehash[c].completed = 0
      BY <1>8, <2>8 DEF AtWork
    <3>2. c # a /\ ~ (c < a)
      BY <1>9, <2>2, <3>1
    <3>3. c \in Int
      BY <3>1, InstancesNat DEF Shaped
    <3> QED
      BY <1>1, <3>2, <3>3
  <2> QED
    BY <1>8, <2>5, <2>7, <2>8
<1>11. CASE n # a
  <2>1. Stacked(a, s, u, n)
    BY <1>6, <1>7, <1>11
  <2>2. /\ u.stackoffset = v + 1 /\ u.stacklevels = Put(s.stacklevels, v, n)
        /\ u.treehash[a].completed = 0 /\ u.treehash[a].h = a
        /\ u.treehash[a].stackusage = (v + 1) - b
    <3>1. s.treehash[a].stackusage \in Int
      BY <1>5
    <3>2. /\ u.treehash[a].completed = s.treehash[a].completed
          /\ u.treehash[a].h = s.treehash[a].h
          /\ u.treehash[a].stackusage = s.treehash[a].stackusage - n + 1
      BY <1>1, <2>1, <3>1 DEF Stacked
    <3>3. s.treehash[a].completed = 0 /\ s.treehash[a].h = a
      BY DEF AtWork
    <3>4. u.stackoffset = o - n + 1 /\ u.stacklevels = Put(s.stacklevels, o - n, n)
      BY <2>1 DEF Stacked
    <3> HIDE DEF n, o
    <3>5. (o - b) - n + 1 = (v + 1) - b
      BY <1>4, <1>5
    <3> QED
      BY <1>5, <3>2, <3>3, <3>4, <3>5
  <2>3. n \in 0 .. a - 1
    BY <1>1, <1>4, <1>11
  <2>4. v > b => s.stacklevels[v - 1] # n
    <3> SUFFICES ASSUME v > b, s.stacklevels[v - 1] = n
                 PROVE  FALSE
      OBVIOUS
    <3>1. /\ w.state.treehash[a].stackusage = s.treehash[a].stackusage - n
          /\ w.state.stackoffset = v /\ w.state.stacklevels = s.stacklevels
      <4>1. s.treehash[a].stackusage \in Int
        BY <1>5
      <4> QED
        BY <1>1, <1>3, <4>1 DEF Taken
    <3>2. s.treehash[a].stackusage - n > 0
      BY <1>4, <1>5
    <3> QED
      BY <1>4, <3>1, <3>2 DEF More
  <2>9. v = s.stackoffset - n
    OBVIOUS
  <2> HIDE DEF n, v, o
  <2>5. \E up2 : /\ Tower(Put(s.stacklevels, v, n), b, v + 1, a, up2)
                 /\ up2[v + 1] = up[s.stackoffset] + 1
    <3>1. Stands(a, s, b, up) /\ Climbs(a, s, b, up, n)
      BY <1>2, <1>4
    <3>2. Unlike(s, b, n)
      BY <2>4, <2>9 DEF Unlike
    <3>3. Grows(a, s, b, up, n)
      BY <1>1, <2>3, <3>1, <3>2, TowerOn
    <3> QED
      BY <2>9, <3>3 DEF Grows
  <2>6. PICK up2 : /\ Tower(u.stacklevels, b, v + 1, a, up2)
                   /\ up2[v + 1] = done + 1
    BY <1>2, <2>2, <2>5
  <2>7. Stands(a, u, b, up2) /\ up2[u.stackoffset] = done + 1
    BY <1>1, <1>8, <2>2, <2>6 DEF Stands
  <2>8. AtWork(u, a, done + 1)
    BY <1>1, <1>8, <1>9, <2>2, <2>7 DEF AtWork
  <2> QED
    BY <1>8, <2>8
<1> QED
  BY <1>10, <1>11

-----------------------------------------------------------------------------

\* The loop of bds_treehash_update, called with p: params, the seed, the
\* address and the state before.
SpendTurn(p, w, i) ==
  IF NeediestInstance(p[1], w.state) < Instances(p[1])
  THEN [state |-> treehash_update(p[1], w.state, NeediestInstance(p[1], w.state), p[2], p[3]),
        used  |-> w.used + 1]
  ELSE w

\* Every turn so far was spent on an instance, or none is at work any more;
\* instances of falling need take less than 2^(a + 1) leaves up to a.
Progress(w, i) ==
  \/ Settled(w.state) /\ w.used <= 2^TreeHeight - 1
  \/ \E a, done : AtWork(w.state, a, done) /\ w.used = i /\ i <= 2^a - 1 + done

SpendInv(p, w, i) ==
  /\ w.used \in 0 .. i
  /\ Shaped(p[1], w.state) /\ w.state.next_leaf = p[4].next_leaf
  /\ Settled(p[4]) => w.state = p[4] /\ w.used = 0
  /\ (\E a : AtWork(p[4], a, 0)) => Progress(w, i)

Spends == INSTANCE LoopRules WITH Body <- SpendTurn, Inv <- SpendInv

SpendStart(p) == [state |-> p[4], used |-> 0]
SpendEnd(n, done) == [state |-> done.state, updates |-> ThroughChar(n - done.used)]

\* bds_treehash_update is that loop.
LEMMA SpendIs ==
  ASSUME NEW par, NEW s, NEW n, NEW seed, NEW addr
  PROVE  LET p == <<par, seed, addr, s>>
         IN  bds_treehash_update(par, s, n, seed, addr) =
               SpendEnd(n, Spends!TheFor(p, Min({n, 2^par.tree_height}), SpendStart(p)))
<1> DEFINE p == <<par, seed, addr, s>>
<1>1. p[1] = par /\ p[2] = seed /\ p[3] = addr /\ p[4] = s
  OBVIOUS
<1> HIDE DEF p
<1>2. bds_treehash_update(p[1], p[4], n, p[2], p[3]) =
        SpendEnd(n, Spends!TheFor(p, Min({n, 2^p[1].tree_height}), SpendStart(p)))
  BY DEF bds_treehash_update, SpendEnd, SpendStart, SpendTurn, While, For,
         Spends!TheFor, Spends!For
<1> QED
  BY <1>1, <1>2 DEF p

\* A turn of an instance at work.
LEMMA ProgressOn ==
  ASSUME NEW p, Sized(p[1]), NEW w, NEW i \in Nat, Shaped(p[1], w.state), w.used \in 0 .. i,
         Progress(w, i)
  PROVE  Progress(SpendTurn(p, w, i), i + 1)
<1> DEFINE v == SpendTurn(p, w, i)
<1>1. CASE Settled(w.state) /\ w.used <= 2^TreeHeight - 1
  <2>1. NeediestInstance(p[1], w.state) = Instances(p[1]) /\ Instances(p[1]) \in Int
    BY <1>1, NoneNeedy, InstancesNat
  <2>2. v = w
    BY <2>1 DEF SpendTurn
  <2> QED
    BY <1>1, <2>2 DEF Progress
<1>2. CASE \E a, done : AtWork(w.state, a, done) /\ w.used = i /\ i <= 2^a - 1 + done
  <2>1. PICK a, done : AtWork(w.state, a, done) /\ w.used = i /\ i <= 2^a - 1 + done
    BY <1>2
  <2>2. /\ a \in 0 .. TreeHeight - 1 /\ a \in 0 .. Instances(p[1]) - 1 /\ done \in 0 .. 2^a - 1
        /\ NeediestInstance(p[1], w.state) = a
    BY <2>1, WorkerBound, Neediest
  <2> DEFINE u == treehash_update(p[1], w.state, a, p[2], p[3])
  <2>3. NeediestInstance(p[1], w.state) < Instances(p[1])
    BY <2>2, InstancesNat
  <2>4. v.state = u /\ v.used = i + 1
    BY <2>1, <2>2, <2>3 DEF SpendTurn
  <2>5. \/ AtWork(u, a, done + 1)
        \/ done + 1 = 2^a /\ (Settled(u) \/ \E c : c > a /\ AtWork(u, c, 0))
    BY <2>1, WorkerStep
  <2>6. Shaped(p[1], u)
    BY <2>1, WorkerStep
  <2>7. a \in 0 .. TreeHeight /\ a < TreeHeight /\ TreeHeight \in 0 .. TreeHeight
    <3>1. TreeHeight \in Nat
      BY TreePowers
    <3> QED
      BY <2>2, <3>1
  <2>8. 2^a \in Nat \ {0} /\ 2^TreeHeight \in Nat /\ 2 * 2^a <= 2^TreeHeight
    BY <2>7, TreePowers
  <2> HIDE DEF u, v
  <2>9. CASE AtWork(u, a, done + 1)
    <3>1. i + 1 <= 2^a - 1 + (done + 1)
      BY <2>1, <2>2, <2>8
    <3> QED
      BY <2>4, <2>9, <3>1 DEF Progress, v
  <2>10. CASE done + 1 = 2^a /\ Settled(u)
    <3>1. i + 1 <= 2^TreeHeight - 1
      BY <2>1, <2>2, <2>8, <2>10
    <3> QED
      BY <2>4, <2>10, <3>1 DEF Progress, v
  <2>11. CASE done + 1 = 2^a /\ \E c : c > a /\ AtWork(u, c, 0)
    <3>1. PICK c : c > a /\ AtWork(u, c, 0)
      BY <2>11
    <3>2. c \in 0 .. TreeHeight - 1
      BY <2>6, <3>1, WorkerBound
    <3>3. c \in 0 .. TreeHeight /\ a < c
      <4>1. TreeHeight \in Nat
        BY TreePowers
      <4> QED
        BY <2>2, <3>1, <3>2, <4>1
    <3>4. 2 * 2^a <= 2^c /\ 2^c \in Nat
      BY <2>7, <3>3, TreePowers
    <3>5. i + 1 <= 2^c - 1 + 0
      BY <2>1, <2>2, <2>8, <2>11, <3>4
    <3> QED
      BY <2>4, <3>1, <3>5 DEF Progress, v
  <2> QED
    BY <2>5, <2>9, <2>10, <2>11
<1> QED
  BY <1>1, <1>2 DEF Progress

(***************************************************************************)
(* What bds_treehash_update gives back, r, if used updates were spent: an  *)
(* instance that had a tail node when they began may be left at work.      *)
(***************************************************************************)
Spent(par, s, n, r, used) ==
  /\ used \in Nat /\ used <= n /\ used <= 2^TreeHeight
  /\ r.updates = ThroughChar(n - used)
  /\ Shaped(par, r.state) /\ r.state.next_leaf = s.next_leaf
  /\ Settled(s) => Settled(r.state) /\ used = 0
  /\ n >= 2^TreeHeight /\ (\E a : AtWork(s, a, 0)) => Settled(r.state)

LEMMA SpentIs ==
  ASSUME NEW par, Sized(par), NEW s, NEW n \in Nat, NEW seed, NEW addr, Shaped(par, s)
  PROVE  \E used : Spent(par, s, n, bds_treehash_update(par, s, n, seed, addr), used)
<1> DEFINE p == <<par, seed, addr, s>>
           m == Min({n, 2^par.tree_height})
           done == Spends!TheFor(p, m, SpendStart(p))
           r == bds_treehash_update(par, s, n, seed, addr)
<1>1. r = SpendEnd(n, done)
  BY SpendIs
<1>2. p[1] = par /\ p[4] = s
  OBVIOUS
<1>3. 2^TreeHeight \in Nat \ {0} /\ par.tree_height = TreeHeight
  <2>1. TreeHeight \in 0 .. TreeHeight
    BY TreePowers
  <2> QED
    BY <2>1, TreePowers, InstancesNat
<1>4. m \in Nat /\ m <= n /\ m <= 2^TreeHeight /\ (n >= 2^TreeHeight => m = 2^TreeHeight)
  <2> DEFINE S == {n, 2^par.tree_height}
  <2>1. S \subseteq Nat /\ S # {} /\ n \in S /\ 2^TreeHeight \in S
    BY <1>3
  <2>2. \A x \in S : x = n \/ x = 2^TreeHeight
    BY <1>3
  <2> HIDE DEF S
  <2>3. Min(S) \in S /\ \A x \in S : Min(S) <= x
    BY <2>1, MinIs
  <2>4. PICK k \in Nat : k = Min(S)
    BY <2>1, <2>3
  <2>5. k <= n /\ k <= 2^TreeHeight /\ (k = n \/ k = 2^TreeHeight)
    BY <2>1, <2>2, <2>3, <2>4
  <2>6. n >= 2^TreeHeight => k = 2^TreeHeight
    BY <1>3, <2>5
  <2> QED
    BY <2>4, <2>5, <2>6 DEF S
<1> DEFINE start == SpendStart(p)
<1> HIDE DEF p
<1>5. start.state = s /\ start.used = 0
  BY <1>2 DEF SpendStart
<1> HIDE DEF start, m
<1>6. SpendInv(p, start, 0)
  <2>1. ASSUME NEW a, AtWork(s, a, 0)
        PROVE  Progress(start, 0)
    <3>1. 0 \in 0 .. 2^a - 1
      BY <2>1, WorkerBound
    <3>2. 0 <= 2^a - 1 + 0
      <4>1. PICK k \in Int : k = 2^a
        <5>1. a \in 0 .. TreeHeight - 1
          BY <2>1, WorkerBound
        <5>2. a \in 0 .. TreeHeight
          BY <5>1, TreePowers
        <5> QED
          BY <5>2, TreePowers
      <4> QED
        BY <3>1, <4>1
    <3> QED
      BY <1>5, <2>1, <3>2 DEF Progress
  <2> QED
    BY <1>2, <1>5, <2>1 DEF SpendInv
<1>7. ASSUME NEW w, NEW i \in 0 .. m - 1, SpendInv(p, w, i)
      PROVE  SpendInv(p, SpendTurn(p, w, i), i + 1)
  <2> DEFINE v == SpendTurn(p, w, i)
             lv == NeediestInstance(par, w.state)
  <2>1. i \in Nat /\ Shaped(par, w.state) /\ w.used \in 0 .. i
        /\ w.state.next_leaf = s.next_leaf
    BY <1>2, <1>4, <1>7 DEF SpendInv
  <2>2. CASE ~ (lv < Instances(par))
    <3>1. v = w
      BY <1>2, <2>2 DEF SpendTurn
    <3>2. (\E a : AtWork(s, a, 0)) => Progress(v, i + 1)
      BY <1>2, <1>7, <2>1, ProgressOn DEF SpendInv
    <3>3. w.used \in 0 .. i + 1
      BY <2>1
    <3> HIDE DEF v
    <3>4. SpendInv(p, v, i + 1)
      BY <1>2, <1>7, <3>1, <3>2, <3>3 DEF SpendInv
    <3> QED
      BY <3>4 DEF v
  <2>3. CASE lv < Instances(par)
    <3> DEFINE u == treehash_update(par, w.state, lv, p[2], p[3])
    <3>1. v.state = u /\ v.used = w.used + 1
      BY <1>2, <2>3 DEF SpendTurn
    <3>2. OnlyAt(par, lv, w.state, u)
      BY <2>1, UpdateOnly
    <3>3. Shaped(par, u) /\ u.next_leaf = s.next_leaf
      BY <2>1, <3>2 DEF OnlyAt
    <3>4. ~ Settled(s)
      <4> SUFFICES ASSUME Settled(s)
                   PROVE  FALSE
        OBVIOUS
      <4>1. w.state = s
        BY <1>2, <1>7 DEF SpendInv
      <4>2. lv = Instances(par) /\ Instances(par) \in Int
        BY <4>1, NoneNeedy, InstancesNat
      <4> QED
        BY <2>3, <4>2
    <3>5. (\E a : AtWork(s, a, 0)) => Progress(v, i + 1)
      BY <1>2, <1>7, <2>1, ProgressOn DEF SpendInv
    <3> HIDE DEF v, u
    <3>6. v.used \in 0 .. i + 1
      BY <2>1, <3>1
    <3>7. SpendInv(p, v, i + 1)
      BY <1>2, <3>1, <3>3, <3>4, <3>5, <3>6 DEF SpendInv
    <3> QED
      BY <3>7 DEF v
  <2> QED
    BY <2>2, <2>3
<1>8. SpendInv(p, done, m)
  <2>1. SpendInv(p, Spends!TheFor(p, m, start), m)
    BY <1>4, <1>6, <1>7, Spends!ForRule
  <2> QED
    BY <2>1 DEF start
<1> HIDE DEF done
<1>9. r.state = done.state /\ r.updates = ThroughChar(n - done.used)
  BY <1>1 DEF SpendEnd
<1>10. /\ done.used \in 0 .. m
       /\ Shaped(par, done.state) /\ done.state.next_leaf = s.next_leaf
       /\ Settled(s) => done.state = s /\ done.used = 0
       /\ (\E a : AtWork(s, a, 0)) => Progress(done, m)
  BY <1>2, <1>8 DEF SpendInv
<1>11. ASSUME n >= 2^TreeHeight, \E a : AtWork(s, a, 0)
       PROVE  Settled(done.state)
  <2>1. Progress(done, 2^TreeHeight)
    BY <1>4, <1>10, <1>11
  <2>2. ASSUME NEW a, NEW k, AtWork(done.state, a, k), 2^TreeHeight <= 2^a - 1 + k
        PROVE  FALSE
    <3>1. a \in 0 .. TreeHeight - 1 /\ k \in 0 .. 2^a - 1
      BY <1>10, <2>2, WorkerBound
    <3>2. a \in 0 .. TreeHeight /\ a < TreeHeight /\ TreeHeight \in 0 .. TreeHeight
      <4>1. TreeHeight \in Nat
        BY TreePowers
      <4> QED
        BY <3>1, <4>1
    <3>3. 2 * 2^a <= 2^TreeHeight /\ 2^a \in Nat
      BY <3>2, TreePowers
    <3> QED
      BY <1>3, <2>2, <3>1, <3>3
  <2> QED
    BY <2>1, <2>2 DEF Progress
<1>12. Spent(par, s, n, r, done.used)
  <2>1. done.used \in Nat /\ done.used <= n /\ done.used <= 2^TreeHeight
    BY <1>3, <1>4, <1>10
  <2> HIDE DEF r
  <2> QED
    BY <1>9, <1>10, <1>11, <2>1 DEF Spent
<1> QED
  BY <1>12

\* The path of the next leaf: of the instances that have all delivered some
\* start anew.
LEMMA RoundIs ==
  ASSUME NEW par, Sized(par), NEW s, NEW leaf, NEW seed, NEW addr, Shaped(par, s)
  PROVE  LET u == bds_round(par, s, leaf, seed, addr)
         IN  /\ Shaped(par, u) /\ u.next_leaf = s.next_leaf
             /\ Settled(s) => Settled(u) \/ \E c : AtWork(u, c, 0)
<1> DEFINE tau  == Tau(par, leaf)
           kept == IF Bit(leaf, tau + 1) = 0 /\ tau < par.tree_height - 1
                   THEN Put(s.keep, tau \div 2, s.auth[tau])
                   ELSE s.keep
           u == bds_round(par, s, leaf, seed, addr)
<1>1. CASE tau = 0
  <2> DEFINE auth == Put(s.auth, 0, gen_leaf_wots(seed, addr, leaf))
  <2>1. u = [[s EXCEPT !.keep = kept] EXCEPT !.auth = auth]
    BY <1>1 DEF bds_round
  <2> HIDE DEF kept, auth, u, tau
  <2>2. /\ DOMAIN u = DOMAIN s /\ u.treehash = s.treehash /\ u.next_leaf = s.next_leaf
        /\ u.stackoffset = s.stackoffset
    BY <2>1 DEF Shaped
  <2>3. Shaped(par, u) /\ (Settled(s) => Settled(u))
    BY <2>2 DEF Shaped, Settled
  <2> QED
    BY <2>2, <2>3 DEF u
<1>2. CASE tau # 0
  <2> DEFINE auth == NextPath(par, s, leaf, tau, seed, addr)
             th == Restarted(par, s.treehash, leaf, tau)
  <2>1. u = [[[s EXCEPT !.keep = kept] EXCEPT !.auth = auth] EXCEPT !.treehash = th]
    BY <1>2 DEF bds_round
  <2> HIDE DEF kept, auth, u, tau
  <2>2. /\ DOMAIN th = DOMAIN s.treehash
        /\ \A j \in DOMAIN s.treehash :
             /\ {"h", "next_idx", "stackusage", "completed", "node"} \subseteq DOMAIN th[j]
             /\ \/ th[j] = s.treehash[j]
                \/ th[j].completed = 0 /\ th[j].stackusage = 0 /\ th[j].h = j
    <3>1. DOMAIN th = DOMAIN s.treehash
      BY DEF Restarted
    <3>2. ASSUME NEW j \in DOMAIN s.treehash
          PROVE  /\ {"h", "next_idx", "stackusage", "completed", "node"} \subseteq DOMAIN th[j]
                 /\ \/ th[j] = s.treehash[j]
                    \/ th[j].completed = 0 /\ th[j].stackusage = 0 /\ th[j].h = j
      <4> DEFINE inst == s.treehash[j]
                 x == leaf + 1 + 3 * 2^j
                 new == [[[[inst EXCEPT !.h = j] EXCEPT !.next_idx = x] EXCEPT !.completed = 0]
                           EXCEPT !.stackusage = 0]
      <4>1. {"h", "next_idx", "stackusage", "completed", "node"} \subseteq DOMAIN inst
        BY DEF Shaped
      <4>2. th[j] = inst \/ th[j] = new
        BY DEF Restarted
      <4> HIDE DEF th, inst, x
      <4>3. /\ {"h", "next_idx", "stackusage", "completed", "node"} \subseteq DOMAIN new
            /\ new.completed = 0 /\ new.stackusage = 0 /\ new.h = j
        BY <4>1
      <4> HIDE DEF new
      <4> QED
        BY <4>1, <4>2, <4>3 DEF inst
    <3> QED
      BY <3>1, <3>2
  <2> HIDE DEF th
  <2>3. /\ DOMAIN u = DOMAIN s /\ u.treehash = th /\ u.next_leaf = s.next_leaf
        /\ u.stackoffset = s.stackoffset
    BY <2>1 DEF Shaped
  <2>4. Shaped(par, u)
    BY <2>2, <2>3 DEF Shaped
  <2>5. ASSUME Settled(s)
        PROVE  Settled(u) \/ \E c : AtWork(u, c, 0)
    <3>1. \A j \in DOMAIN u.treehash : u.treehash[j].completed = 1 \/ Fresh(u, j)
      BY <2>2, <2>3, <2>5 DEF Settled, Fresh
    <3> QED
      BY <2>4, <3>1, FirstFresh
  <2> QED
    BY <2>3, <2>4, <2>5 DEF u
<1> QED
  BY <1>1, <1>2

-----------------------------------------------------------------------------

(***************************************************************************)
(* What the number of updates must fit into.  It is unsigned, comes back   *)
(* from bds_treehash_update as a char, and below zero has wrapped: then it *)
(* survives that as long as it is at most 128 below.  The layers where it  *)
(* may have wrapped are those above layer (tree_height - bds_k) >> 1, which*)
(* take one update each, and one of them may spend a tree's leaves.        *)
(***************************************************************************)
CharFits ==
  /\ UINT_SPACE % 256 = 0
  /\ 2^TreeHeight + Layers <= UINT_SPACE
  /\ \A k \in BdsKs :
       LET updates == Shr(TreeHeight - k, 1) IN
       /\ updates < 128
       /\ Layers - 2 <= updates \/ Layers - 2 - updates + 2^TreeHeight <= 128

\* A small number, and one that has wrapped, through a char.
LEMMA ThroughCharIs ==
  ASSUME UINT_SPACE % 256 = 0
  PROVE  /\ UINT_SPACE \in Nat /\ UINT_SPACE >= 256
         /\ \A x \in 0 .. 127 : ThroughChar(x) = x
         /\ \A x \in 1 .. 128 : ThroughChar(UINT_SPACE - x) = UINT_SPACE - x
<1>1. UINT_SPACE \in Nat /\ UINT_SPACE >= 256
  BY UnsignedAssumption
<1>2. ASSUME NEW x \in 0 .. 127
      PROVE  ThroughChar(x) = x
  <2>1. x % 256 = x
    OBVIOUS
  <2> QED
    BY <2>1 DEF ThroughChar
<1>3. ASSUME NEW x \in 1 .. 128
      PROVE  ThroughChar(UINT_SPACE - x) = UINT_SPACE - x
  <2> DEFINE low == (UINT_SPACE - x) % 256
  <2>1. low = 256 - x
    BY <1>1
  <2>2. ~ (low < 128) /\ low - 256 = -x
    BY <2>1
  <2>3. ThroughChar(UINT_SPACE - x) = (-x) % UINT_SPACE
    BY <2>2 DEF ThroughChar, Unsigned
  <2> DEFINE y == -x
             q == -1
  <2>4. y \in Int /\ q \in Int /\ UINT_SPACE \in Nat \ {0} /\ q * UINT_SPACE <= y
        /\ y < (q + 1) * UINT_SPACE /\ y - q * UINT_SPACE = UINT_SPACE - x
    BY <1>1
  <2> HIDE DEF y, q
  <2>5. y % UINT_SPACE = y - q * UINT_SPACE
    BY <2>4, Rules!DivUnique
  <2> QED
    BY <2>3, <2>4, <2>5 DEF y
<1> QED
  BY <1>1, <1>2, <1>3

\* One less, unsigned.
LEMMA OneLessIs ==
  ASSUME UINT_SPACE % 256 = 0
  PROVE  /\ Unsigned(0 - 1) = UINT_SPACE - 1
         /\ \A x \in 1 .. UINT_SPACE : Unsigned(x - 1) = x - 1
<1>1. UINT_SPACE \in Nat /\ UINT_SPACE >= 256
  BY ThroughCharIs
<1>2. Unsigned(0 - 1) = UINT_SPACE - 1
  <2> DEFINE y == 0 - 1
             q == -1
  <2>1. y \in Int /\ q \in Int /\ UINT_SPACE \in Nat \ {0} /\ q * UINT_SPACE <= y
        /\ y < (q + 1) * UINT_SPACE /\ y - q * UINT_SPACE = UINT_SPACE - 1
    BY <1>1
  <2> HIDE DEF y, q
  <2>2. y % UINT_SPACE = y - q * UINT_SPACE
    BY <2>1, Rules!DivUnique
  <2>3. Unsigned(y) = UINT_SPACE - 1
    BY <2>1, <2>2 DEF Unsigned
  <2> QED
    BY <2>3 DEF y
<1>3. ASSUME NEW x \in 1 .. UINT_SPACE
      PROVE  Unsigned(x - 1) = x - 1
  <2> DEFINE y == x - 1
  <2>1. y \in Nat /\ y < UINT_SPACE
    BY <1>1
  <2> HIDE DEF y
  <2>2. y % UINT_SPACE = y
    BY <1>1, <2>1
  <2>3. Unsigned(y) = y
    BY <2>2 DEF Unsigned
  <2> QED
    BY <2>3 DEF y
<1> QED
  BY <1>2, <1>3

-----------------------------------------------------------------------------

(***************************************************************************)
(* The call.  A parameter set of the model, and what CharFits says of its  *)
(* number of updates.                                                      *)
(***************************************************************************)
ParamsFit ==
  /\ Sized(params)
  /\ UpdatesPerCall \in 0 .. 127
  /\ Layers - 2 <= UpdatesPerCall \/ Layers - 2 - UpdatesPerCall + 2^TreeHeight <= 128
  /\ UINT_SPACE % 256 = 0 /\ UINT_SPACE \in Nat /\ 2^TreeHeight + Layers <= UINT_SPACE
  /\ 2^TreeHeight \in Nat \ {0} /\ 2^TreeHeight < Leaves /\ Leaves \in Nat

ParamsInv == \E k \in BdsKs : params = [tree_height |-> TreeHeight, bds_k |-> k, d |-> Layers]

LEMMA UpdatesAre ==
  ASSUME CharFits, ParamsInv
  PROVE  ParamsFit
<1>1. PICK k \in BdsKs : params = [tree_height |-> TreeHeight, bds_k |-> k, d |-> Layers]
  BY DEF ParamsInv
<1>2. k \in 0 .. TreeHeight /\ TreeHeight \in Nat
  BY Sizes, XmssmtFastAssumption
<1>3. Sized(params) /\ Instances(params) = TreeHeight - k
  BY <1>1, <1>2 DEF Sized, Instances
<1>4. UpdatesPerCall = Shr(TreeHeight - k, 1)
  BY <1>3 DEF UpdatesPerCall
<1>5. UpdatesPerCall \in Nat
  <2>1. 2^1 = 2
    BY TreePowers, PowersUp, Sizes
  <2> DEFINE n == TreeHeight - k
  <2>2. n \in Nat
    BY <1>2
  <2> HIDE DEF n
  <2>3. n \div 2 \in Nat
    BY <2>2
  <2> QED
    BY <1>4, <2>1, <2>3 DEF Shr, n
<1>6. /\ UpdatesPerCall < 128
      /\ Layers - 2 <= UpdatesPerCall \/ Layers - 2 - UpdatesPerCall + 2^TreeHeight <= 128
  BY <1>4 DEF CharFits
<1>7. 2^TreeHeight \in Nat \ {0} /\ 2^TreeHeight < Leaves /\ Leaves \in Nat
  <2> DEFINE m == TreeHeight * Layers
  <2>1. \A a \in 0 .. m : 2^(a + 1) = 2 * 2^a
    BY PowersAssumption DEF PowersOfTwo
  <2>2. m \in Nat /\ TreeHeight < m
    BY Sizes
  <2> HIDE DEF m
  <2>3. 2^TreeHeight < 2^m
    BY <1>2, <2>1, <2>2, Rules!PowLess
  <2> QED
    BY <2>3, LeavesNat, Powers DEF Leaves, m
<1> QED
  BY <1>3, <1>5, <1>6, <1>7, UnsignedAssumption DEF CharFits, ParamsFit

(***************************************************************************)
(* The number of updates x that layer i finds when l are left: l, or, when *)
(* none is, a number that has wrapped.                                     *)
(***************************************************************************)
Wrapped(x, most) == \E s \in 1 .. most : x = UINT_SPACE - s

Counts(x, l, i, e, spare) ==
  \/ l \in 0 .. UpdatesPerCall /\ x = l
  \/ /\ l = -1 /\ e > UpdatesPerCall /\ i > UpdatesPerCall
     /\ Wrapped(x, i - UpdatesPerCall + spare)

\* Spent on the tree in use of the lowest layer e that goes on, or above it.
Before(i, e) == IF i > e THEN 2^TreeHeight ELSE 0

\* The result r of bds_treehash_update there, if layer i found l updates.
TreeServed(e, i, l, r) ==
  /\ Shaped(params, r.state) /\ (i > UpdatesPerCall => Settled(r.state))
  /\ i <= Layers - 2 =>
       \E v \in Spending!Remainders(l) : Counts(r.updates, v, i, e, 2^TreeHeight)

LEMMA LayerSpent ==
  ASSUME ParamsFit, NEW e \in 0 .. Layers - 1, NEW i \in e .. Layers - 1,
         NEW x, NEW l, Counts(x, l, i, e, Before(i, e)),
         i = e => l = IF i <= UpdatesPerCall THEN UpdatesPerCall - i ELSE -1,
         NEW s, Shaped(params, s), i > UpdatesPerCall => Settled(s),
         NEW leaf, NEW seed, NEW addr,
         NEW round,
         round = IF i = e THEN bds_round(params, s, leaf, seed, addr) ELSE s
  PROVE  TreeServed(e, i, l, bds_treehash_update(params, round, x, seed, addr))
<1> DEFINE r == bds_treehash_update(params, round, x, seed, addr)
<1> SUFFICES TreeServed(e, i, l, r)
  OBVIOUS
<1>1. /\ Shaped(params, round)
      /\ i # e => round = s
      /\ Settled(s) => Settled(round) \/ \E c : AtWork(round, c, 0)
  BY RoundIs DEF ParamsFit
<1>2. x \in Nat
  <2>1. UpdatesPerCall \in Nat /\ UINT_SPACE \in Nat /\ 2^TreeHeight + Layers <= UINT_SPACE
        /\ 2^TreeHeight \in Nat
    BY DEF ParamsFit
  <2>2. i - UpdatesPerCall + Before(i, e) <= UINT_SPACE
    BY <2>1, Sizes DEF Before
  <2> QED
    BY <2>1, <2>2, Sizes DEF Counts, Wrapped, Before
<1>3. PICK used : Spent(params, round, x, r, used)
  BY <1>1, <1>2, SpentIs DEF ParamsFit
<1> HIDE DEF r
<1>4. /\ used \in Nat /\ used <= x /\ used <= 2^TreeHeight /\ r.updates = ThroughChar(x - used)
      /\ Shaped(params, r.state)
      /\ Settled(round) => Settled(r.state) /\ used = 0
      /\ x >= 2^TreeHeight /\ (\E a : AtWork(round, a, 0)) => Settled(r.state)
  BY <1>3 DEF Spent
<1>5. /\ UpdatesPerCall \in 0 .. 127 /\ UINT_SPACE \in Nat /\ 2^TreeHeight \in Nat
      /\ 2^TreeHeight + Layers <= UINT_SPACE /\ Layers \in Nat
      /\ \A y \in 0 .. 127 : ThroughChar(y) = y
      /\ \A y \in 1 .. 128 : ThroughChar(UINT_SPACE - y) = UINT_SPACE - y
  BY ThroughCharIs, Sizes DEF ParamsFit
<1>6. CASE l \in 0 .. UpdatesPerCall /\ x = l
  <2>1. i > UpdatesPerCall => Settled(r.state)
    BY <1>1, <1>4, <1>5, <1>6
  <2>2. x - used \in 0 .. 127 /\ x - used \in 0 .. l
    BY <1>4, <1>5, <1>6
  <2>3. r.updates = x - used
    BY <1>4, <1>5, <2>2
  <2>4. x - used \in Spending!Remainders(l)
    BY <1>6, <2>2 DEF Spending!Remainders, Spending!Endless
  <2>5. Counts(r.updates, x - used, i, e, 2^TreeHeight)
    BY <1>5, <1>6, <2>2, <2>3 DEF Counts
  <2> QED
    BY <1>4, <2>1, <2>4, <2>5 DEF TreeServed
<1>7. CASE l = -1 /\ e > UpdatesPerCall /\ i > UpdatesPerCall
           /\ Wrapped(x, i - UpdatesPerCall + Before(i, e))
  <2>1. PICK t \in 1 .. i - UpdatesPerCall + Before(i, e) : x = UINT_SPACE - t
    BY <1>7 DEF Wrapped
  <2>2. Settled(round) \/ i = e
    BY <1>1, <1>7
  <2>3. i = e => x >= 2^TreeHeight
    BY <1>5, <2>1 DEF Before
  <2>4. Settled(r.state)
    BY <1>1, <1>4, <1>7, <2>2, <2>3
  <2>5. t + used \in 1 .. i - UpdatesPerCall + 2^TreeHeight
    <3>1. CASE i = e
      BY <1>4, <1>5, <2>1, <3>1 DEF Before
    <3>2. CASE i # e
      <4>1. used = 0
        BY <1>4, <2>2, <3>2
      <4> QED
        BY <1>5, <2>1, <3>2, <4>1 DEF Before
    <3> QED
      BY <3>1, <3>2
  <2>6. ASSUME i <= Layers - 2
        PROVE  Counts(r.updates, -1, i, e, 2^TreeHeight)
    <3>1. Layers - 2 - UpdatesPerCall + 2^TreeHeight <= 128
      BY <1>5, <1>7, <2>6 DEF ParamsFit
    <3>2. t + used \in 1 .. 128
      <4> DEFINE w == 2^TreeHeight
                 y == t + used
      <4>1. w \in Nat /\ y \in 1 .. i - UpdatesPerCall + w
            /\ Layers - 2 - UpdatesPerCall + w <= 128
        BY <1>5, <2>5, <3>1
      <4> HIDE DEF w, y
      <4>2. i \in Nat /\ UpdatesPerCall \in Nat /\ Layers \in Nat /\ i <= Layers - 2
        BY <1>5, <2>6
      <4>3. i - UpdatesPerCall + w <= 128
        BY <4>1, <4>2
      <4>4. y \in Int /\ 1 <= y /\ y <= i - UpdatesPerCall + w /\ i - UpdatesPerCall + w \in Int
        BY <4>1, <4>2
      <4>5. y \in 1 .. 128
        BY <4>3, <4>4
      <4> QED
        BY <4>5 DEF y
    <3>3. x - used = UINT_SPACE - (t + used)
      BY <1>4, <1>5, <2>1
    <3>4. r.updates = UINT_SPACE - (t + used)
      BY <1>4, <1>5, <3>2, <3>3
    <3> QED
      BY <1>7, <2>5, <3>4 DEF Counts, Wrapped
  <2>7. -1 \in Spending!Remainders(l)
    BY <1>7 DEF Spending!Remainders, Spending!Endless
  <2> QED
    BY <1>4, <2>4, <2>6, <2>7 DEF TreeServed
<1> QED
  BY <1>6, <1>7 DEF Counts

(***************************************************************************)
(* A call with a live key, before the last index: e is the lowest layer    *)
(* whose tree goes on.                                                     *)
(***************************************************************************)
Calling(e) ==
  /\ ParamsFit /\ sk.idx < LastIndex /\ e \in 0 .. Layers - 1
  /\ ~ HasNext(sk.idx, Layers - 1)
  /\ \A j \in 0 .. Layers - 1 : /\ AtTreeEnd(sk.idx, j) <=> j < e
                                /\ Spending!Ended(j) <=> j < e
                                /\ Spending!HasNext(j) <=> HasNext(sk.idx, j)
  /\ \A j \in 0 .. Layers - 2 : LeavesReady[j] \in 0 .. 2^TreeHeight

\* The leaves of NEXT_j before the turn of its layer.
ReadyBefore(j) ==
  IF j = 0 /\ HasNext(sk.idx, 0) THEN Spending!Fed(0) ELSE LeavesReady[j]

\* The trees of the key: an instance that the updates of a call do not reach
\* is at rest.
Array(states) == states = [j \in 0 .. 2 * Layers - 2 |-> states[j]]

TreesAre(states) ==
  /\ Array(states)
  /\ DOMAIN states = 0 .. 2 * Layers - 2
  /\ \A j \in 0 .. 2 * Layers - 2 : Shaped(params, states[j])
  /\ \A j \in 0 .. Layers - 1 : j > UpdatesPerCall => Settled(states[j])

\* The updates that the layers below i have left, layer by layer.
Left(e, states, updates, i, left) ==
  /\ left[0] = UpdatesPerCall
  /\ \A j \in 0 .. Layers - 2 :
       j < i => Spending!Turn(j, left[j], left[j + 1], states[Layers + j].next_leaf)
  /\ i < Layers => Counts(updates, left[i], i, e, Before(i, e))
  /\ i <= e => left[i] = IF i <= UpdatesPerCall THEN UpdatesPerCall - i ELSE -1

Lefts == [0 .. Layers - 1 -> -1 .. UpdatesPerCall]

CallInv(p, w, i) ==
  /\ {"states", "wots_sigs", "updates", "needswap_upto"} \subseteq DOMAIN w
  /\ w.needswap_upto = (IF i <= p[2] THEN i ELSE p[2]) - 1
  /\ TreesAre(w.states)
  /\ \A j \in 0 .. Layers - 2 : j >= i => w.states[Layers + j].next_leaf = ReadyBefore(j)
  /\ \E left \in Lefts : Left(p[2], w.states, w.updates, i, left)

Calls == INSTANCE LoopRules WITH Body <- AdvanceTurn, Inv <- CallInv

\* Advanced is that loop.
LEMMA CallIs ==
  ASSUME NEW p
  PROVE  Advanced(p[1]) =
           Calls!TheFor(p, Layers,
             FeedLowest([states |-> p[1].states, wots_sigs |-> p[1].wots_sigs,
                         updates |-> Shr(Instances(params), 1), needswap_upto |-> -1],
                        p[1].idx, p[1].seed))
  BY DEF Advanced, AdvanceTurn, For, Calls!TheFor, Calls!For

\* One layer more.
LEMMA LeftNext ==
  ASSUME NEW e \in 0 .. Layers - 1, NEW i \in 0 .. Layers - 2,
         NEW states, NEW updates, NEW left \in Lefts, Left(e, states, updates, i, left),
         NEW after, NEW x, NEW v \in -1 .. UpdatesPerCall,
         \A j \in 0 .. Layers - 2 : j # i => after[Layers + j] = states[Layers + j],
         Spending!Turn(i, left[i], v, after[Layers + i].next_leaf),
         Counts(x, v, i + 1, e, Before(i + 1, e)),
         i + 1 <= e => v = IF i + 1 <= UpdatesPerCall THEN UpdatesPerCall - (i + 1) ELSE -1
  PROVE  \E more \in Lefts : Left(e, after, x, i + 1, more)
<1> DEFINE more == [left EXCEPT ![i + 1] = v]
<1>0. Layers \in Nat /\ i + 1 \in 0 .. Layers - 1 /\ i + 1 # 0
  BY Sizes
<1>1. more \in Lefts
  BY DEF Lefts
<1>2. /\ more[i + 1] = v /\ more[0] = left[0]
      /\ \A j \in 0 .. Layers - 1 : j # i + 1 => more[j] = left[j]
  BY <1>0 DEF Lefts
<1> HIDE DEF more
<1>3. ASSUME NEW j \in 0 .. Layers - 2, j < i + 1
      PROVE  Spending!Turn(j, more[j], more[j + 1], after[Layers + j].next_leaf)
  <2>1. CASE j = i
    <3>1. more[j] = left[i] /\ more[j + 1] = v
      BY <1>0, <1>2, <2>1
    <3> QED
      BY <2>1, <3>1
  <2>2. CASE j # i
    <3>1. j < i /\ j \in 0 .. Layers - 1 /\ j + 1 \in 0 .. Layers - 1 /\ j # i + 1 /\ j + 1 # i + 1
      BY <1>0, <1>3, <2>2
    <3>2. more[j] = left[j] /\ more[j + 1] = left[j + 1]
      BY <1>2, <3>1
    <3>3. after[Layers + j] = states[Layers + j]
      BY <2>2
    <3>4. Spending!Turn(j, left[j], left[j + 1], states[Layers + j].next_leaf)
      BY <3>1 DEF Left
    <3> QED
      BY <3>2, <3>3, <3>4
  <2> QED
    BY <2>1, <2>2
<1>4. Left(e, after, x, i + 1, more)
  <2>1. left[0] = UpdatesPerCall
    BY DEF Left
  <2> QED
    BY <1>2, <1>3, <2>1 DEF Left
<1> QED
  BY <1>1, <1>4

\* The trees after the turn of layer i: a in use, b to replace it.
TwoPut(states, i, a, b) == [[states EXCEPT ![i] = a] EXCEPT ![Layers + i] = b]

Replaced(states, i, b, after) ==
  /\ TreesAre(after) /\ after[Layers + i] = b
  /\ \A j \in 0 .. Layers - 2 : j # i => after[Layers + j] = states[Layers + j]

LEMMA TwoTrees ==
  ASSUME NEW states, TreesAre(states), NEW i \in 0 .. Layers - 2, NEW a, NEW b,
         Shaped(params, a), Shaped(params, b), i > UpdatesPerCall => Settled(a)
  PROVE  Replaced(states, i, b, TwoPut(states, i, a, b))
<1> DEFINE after == TwoPut(states, i, a, b)
<1>0. Layers \in Nat
  BY Sizes
<1>1. DOMAIN states = 0 .. 2 * Layers - 2
  BY DEF TreesAre
<1>2. /\ DOMAIN after = DOMAIN states /\ after[i] = a /\ after[Layers + i] = b
      /\ \A j \in DOMAIN states : j # i /\ j # Layers + i => after[j] = states[j]
  BY <1>0, <1>1 DEF TwoPut
<1>3. \A j \in 0 .. Layers - 2 : j # i => after[Layers + j] = states[Layers + j]
  BY <1>0, <1>1, <1>2
<1> HIDE DEF after
<1>4. ASSUME NEW j \in 0 .. 2 * Layers - 2
      PROVE  Shaped(params, after[j])
  <2>1. Shaped(params, states[j])
    BY DEF TreesAre
  <2> QED
    BY <1>1, <1>2, <2>1
<1>5. ASSUME NEW j \in 0 .. Layers - 1, j > UpdatesPerCall
      PROVE  Settled(after[j])
  <2>1. Settled(states[j])
    BY <1>5 DEF TreesAre
  <2>2. j \in DOMAIN states /\ j # Layers + i
    BY <1>0, <1>1
  <2> QED
    BY <1>2, <1>5, <2>1, <2>2
<1>6. TreesAre(after)
  <2>1. Array(after)
    BY <1>1 DEF after, TwoPut, Array
  <2> QED
    BY <1>1, <1>2, <1>4, <1>5, <2>1 DEF TreesAre
<1> QED
  BY <1>2, <1>3, <1>6 DEF after, Replaced

\* A swap costs one update, there or not.
LEMMA SwapCounts ==
  ASSUME ParamsFit, NEW e \in 0 .. Layers - 1, NEW i \in 0 .. e - 1, NEW x, NEW l,
         Counts(x, l, i, e, 0),
         l = IF i <= UpdatesPerCall THEN UpdatesPerCall - i ELSE -1,
         NEW v, v = Spending!OneLess(l)
  PROVE  /\ v \in -1 .. UpdatesPerCall
         /\ v = IF i + 1 <= UpdatesPerCall THEN UpdatesPerCall - (i + 1) ELSE -1
         /\ Counts(Unsigned(x - 1), v, i + 1, e, 0)
<1>1. /\ UpdatesPerCall \in 0 .. 127 /\ UINT_SPACE \in Nat /\ UINT_SPACE >= 256
      /\ UINT_SPACE >= Layers /\ Layers \in Nat
      /\ Unsigned(0 - 1) = UINT_SPACE - 1
      /\ \A y \in 1 .. UINT_SPACE : Unsigned(y - 1) = y - 1
  BY OneLessIs, ThroughCharIs, Sizes DEF ParamsFit
<1>2. /\ v \in -1 .. UpdatesPerCall
      /\ v = IF i + 1 <= UpdatesPerCall THEN UpdatesPerCall - (i + 1) ELSE -1
  BY <1>1 DEF Spending!OneLess, Spending!Endless
<1>3. CASE l \in 0 .. UpdatesPerCall /\ x = l /\ x > 0
  <2>1. Unsigned(x - 1) = x - 1 /\ v = x - 1
    BY <1>1, <1>3 DEF Spending!OneLess, Spending!Endless
  <2> QED
    BY <1>1, <1>2, <1>3, <2>1 DEF Counts
<1>4. CASE l \in 0 .. UpdatesPerCall /\ x = l /\ x = 0
  <2>1. v = -1 /\ Unsigned(x - 1) = UINT_SPACE - 1 /\ i = UpdatesPerCall
    BY <1>1, <1>4 DEF Spending!OneLess, Spending!Endless
  <2>2. Wrapped(UINT_SPACE - 1, i + 1 - UpdatesPerCall + 0)
    BY <1>1, <2>1 DEF Wrapped
  <2> QED
    BY <1>1, <2>1, <2>2 DEF Counts
<1>5. CASE l = -1 /\ i > UpdatesPerCall /\ Wrapped(x, i - UpdatesPerCall + 0)
  <2>1. PICK s \in 1 .. i - UpdatesPerCall : x = UINT_SPACE - s
    BY <1>1, <1>5 DEF Wrapped
  <2>2. x \in 1 .. UINT_SPACE /\ x - 1 = UINT_SPACE - (s + 1)
    BY <1>1, <2>1
  <2>3. Unsigned(x - 1) = UINT_SPACE - (s + 1)
    BY <1>1, <2>2
  <2>4. s + 1 \in 1 .. i + 1 - UpdatesPerCall + 0
    BY <1>1, <2>1
  <2>5. v = -1
    BY <1>5 DEF Spending!OneLess, Spending!Endless
  <2> QED
    BY <1>1, <1>5, <2>3, <2>4, <2>5 DEF Counts, Wrapped
<1> QED
  BY <1>1, <1>3, <1>4, <1>5 DEF Counts

\* The two states after a swap.
LEMMA SwappedAre ==
  ASSUME NEW s, Shaped(params, s)
  PROVE  /\ LET a == [s EXCEPT !.treehash =
                        [j \in DOMAIN @ |-> [@[j] EXCEPT !.completed = 1]]]
            IN  Shaped(params, a) /\ Settled(a)
         /\ LET b == [s EXCEPT !.stackoffset = 0, !.next_leaf = 0]
            IN  Shaped(params, b) /\ b.next_leaf = 0
<1> DEFINE th == [j \in DOMAIN s.treehash |-> [s.treehash[j] EXCEPT !.completed = 1]]
           a  == [s EXCEPT !.treehash = th]
           b  == [[s EXCEPT !.stackoffset = 0] EXCEPT !.next_leaf = 0]
<1>1. /\ DOMAIN th = DOMAIN s.treehash
      /\ \A j \in DOMAIN th : DOMAIN th[j] = DOMAIN s.treehash[j]
      /\ \A j \in DOMAIN th : "completed" \in DOMAIN s.treehash[j]
      /\ \A j \in DOMAIN th : th[j].completed = 1
  BY DEF Shaped
<1> HIDE DEF th
<1>2. Shaped(params, a) /\ Settled(a)
  <2>1. DOMAIN a = DOMAIN s /\ a.treehash = th /\ a.stackoffset = s.stackoffset
    BY DEF Shaped
  <2> QED
    BY <1>1, <2>1 DEF Shaped, Settled
<1>3. Shaped(params, b) /\ b.next_leaf = 0
  <2>1. DOMAIN b = DOMAIN s /\ b.treehash = s.treehash /\ b.stackoffset = 0 /\ b.next_leaf = 0
    BY DEF Shaped
  <2> HIDE DEF b
  <2>2. /\ {"stack", "stackoffset", "stacklevels", "auth", "keep", "treehash", "retain",
            "next_leaf"} \subseteq DOMAIN b
        /\ DOMAIN b.treehash = 0 .. Instances(params) - 1
    BY <2>1 DEF Shaped
  <2>3. \A j \in DOMAIN b.treehash :
          {"h", "next_idx", "stackusage", "completed", "node"} \subseteq DOMAIN b.treehash[j]
    BY <2>1 DEF Shaped
  <2>4. b.stackoffset \in Int
    BY <2>1
  <2> QED
    BY <2>1, <2>2, <2>3, <2>4 DEF Shaped
<1> QED
  BY <1>2, <1>3 DEF th

LEMMA SwapKeeps ==
  ASSUME NEW e, Calling(e), NEW w, NEW i \in 0 .. e - 1, NEW p, p = <<sk, e>>,
         CallInv(p, w, i)
  PROVE  CallInv(p, SwapLayer(w, i, sk.idx, sk.seed), i + 1)
<1> DEFINE u  == SwapLayer(w, i, sk.idx, sk.seed)
           a  == [w.states[Layers + i] EXCEPT !.treehash =
                    [j \in DOMAIN @ |-> [@[j] EXCEPT !.completed = 1]]]
           b  == [w.states[i] EXCEPT !.stackoffset = 0, !.next_leaf = 0]
           st == TwoPut(w.states, i, a, b)
           g  == wots_sign(w.states[Layers + i].stack[0], sk.seed, ParentAddr(sk.idx, i),
                           ParentLeaf(sk.idx, i))
           sg == [w.wots_sigs EXCEPT ![i] = g]
           x  == Unsigned(w.updates - 1)
<1>0. /\ p[2] = e /\ e \in 0 .. Layers - 1 /\ Layers \in Nat \ {0, 1} /\ ParamsFit
      /\ {"states", "wots_sigs", "updates", "needswap_upto"} \subseteq DOMAIN w
      /\ TreesAre(w.states)
  BY Sizes DEF Calling, CallInv
<1>1. u = [[[[w EXCEPT !.states = st] EXCEPT !.wots_sigs = sg] EXCEPT !.updates = x]
             EXCEPT !.needswap_upto = i]
  <2> HIDE DEF a, b, g, x
  <2>1. SwapLayer(w, i, sk.idx, sk.seed) =
          [w EXCEPT !.states[i] = a, !.states[Layers + i] = b, !.wots_sigs[i] = g,
                    !.updates = x, !.needswap_upto = i]
    BY DEF SwapLayer, a, b, g, x
  <2> QED
    BY <1>0, <2>1 DEF TwoPut
<1>2. /\ Shaped(params, a) /\ Settled(a) /\ Shaped(params, b) /\ b.next_leaf = 0
  <2>1. i \in 0 .. 2 * Layers - 2 /\ Layers + i \in 0 .. 2 * Layers - 2
    BY <1>0
  <2>2. Shaped(params, w.states[i]) /\ Shaped(params, w.states[Layers + i])
    BY <1>0, <2>1 DEF TreesAre
  <2> QED
    BY <2>2, SwappedAre
<1> HIDE DEF a, b, sg, x, u
<1>3. /\ DOMAIN u = DOMAIN w /\ u.states = st /\ u.updates = x /\ u.needswap_upto = i
  <2> HIDE DEF st
  <2> QED
    BY <1>0, <1>1
<1>4. i \in 0 .. Layers - 2
  BY <1>0
<1>5. /\ TreesAre(st) /\ st[Layers + i] = b
      /\ \A j \in 0 .. Layers - 2 : j # i => st[Layers + j] = w.states[Layers + j]
  <2>1. Replaced(w.states, i, b, st)
    BY <1>0, <1>2, <1>4, TwoTrees
  <2> HIDE DEF st
  <2> QED
    BY <2>1 DEF Replaced
<1> HIDE DEF st
<1>6. PICK left \in Lefts : Left(e, w.states, w.updates, i, left)
  BY <1>0 DEF CallInv
<1> DEFINE v == Spending!OneLess(left[i])
<1>7. /\ v \in -1 .. UpdatesPerCall
      /\ v = IF i + 1 <= UpdatesPerCall THEN UpdatesPerCall - (i + 1) ELSE -1
      /\ Counts(x, v, i + 1, e, 0)
  <2>1. /\ left[i] = IF i <= UpdatesPerCall THEN UpdatesPerCall - i ELSE -1
        /\ Counts(w.updates, left[i], i, e, 0)
    BY <1>0, <1>4, <1>6 DEF Left, Before
  <2> QED
    BY <1>0, <2>1, SwapCounts DEF x
<1>8. Spending!Turn(i, left[i], v, st[Layers + i].next_leaf)
  <2>1. Spending!Ended(i)
    BY <1>0, <1>4 DEF Calling
  <2> QED
    BY <1>2, <1>5, <2>1 DEF Spending!Turn
<1>9. Before(i + 1, e) = 0
  BY <1>0 DEF Before
<1> HIDE DEF v
<1>10. \E more \in Lefts : Left(e, st, x, i + 1, more)
  BY <1>0, <1>4, <1>5, <1>6, <1>7, <1>8, <1>9, LeftNext
<1>11. ASSUME NEW j \in 0 .. Layers - 2, j >= i + 1
       PROVE  st[Layers + j].next_leaf = ReadyBefore(j)
  <2>1. j # i /\ j >= i
    BY <1>0, <1>11
  <2>2. w.states[Layers + j].next_leaf = ReadyBefore(j)
    BY <2>1 DEF CallInv
  <2> QED
    BY <1>5, <2>1, <2>2
<1>12. u.needswap_upto = (IF i + 1 <= e THEN i + 1 ELSE e) - 1
  BY <1>0, <1>3
<1>13. CallInv(p, u, i + 1)
  BY <1>0, <1>3, <1>5, <1>10, <1>11, <1>12 DEF CallInv
<1> QED
  BY <1>13 DEF u

\* A layer that goes on leaves v updates, and NEXT takes one of them, if any.
LEMMA FeedCounts ==
  ASSUME ParamsFit, NEW e \in 0 .. Layers - 1, NEW i \in e .. Layers - 2, NEW x, NEW v,
         Counts(x, v, i, e, 2^TreeHeight)
  PROVE  /\ v \in -1 .. UpdatesPerCall /\ (x > 0 <=> v # 0)
         /\ Counts(x, v, i + 1, e, Before(i + 1, e))
         /\ v # 0 => /\ Spending!OneLess(v) \in -1 .. UpdatesPerCall
                     /\ Counts(x - 1, Spending!OneLess(v), i + 1, e, Before(i + 1, e))
<1>1. /\ UpdatesPerCall \in 0 .. 127 /\ UINT_SPACE \in Nat /\ 2^TreeHeight \in Nat
      /\ 2^TreeHeight + Layers <= UINT_SPACE /\ Layers \in Nat
      /\ Before(i + 1, e) = 2^TreeHeight
  BY Sizes DEF ParamsFit, Before
<1>2. CASE v \in 0 .. UpdatesPerCall /\ x = v
  BY <1>1, <1>2 DEF Counts, Spending!OneLess, Spending!Endless
<1>3. CASE v = -1 /\ e > UpdatesPerCall /\ i > UpdatesPerCall
           /\ Wrapped(x, i - UpdatesPerCall + 2^TreeHeight)
  <2> DEFINE b == 2^TreeHeight
             most == i + 1 - UpdatesPerCall + b
  <2>1. PICK s \in 1 .. i - UpdatesPerCall + b : x = UINT_SPACE - s
    BY <1>3 DEF Wrapped
  <2>2. b \in Nat /\ b + Layers <= UINT_SPACE
    BY <1>1
  <2> HIDE DEF b
  <2>3. x \in Nat /\ x > 0 /\ x - 1 = UINT_SPACE - (s + 1)
    BY <1>1, <2>1, <2>2
  <2>4. s \in 1 .. most /\ s + 1 \in 1 .. most
    BY <1>1, <2>1, <2>2
  <2>5. Wrapped(x, most) /\ Wrapped(x - 1, most)
    BY <2>1, <2>3, <2>4 DEF Wrapped
  <2>6. Spending!OneLess(v) = -1
    BY <1>3 DEF Spending!OneLess, Spending!Endless
  <2>7. e > UpdatesPerCall /\ i + 1 > UpdatesPerCall /\ v = -1 /\ Before(i + 1, e) = b
    BY <1>1, <1>3 DEF b
  <2> QED
    BY <1>1, <2>3, <2>5, <2>6, <2>7 DEF Counts
<1> QED
  BY <1>2, <1>3 DEF Counts

LEMMA TopKeeps ==
  ASSUME NEW e, Calling(e), NEW w, NEW p, p = <<sk, e>>, CallInv(p, w, Layers - 1)
  PROVE  CallInv(p, AdvanceLayer(w, Layers - 1, sk.idx, sk.seed), Layers)
<1> DEFINE i == Layers - 1
           u     == AdvanceLayer(w, i, sk.idx, sk.seed)
           addr  == AddrAt(sk.idx, i)
           round == IF i = w.needswap_upto + 1
                    THEN bds_round(params, w.states[i], LeafAt(sk.idx, i), sk.seed, addr)
                    ELSE w.states[i]
           spent == bds_treehash_update(params, round, w.updates, sk.seed, addr)
           st    == [w.states EXCEPT ![i] = spent.state]
<1>0. /\ p[2] = e /\ e \in 0 .. Layers - 1 /\ Layers \in Nat \ {0, 1} /\ ParamsFit
      /\ {"states", "wots_sigs", "updates", "needswap_upto"} \subseteq DOMAIN w
      /\ TreesAre(w.states) /\ ~ HasNext(sk.idx, i)
  BY Sizes DEF Calling, CallInv
<1>1. u = [[w EXCEPT !.states = st] EXCEPT !.updates = spent.updates]
  BY <1>0 DEF AdvanceLayer
<1>2. PICK left \in Lefts : Left(e, w.states, w.updates, i, left)
  BY <1>0 DEF CallInv
<1>3. w.needswap_upto = e - 1
  BY <1>0 DEF CallInv
<1>4. Shaped(params, spent.state) /\ (i > UpdatesPerCall => Settled(spent.state))
  <2>1. round = IF i = e THEN bds_round(params, w.states[i], LeafAt(sk.idx, i), sk.seed, addr)
                ELSE w.states[i]
    BY <1>0, <1>3
  <2> HIDE DEF addr, round
  <2>2. /\ Counts(w.updates, left[i], i, e, Before(i, e))
        /\ i = e => left[i] = IF i <= UpdatesPerCall THEN UpdatesPerCall - i ELSE -1
    BY <1>0, <1>2 DEF Left
  <2>3. i \in e .. Layers - 1 /\ i \in 0 .. 2 * Layers - 2 /\ i \in 0 .. Layers - 1
    BY <1>0
  <2>4. Shaped(params, w.states[i]) /\ (i > UpdatesPerCall => Settled(w.states[i]))
    BY <1>0, <2>3 DEF TreesAre
  <2> HIDE DEF i
  <2> QED
    <3>1. TreeServed(e, i, left[i], spent)
      BY <1>0, <2>1, <2>2, <2>3, <2>4, LayerSpent
    <3> HIDE DEF spent
    <3> QED
      BY <3>1 DEF TreeServed
<1> HIDE DEF spent, u
<1>5. /\ DOMAIN u = DOMAIN w /\ u.states = st /\ u.needswap_upto = w.needswap_upto
  <2> HIDE DEF st
  <2> QED
    BY <1>0, <1>1
<1>6. /\ DOMAIN w.states = 0 .. 2 * Layers - 2
      /\ DOMAIN st = 0 .. 2 * Layers - 2 /\ st[i] = spent.state
      /\ \A j \in 0 .. 2 * Layers - 2 : j # i => st[j] = w.states[j]
  BY <1>0 DEF TreesAre
<1>7. TreesAre(st)
  <2>1. Array(st)
    BY <1>6 DEF Array
  <2> HIDE DEF st
  <2> QED
    BY <1>0, <1>4, <1>6, <2>1 DEF TreesAre
<1> HIDE DEF st
<1>8. Left(e, st, u.updates, Layers, left)
  <2>1. ASSUME NEW j \in 0 .. Layers - 2
        PROVE  Spending!Turn(j, left[j], left[j + 1], st[Layers + j].next_leaf)
    <3>1. Layers + j \in 0 .. 2 * Layers - 2 /\ Layers + j # i /\ j < i
      BY <1>0
    <3>2. st[Layers + j] = w.states[Layers + j]
      BY <1>6, <3>1
    <3> QED
      BY <1>2, <3>1, <3>2 DEF Left
  <2>2. left[0] = UpdatesPerCall
    BY <1>2 DEF Left
  <2>3. ~ (Layers < Layers) /\ ~ (Layers <= e)
    BY <1>0
  <2> QED
    BY <2>1, <2>2, <2>3 DEF Left
<1>9. u.needswap_upto = (IF Layers <= e THEN Layers ELSE e) - 1
  BY <1>0, <1>3, <1>5
<1>10. \A j \in 0 .. Layers - 2 : ~ (j >= Layers)
  BY <1>0
<1>11. CallInv(p, u, Layers)
  BY <1>0, <1>5, <1>7, <1>8, <1>9, <1>10 DEF CallInv
<1> QED
  BY <1>11 DEF u

\* The turn in the terms of Budget: v updates are left of l, fed says
\* whether NEXT_i takes one of them, and n is its count of leaves after that.
LEMMA TurnIs ==
  ASSUME NEW e, Calling(e), NEW i \in e .. Layers - 2, NEW l, NEW v,
         v \in Spending!Remainders(l), NEW fed \in BOOLEAN,
         fed <=> HasNext(sk.idx, i) /\ i > 0 /\ v # 0,
         NEW n, n = IF fed THEN Spending!Fed(i) ELSE ReadyBefore(i)
  PROVE  Spending!Turn(i, l, IF fed THEN Spending!OneLess(v) ELSE v, n)
<1>1. /\ i \in 0 .. Layers - 1 /\ ~ Spending!Ended(i)
      /\ Spending!HasNext(i) <=> HasNext(sk.idx, i)
  BY Sizes DEF Calling
<1>2. CASE i = 0
  BY <1>1, <1>2 DEF Spending!Turn, ReadyBefore
<1>3. CASE i # 0
  <2>1. i > 0
    BY <1>1, <1>3
  <2>2. CASE fed
    BY <1>1, <1>3, <2>1, <2>2 DEF Spending!Turn
  <2>3. CASE ~ fed
    <3>1. n = LeavesReady[i] /\ ~ (Spending!HasNext(i) /\ v # 0)
      BY <1>1, <1>3, <2>1, <2>3 DEF ReadyBefore
    <3> QED
      BY <1>1, <1>3, <2>3, <3>1 DEF Spending!Turn
  <2> QED
    BY <2>2, <2>3
<1> QED
  BY <1>2, <1>3

LEMMA AdvanceKeeps ==
  ASSUME NEW e, Calling(e), NEW w, NEW i \in e .. Layers - 2, NEW p, p = <<sk, e>>,
         CallInv(p, w, i)
  PROVE  CallInv(p, AdvanceLayer(w, i, sk.idx, sk.seed), i + 1)
<1> DEFINE u     == AdvanceLayer(w, i, sk.idx, sk.seed)
           addr  == AddrAt(sk.idx, i)
           round == IF i = w.needswap_upto + 1
                    THEN bds_round(params, w.states[i], LeafAt(sk.idx, i), sk.seed, addr)
                    ELSE w.states[i]
           spent == bds_treehash_update(params, round, w.updates, sk.seed, addr)
           x     == spent.updates
           s     == w.states[Layers + i]
           fed   == HasNext(sk.idx, i) /\ i > 0 /\ x > 0 /\ s.next_leaf < Leaves
           b     == IF fed THEN bds_state_update(params, s, sk.seed, NextAddr(sk.idx, i))
                           ELSE s
           st    == TwoPut(w.states, i, spent.state, b)
           y     == IF fed THEN x - 1 ELSE x
<1>0. /\ p[2] = e /\ e \in 0 .. Layers - 1 /\ Layers \in Nat \ {0, 1} /\ ParamsFit
      /\ {"states", "wots_sigs", "updates", "needswap_upto"} \subseteq DOMAIN w
      /\ TreesAre(w.states) /\ DOMAIN w.states = 0 .. 2 * Layers - 2
      /\ w.needswap_upto = e - 1
  BY Sizes DEF Calling, CallInv, TreesAre
<1>1. /\ i \in 0 .. Layers - 2 /\ i \in 0 .. Layers - 1 /\ i \in e .. Layers - 1
      /\ i \in 0 .. 2 * Layers - 2 /\ Layers + i \in 0 .. 2 * Layers - 2
      /\ Layers + i # i
  BY <1>0
<1>2. u = [[w EXCEPT !.states = st] EXCEPT !.updates = y]
  <2> DEFINE sa == spent.state
             bu == bds_state_update(params, s, sk.seed, NextAddr(sk.idx, i))
             after == [w EXCEPT !.states[i] = sa, !.updates = x]
  <2>1. u = IF fed THEN [after EXCEPT !.states[Layers + i] =
                           bds_state_update(params, @, sk.seed, NextAddr(sk.idx, i)),
                         !.updates = @ - 1]
            ELSE after
    BY DEF AdvanceLayer
  <2> HIDE DEF sa, x, fed, u
  <2>2. CASE fed
    <3>1. after.states[Layers + i] = s /\ after.updates = x
      BY <1>0, <1>1
    <3> HIDE DEF after
    <3>2. u = [[after EXCEPT !.states[Layers + i] = bu] EXCEPT !.updates = x - 1]
      BY <2>1, <2>2, <3>1
    <3> HIDE DEF bu
    <3>3. u = [[[w EXCEPT !.states[i] = sa, !.updates = x] EXCEPT !.states[Layers + i] = bu]
                EXCEPT !.updates = x - 1]
      BY <3>2 DEF after
    <3>4. u = [[w EXCEPT !.states = [[w.states EXCEPT ![i] = sa] EXCEPT ![Layers + i] = bu]]
                EXCEPT !.updates = x - 1]
      BY <1>0, <3>3
    <3> QED
      BY <2>2, <3>4 DEF TwoPut, sa, bu
  <2>3. CASE ~ fed
    <3>1. u = [[w EXCEPT !.states = [w.states EXCEPT ![i] = sa]] EXCEPT !.updates = x]
      BY <1>0, <2>1, <2>3
    <3> DEFINE one == [w.states EXCEPT ![i] = sa]
    <3>2. one = [one EXCEPT ![Layers + i] = s]
      BY <1>0, <1>1
    <3>3. TwoPut(w.states, i, sa, s) = one
      BY <3>2 DEF TwoPut
    <3> HIDE DEF one
    <3> QED
      BY <2>3, <3>1, <3>3 DEF one, sa
  <2> QED
    BY <2>2, <2>3
<1>3. PICK left \in Lefts : Left(e, w.states, w.updates, i, left)
  BY <1>0 DEF CallInv
<1> DEFINE l == left[i]
<1>4. /\ Shaped(params, spent.state) /\ (i > UpdatesPerCall => Settled(spent.state))
      /\ \E v \in Spending!Remainders(l) : Counts(x, v, i, e, 2^TreeHeight)
  <2>1. round = IF i = e THEN bds_round(params, w.states[i], LeafAt(sk.idx, i), sk.seed, addr)
                ELSE w.states[i]
    BY <1>0, <1>1
  <2> HIDE DEF addr, round
  <2>2. /\ Counts(w.updates, l, i, e, Before(i, e))
        /\ i = e => l = IF i <= UpdatesPerCall THEN UpdatesPerCall - i ELSE -1
    BY <1>0, <1>1, <1>3 DEF Left
  <2>3. Shaped(params, w.states[i]) /\ (i > UpdatesPerCall => Settled(w.states[i]))
    BY <1>0, <1>1 DEF TreesAre
  <2> HIDE DEF l
  <2>4. i <= Layers - 2
    BY <1>0, <1>1
  <2> QED
    <3>1. TreeServed(e, i, l, spent)
      BY <1>0, <1>1, <2>1, <2>2, <2>3, LayerSpent
    <3> HIDE DEF spent
    <3> QED
      BY <2>4, <3>1 DEF TreeServed
<1>5. PICK v \in Spending!Remainders(l) : Counts(x, v, i, e, 2^TreeHeight)
  BY <1>4
<1> HIDE DEF spent, u, x, l
<1>6. /\ v \in -1 .. UpdatesPerCall /\ (x > 0 <=> v # 0)
      /\ Counts(x, v, i + 1, e, Before(i + 1, e))
      /\ v # 0 => /\ Spending!OneLess(v) \in -1 .. UpdatesPerCall
                  /\ Counts(x - 1, Spending!OneLess(v), i + 1, e, Before(i + 1, e))
  BY <1>0, <1>5, FeedCounts
<1>7. /\ s.next_leaf = ReadyBefore(i) /\ Shaped(params, s) /\ LeavesReady[i] \in 0 .. 2^TreeHeight
      /\ i > 0 => s.next_leaf = LeavesReady[i]
  <2>1. s.next_leaf = ReadyBefore(i)
    BY <1>0, <1>1 DEF CallInv
  <2> QED
    BY <1>0, <1>1, <2>1 DEF Calling, TreesAre, ReadyBefore
<1>8. 2^TreeHeight \in Nat /\ 2^TreeHeight < Leaves /\ Leaves \in Nat /\ Sized(params)
  BY <1>0 DEF ParamsFit
<1>9. fed <=> HasNext(sk.idx, i) /\ i > 0 /\ v # 0
  <2> HIDE DEF s
  <2> QED
    BY <1>6, <1>7, <1>8
<1>10. Shaped(params, b) /\ b.next_leaf = IF fed THEN Spending!Fed(i) ELSE ReadyBefore(i)
  <2> HIDE DEF s
  <2>1. CASE fed
    <3>1. s.next_leaf = LeavesReady[i] /\ s.next_leaf \in 0 .. 2^TreeHeight
      BY <1>7, <2>1
    <3>2. b = bds_state_update(params, s, sk.seed, NextAddr(sk.idx, i))
      BY <2>1
    <3> HIDE DEF b, fed
    <3>3. /\ Shaped(params, b)
          /\ b.next_leaf = IF s.next_leaf < 2^TreeHeight THEN s.next_leaf + 1 ELSE s.next_leaf
      BY <1>7, <1>8, <3>1, <3>2, StateUpdateIs
    <3> QED
      BY <2>1, <3>1, <3>3 DEF Spending!Fed
  <2>2. CASE ~ fed
    BY <1>7, <2>2
  <2> QED
    BY <2>1, <2>2
<1> HIDE DEF b
<1>11. /\ TreesAre(st) /\ st[Layers + i] = b
       /\ \A j \in 0 .. Layers - 2 : j # i => st[Layers + j] = w.states[Layers + j]
  <2>1. Replaced(w.states, i, b, st)
    BY <1>0, <1>1, <1>4, <1>10, TwoTrees
  <2> HIDE DEF st
  <2> QED
    BY <2>1 DEF Replaced
<1> HIDE DEF st, y
<1>12. /\ DOMAIN u = DOMAIN w /\ u.states = st /\ u.updates = y
       /\ u.needswap_upto = w.needswap_upto
  BY <1>0, <1>2
<1> DEFINE z == IF fed THEN Spending!OneLess(v) ELSE v
<1>13. Spending!Turn(i, l, z, st[Layers + i].next_leaf)
  <2> HIDE DEF s
  <2>1. fed \in BOOLEAN
    OBVIOUS
  <2> HIDE DEF fed
  <2> QED
    BY <1>5, <1>9, <1>10, <1>11, <2>1, TurnIs
<1>14. z \in -1 .. UpdatesPerCall /\ Counts(y, z, i + 1, e, Before(i + 1, e))
  <2> HIDE DEF fed
  <2> QED
    BY <1>6, <1>9 DEF y
<1> HIDE DEF z, fed
<1>15. ~ (i + 1 <= e)
  BY <1>0, <1>1
<1>16. \E more \in Lefts : Left(e, st, y, i + 1, more)
  BY <1>0, <1>1, <1>3, <1>11, <1>13, <1>14, <1>15, LeftNext DEF l
<1>17. ASSUME NEW j \in 0 .. Layers - 2, j >= i + 1
       PROVE  st[Layers + j].next_leaf = ReadyBefore(j)
  <2>1. j # i /\ j >= i
    BY <1>0, <1>1, <1>17
  <2>2. w.states[Layers + j].next_leaf = ReadyBefore(j)
    BY <2>1 DEF CallInv
  <2> QED
    BY <1>11, <2>1, <2>2
<1>18. u.needswap_upto = (IF i + 1 <= e THEN i + 1 ELSE e) - 1
  BY <1>0, <1>12, <1>15
<1>19. CallInv(p, u, i + 1)
  BY <1>0, <1>11, <1>12, <1>16, <1>17, <1>18 DEF CallInv
<1> QED
  BY <1>19 DEF u

\* Before the layers: NEXT_0 has its leaf.
LEMMA CallBegins ==
  ASSUME NEW e, Calling(e), TreesAre(sk.states), sk.seed = RealSeed, NEW p, p = <<sk, e>>
  PROVE  CallInv(p, FeedLowest([states |-> sk.states, wots_sigs |-> sk.wots_sigs,
                                updates |-> Shr(Instances(params), 1), needswap_upto |-> -1],
                               sk.idx, sk.seed), 0)
<1> DEFINE start == [states |-> sk.states, wots_sigs |-> sk.wots_sigs,
                     updates |-> Shr(Instances(params), 1), needswap_upto |-> -1]
           u == FeedLowest(start, sk.idx, sk.seed)
           s == sk.states[Layers]
           fed == HasNext(sk.idx, 0)
           b == IF fed THEN bds_state_update(params, s, sk.seed, NextAddr(sk.idx, 0)) ELSE s
           st == TwoPut(sk.states, 0, sk.states[0], b)
<1>0. /\ p[2] = e /\ e \in 0 .. Layers - 1 /\ Layers \in Nat \ {0, 1} /\ ParamsFit
      /\ DOMAIN sk.states = 0 .. 2 * Layers - 2
      /\ Layers \in DOMAIN sk.states /\ 0 \in DOMAIN sk.states /\ 0 \in 0 .. Layers - 2
      /\ Layers + 0 = Layers /\ Layers # 0 /\ 0 \in 0 .. Layers - 1
      /\ UpdatesPerCall \in 0 .. 127
  BY Sizes DEF Calling, TreesAre, ParamsFit
<1>1. u = [start EXCEPT !.states = st]
  <2> DEFINE same == [sk.states EXCEPT ![0] = sk.states[0]]
             bu == bds_state_update(params, s, sk.seed, NextAddr(sk.idx, 0))
  <2>1. st = [same EXCEPT ![Layers] = b]
    BY <1>0 DEF TwoPut
  <2>2. u = IF fed THEN [start EXCEPT !.states = [sk.states EXCEPT ![Layers] = bu]] ELSE start
    BY DEF FeedLowest
  <2> HIDE DEF fed, bu
  <2>3. same = sk.states
    <3>1. Array(sk.states)
      BY DEF TreesAre
    <3> QED
      BY <1>0, <3>1 DEF Array
  <2> QED
    <3>1. CASE fed
      <4>1. b = bu
        BY <3>1 DEF bu
      <4> HIDE DEF b, same, start, st, u
      <4> QED
        BY <2>1, <2>2, <2>3, <3>1, <4>1
    <3>2. CASE ~ fed
      <4>1. b = sk.states[Layers] /\ start.states = sk.states
        BY <3>2
      <4>2. st = sk.states
        <5>1. Array(sk.states)
          BY DEF TreesAre
        <5> HIDE DEF b, same, start
        <5> QED
          BY <1>0, <2>1, <2>3, <4>1, <5>1 DEF Array
      <4>3. u = start /\ start = [start EXCEPT !.states = sk.states]
        BY <2>2, <3>2
      <4> HIDE DEF b, same, start, st, u
      <4> QED
        BY <4>2, <4>3
    <3> QED
      BY <3>1, <3>2
<1>2. Shaped(params, s) /\ Shaped(params, sk.states[0])
      /\ (0 > UpdatesPerCall => Settled(sk.states[0]))
  BY <1>0 DEF TreesAre
<1>3. s.next_leaf = LeavesReady[0] /\ LeavesReady[0] \in 0 .. 2^TreeHeight
  BY <1>0 DEF LeavesReady, Calling
<1>4. Shaped(params, b) /\ b.next_leaf = ReadyBefore(0)
  <2>1. CASE fed
    <3>1. b = bds_state_update(params, s, sk.seed, NextAddr(sk.idx, 0))
      BY <2>1
    <3>2. s.next_leaf \in 0 .. 2^TreeHeight /\ Sized(params) /\ Shaped(params, s)
      BY <1>0, <1>2, <1>3 DEF ParamsFit
    <3> HIDE DEF b, s, fed
    <3>3. /\ Shaped(params, b)
          /\ b.next_leaf = IF s.next_leaf < 2^TreeHeight THEN s.next_leaf + 1 ELSE s.next_leaf
      BY <3>1, <3>2, StateUpdateIs
    <3> QED
      BY <1>3, <2>1, <3>3 DEF fed, Spending!Fed, ReadyBefore
  <2>2. CASE ~ fed
    BY <1>2, <1>3, <2>2 DEF ReadyBefore
  <2> QED
    BY <2>1, <2>2
<1> HIDE DEF b
<1>5. /\ TreesAre(st) /\ st[Layers + 0] = b
      /\ \A j \in 0 .. Layers - 2 : j # 0 => st[Layers + j] = sk.states[Layers + j]
  <2>1. Replaced(sk.states, 0, b, st)
    BY <1>0, <1>2, <1>4, TwoTrees
  <2> HIDE DEF st
  <2> QED
    BY <2>1 DEF Replaced
<1> HIDE DEF st, u
<1>6. /\ {"states", "wots_sigs", "updates", "needswap_upto"} \subseteq DOMAIN u
      /\ u.states = st /\ u.updates = UpdatesPerCall /\ u.needswap_upto = -1
  BY <1>1 DEF UpdatesPerCall
<1>7. ASSUME NEW j \in 0 .. Layers - 2
      PROVE  st[Layers + j].next_leaf = ReadyBefore(j)
  <2>1. CASE j = 0
    BY <1>4, <1>5, <2>1
  <2>2. CASE j # 0
    BY <1>5, <2>2 DEF ReadyBefore, LeavesReady
  <2> QED
    BY <2>1, <2>2
<1>8. \E left \in Lefts : Left(e, st, UpdatesPerCall, 0, left)
  <2> DEFINE left == [j \in 0 .. Layers - 1 |-> UpdatesPerCall]
  <2>1. left \in Lefts /\ left[0] = UpdatesPerCall
    BY <1>0 DEF Lefts
  <2> HIDE DEF left
  <2>2. Counts(UpdatesPerCall, UpdatesPerCall, 0, e, Before(0, e))
    BY <1>0 DEF Counts
  <2>3. /\ \A j \in 0 .. Layers - 2 : ~ (j < 0)
        /\ 0 <= UpdatesPerCall /\ UpdatesPerCall - 0 = UpdatesPerCall
    BY <1>0
  <2>4. Left(e, st, UpdatesPerCall, 0, left)
    BY <1>0, <2>1, <2>2, <2>3 DEF Left
  <2> QED
    BY <2>1, <2>4
<1>9. u.needswap_upto = (IF 0 <= e THEN 0 ELSE e) - 1
  BY <1>0, <1>6
<1>10. CallInv(p, u, 0)
  BY <1>0, <1>5, <1>6, <1>7, <1>8, <1>9 DEF CallInv
<1> QED
  BY <1>10 DEF u

(***************************************************************************)
(* What a call leaves of the trees, and that it spends as Budget says.     *)
(***************************************************************************)
LEMMA CallSpends ==
  ASSUME NEW e, Calling(e), TreesAre(sk.states), sk.seed = RealSeed
  PROVE  /\ TreesAre(Advanced(sk).states)
         /\ \E left \in Lefts :
              /\ left[0] = UpdatesPerCall
              /\ \A j \in 0 .. Layers - 2 :
                   Spending!Turn(j, left[j], left[j + 1], Advanced(sk).states[Layers + j].next_leaf)
<1> DEFINE p == <<sk, e>>
           s == FeedLowest([states |-> sk.states, wots_sigs |-> sk.wots_sigs,
                            updates |-> Shr(Instances(params), 1), needswap_upto |-> -1],
                           sk.idx, sk.seed)
<1>1. p = <<sk, e>> /\ p[1] = sk /\ p[2] = e /\ Layers \in Nat
  BY Sizes
<1> HIDE DEF p
<1>2. CallInv(p, s, 0)
  BY <1>1, CallBegins
<1>3. Advanced(sk) = Calls!TheFor(p, Layers, s)
  <2>1. Advanced(p[1]) = Calls!TheFor(p, Layers,
             FeedLowest([states |-> p[1].states, wots_sigs |-> p[1].wots_sigs,
                         updates |-> Shr(Instances(params), 1), needswap_upto |-> -1],
                        p[1].idx, p[1].seed))
    BY CallIs
  <2> QED
    BY <1>1, <2>1
<1> HIDE DEF s
<1>4. ASSUME NEW w, NEW i \in 0 .. Layers - 1, CallInv(p, w, i)
      PROVE  CallInv(p, AdvanceTurn(p, w, i), i + 1)
  <2>1. e \in 0 .. Layers - 1 /\ sk.idx < LastIndex /\ (AtTreeEnd(sk.idx, i) <=> i < e)
    BY <1>4 DEF Calling
  <2>2. CASE i < e
    <3>1. AdvanceTurn(p, w, i) = SwapLayer(w, i, sk.idx, sk.seed)
      BY <1>1, <2>1, <2>2 DEF AdvanceTurn
    <3>2. i \in 0 .. e - 1
      BY <2>1, <2>2
    <3> QED
      BY <1>1, <1>4, <3>1, <3>2, SwapKeeps
  <2>3. CASE ~ (i < e)
    <3>1. AdvanceTurn(p, w, i) = AdvanceLayer(w, i, sk.idx, sk.seed)
      BY <1>1, <2>1, <2>3 DEF AdvanceTurn
    <3>2. CASE i = Layers - 1
      <4>1. i + 1 = Layers
        BY <1>1, <3>2
      <4>2. CallInv(p, AdvanceLayer(w, Layers - 1, sk.idx, sk.seed), Layers)
        BY <1>1, <1>4, <3>2, TopKeeps
      <4> QED
        BY <3>1, <3>2, <4>1, <4>2
    <3>3. CASE i # Layers - 1
      <4>1. i \in e .. Layers - 2
        BY <1>1, <2>1, <2>3, <3>3
      <4> QED
        BY <1>1, <1>4, <3>1, <4>1, AdvanceKeeps
    <3> QED
      BY <3>2, <3>3
  <2> QED
    BY <2>2, <2>3
<1>5. CallInv(p, Calls!TheFor(p, Layers, s), Layers)
  <2>1. Layers \in Nat
    BY <1>1
  <2> QED
    BY <1>2, <1>4, <2>1, Calls!ForRule, Zenon
<1>6. CallInv(p, Advanced(sk), Layers)
  BY <1>3, <1>5
<1> QED
  <2>1. TreesAre(Advanced(sk).states)
    BY <1>6 DEF CallInv
  <2>2. PICK left \in Lefts : Left(p[2], Advanced(sk).states, Advanced(sk).updates, Layers, left)
    BY <1>6 DEF CallInv
  <2>3. /\ left[0] = UpdatesPerCall
        /\ \A j \in 0 .. Layers - 2 :
             Spending!Turn(j, left[j], left[j + 1], Advanced(sk).states[Layers + j].next_leaf)
    <3>1. \A j \in 0 .. Layers - 2 : j < Layers
      BY <1>1
    <3> QED
      BY <2>2, <3>1 DEF Left
  <2> QED
    BY <2>1, <2>3

-----------------------------------------------------------------------------

(***************************************************************************)
(* The inductive invariant: while the key is live its trees have their     *)
(* form, an instance that no update may reach is at rest, and a NEXT tree  *)
(* counts at most the leaves of a tree, none if no tree is to come.        *)
(***************************************************************************)
ReadyAre(idx, states) ==
  \A j \in 0 .. Layers - 2 :
    /\ states[Layers + j].next_leaf \in 0 .. 2^TreeHeight
    /\ ~ HasNext(idx, j) => states[Layers + j].next_leaf = 0

TreesInv ==
  /\ ParamsInv
  /\ sk.seed = RealSeed => TreesAre(sk.states) /\ ReadyAre(sk.idx, sk.states)

\* A call with a live key finds it so.
LEMMA MayCall ==
  ASSUME CharFits, KeysInv, TreesInv, sk.seed = RealSeed, sk.idx < LastIndex
  PROVE  \E e : Calling(e)
<1> DEFINE S == {j \in 0 .. Layers - 1 : ~ AtTreeEnd(sk.idx, j)}
           e == Min(S)
<1>1. sk.idx \in Nat /\ sk.idx < Leaves /\ Layers \in Nat \ {0, 1} /\ ParamsFit
  BY Sizes, LeavesNat, UpdatesAre DEF KeysInv, TreesInv
<1>2. e \in S /\ \A n \in S : e <= n
  <2>1. S \subseteq Nat /\ Layers - 1 \in S
    BY <1>1, TopGoesOn
  <2> HIDE DEF S
  <2> QED
    BY <2>1, MinIs
<1>3. \A j \in 0 .. Layers - 1 :
        AtTreeEnd(sk.idx, j) <=> \A k \in 0 .. j : LeafAt(sk.idx, k) = 2^TreeHeight - 1
  BY <1>1, EndsAre
<1> HIDE DEF e
<1>4. \A j \in 0 .. Layers - 1 : AtTreeEnd(sk.idx, j) <=> j < e
  <2> TAKE j \in 0 .. Layers - 1
  <2>1. CASE j < e
    BY <1>1, <1>2, <2>1
  <2>2. CASE ~ (j < e)
    <3>1. e \in 0 .. j /\ e \in 0 .. Layers - 1 /\ ~ AtTreeEnd(sk.idx, e)
      BY <1>1, <1>2, <2>2
    <3>2. PICK k \in 0 .. e : LeafAt(sk.idx, k) # 2^TreeHeight - 1
      BY <1>3, <3>1
    <3>3. k \in 0 .. j
      BY <3>1
    <3> QED
      BY <1>3, <2>2, <3>2, <3>3
  <2> QED
    BY <2>1, <2>2
<1>5. \A k \in 0 .. Layers - 1 : LeavesUsed[k] = LeafAt(sk.idx, k)
  BY DEF LeavesUsed
<1>6. ASSUME NEW j \in 0 .. Layers - 1
      PROVE  Spending!Ended(j) <=> AtTreeEnd(sk.idx, j)
  <2>1. \A k \in 0 .. j : k \in 0 .. Layers - 1
    BY <1>1
  <2> QED
    BY <1>3, <1>5, <2>1 DEF Spending!Ended
<1>7. ASSUME NEW j \in 0 .. Layers - 1
      PROVE  Spending!HasNext(j) <=> HasNext(sk.idx, j)
  <2>1. \A k \in j + 1 .. Layers - 1 : k \in 0 .. Layers - 1
    BY <1>1
  <2>2. HasNext(sk.idx, j) <=> \E k \in j + 1 .. Layers - 1 : LeafAt(sk.idx, k) < 2^TreeHeight - 1
    BY <1>1, HasNextIs
  <2> QED
    BY <1>5, <2>1, <2>2 DEF Spending!HasNext
<1>8. ~ HasNext(sk.idx, Layers - 1)
  <2> DEFINE top == Layers - 1
  <2>1. top \in 0 .. Layers - 1 /\ top + 1 .. Layers - 1 = {}
    BY <1>1
  <2> HIDE DEF top
  <2>2. HasNext(sk.idx, top)
          <=> \E k \in top + 1 .. Layers - 1 : LeafAt(sk.idx, k) < 2^TreeHeight - 1
    BY <1>1, <2>1, HasNextIs
  <2>3. ~ HasNext(sk.idx, top)
    BY <2>1, <2>2
  <2> QED
    BY <2>3 DEF top
<1>9. \A j \in 0 .. Layers - 2 : LeavesReady[j] \in 0 .. 2^TreeHeight
  BY DEF LeavesReady, TreesInv, ReadyAre
<1>10. e \in 0 .. Layers - 1
  BY <1>2
<1>11. Calling(e)
  BY <1>1, <1>4, <1>6, <1>7, <1>8, <1>9, <1>10 DEF Calling
<1> QED
  BY <1>11

\* The leaves of the NEXT trees after a call, and what the key stores of them.
LEMMA TurnReady ==
  ASSUME NEW e, Calling(e), NEW j \in 0 .. Layers - 2, NEW u, NEW v, NEW n,
         Spending!Turn(j, u, v, n)
  PROVE  /\ n \in 0 .. 2^TreeHeight
         /\ j < e => n = 0
         /\ ~ (j < e) /\ ~ HasNext(sk.idx, j) => n = LeavesReady[j]
<1>1. /\ j \in 0 .. Layers - 1 /\ 2^TreeHeight \in Nat
      /\ LeavesReady[j] \in 0 .. 2^TreeHeight
  BY Sizes DEF Calling, ParamsFit
<1>2. /\ Spending!Ended(j) <=> j < e
      /\ Spending!HasNext(j) <=> HasNext(sk.idx, j)
  BY <1>1 DEF Calling
<1>3. Spending!Fed(j) \in 0 .. 2^TreeHeight
  BY <1>1 DEF Spending!Fed
<1> QED
  BY <1>1, <1>2, <1>3 DEF Spending!Turn

Stored(states) == [i \in 0 .. 2 * Layers - 2 |-> Serialized(states[i])]

StoredAs(states, new) ==
  /\ TreesAre(new)
  /\ \A j \in 0 .. Layers - 2 :
       states[Layers + j].next_leaf \in 0 .. 2^TreeHeight =>
         new[Layers + j].next_leaf = states[Layers + j].next_leaf

LEMMA StoredTrees ==
  ASSUME ParamsFit, NEW states, TreesAre(states)
  PROVE  StoredAs(states, Stored(states))
<1> DEFINE new == Stored(states)
<1>0. Layers \in Nat \ {0, 1} /\ 2^TreeHeight \in Nat /\ 2^TreeHeight < UINT_SPACE
      /\ UINT_SPACE \in Nat
  BY Sizes DEF ParamsFit
<1>1. /\ DOMAIN new = 0 .. 2 * Layers - 2 /\ Array(new)
      /\ \A j \in 0 .. 2 * Layers - 2 : new[j] = Serialized(states[j])
  BY DEF Array, Stored
<1> HIDE DEF new
<1>2. ASSUME NEW j \in 0 .. 2 * Layers - 2
      PROVE  /\ Shaped(params, new[j])
             /\ Settled(states[j]) => Settled(new[j])
             /\ states[j].next_leaf \in 0 .. 2^TreeHeight => new[j].next_leaf = states[j].next_leaf
  <2>1. Shaped(params, states[j])
    BY DEF TreesAre
  <2>2. /\ Shaped(params, Serialized(states[j]))
        /\ Settled(states[j]) => Settled(Serialized(states[j]))
        /\ states[j].next_leaf \in Nat /\ states[j].next_leaf < UINT_SPACE =>
             Serialized(states[j]).next_leaf = states[j].next_leaf
    BY <2>1, SerializedIs
  <2> QED
    BY <1>0, <1>1, <2>2
<1>3. \A j \in 0 .. Layers - 1 : j \in 0 .. 2 * Layers - 2
  BY <1>0
<1>4. \A j \in 0 .. Layers - 2 : Layers + j \in 0 .. 2 * Layers - 2
  BY <1>0
<1>5. TreesAre(new)
  BY <1>1, <1>2, <1>3 DEF TreesAre
<1>6. StoredAs(states, new)
  BY <1>2, <1>4, <1>5 DEF StoredAs
<1> QED
  BY <1>6 DEF new

\* What a call with a live key makes of the trees, in the terms of Budget.
LEMMA SignSpends ==
  ASSUME CharFits, KeysInv, TreesInv, Sign, sk.seed = RealSeed
  PROVE  /\ TreesAre(sk'.states) /\ ReadyAre(sk.idx + 1, sk'.states)
         /\ ~ Spending!Ended(Layers - 1)
         /\ \E left \in Lefts :
              /\ left[0] = UpdatesPerCall
              /\ \A j \in 0 .. Layers - 2 :
                   Spending!Turn(j, left[j], left[j + 1], sk'.states[Layers + j].next_leaf)
<1>1. /\ sk.idx \in Nat /\ sk.idx + 1 <= LastIndex /\ sk.idx < LastIndex
      /\ sk.idx < Leaves /\ sk.idx + 1 < Leaves /\ sk.idx + 1 \in Nat
      /\ Layers \in Nat \ {0, 1} /\ ParamsFit
  BY SignNext, Sizes, LeavesNat, UpdatesAre DEF TreesInv
<1>2. TreesAre(sk.states) /\ ReadyAre(sk.idx, sk.states)
  BY DEF TreesInv
<1>3. PICK e : Calling(e)
  BY <1>1, MayCall
<1>4. /\ e \in 0 .. Layers - 1
      /\ \A j \in 0 .. Layers - 1 : /\ AtTreeEnd(sk.idx, j) <=> j < e
                                    /\ Spending!Ended(j) <=> j < e
  BY <1>3 DEF Calling
<1> DEFINE done == Advanced(sk).states
<1>5. TreesAre(done)
  BY <1>2, <1>3, CallSpends
<1>6. PICK left \in Lefts :
        /\ left[0] = UpdatesPerCall
        /\ \A j \in 0 .. Layers - 2 :
             Spending!Turn(j, left[j], left[j + 1], done[Layers + j].next_leaf)
  BY <1>2, <1>3, CallSpends
<1>7. sk'.states = [i \in DOMAIN sk.states |-> Serialized(done[i])]
  <2>1. sk = [idx |-> sk.idx, seed |-> sk.seed, root |-> sk.root,
              states |-> sk.states, wots_sigs |-> sk.wots_sigs]
    BY DEF KeysInv
  <2>2. sk' = Written(sk)
    BY DEF Sign
  <2> DEFINE st == [i \in DOMAIN sk.states |-> Serialized(done[i])]
             idx == (sk.idx + 1) % IndexSpace
             sg == Advanced(sk).wots_sigs
  <2>3. Written(sk) = [[[sk EXCEPT !.idx = idx] EXCEPT !.states = st] EXCEPT !.wots_sigs = sg]
    BY DEF Written
  <2> HIDE DEF st, idx, sg
  <2>4. Written(sk).states = st
    BY <2>1, <2>3
  <2> QED
    BY <2>2, <2>4 DEF st
<1> HIDE DEF done
<1> DEFINE new == sk'.states
<1>8. DOMAIN sk.states = 0 .. 2 * Layers - 2
  BY <1>2 DEF TreesAre
<1>9. /\ TreesAre(new)
      /\ \A j \in 0 .. Layers - 2 :
           done[Layers + j].next_leaf \in 0 .. 2^TreeHeight =>
             new[Layers + j].next_leaf = done[Layers + j].next_leaf
  <2>1. new = Stored(done)
    BY <1>7, <1>8 DEF Stored
  <2>2. StoredAs(done, Stored(done))
    BY <1>1, <1>5, StoredTrees
  <2> HIDE DEF new
  <2> QED
    BY <2>1, <2>2 DEF StoredAs
<1> HIDE DEF new
<1>10. ASSUME NEW j \in 0 .. Layers - 2
       PROVE  /\ new[Layers + j].next_leaf \in 0 .. 2^TreeHeight
              /\ j < e => new[Layers + j].next_leaf = 0
              /\ ~ (j < e) /\ ~ HasNext(sk.idx, j) => new[Layers + j].next_leaf = LeavesReady[j]
              /\ Spending!Turn(j, left[j], left[j + 1], new[Layers + j].next_leaf)
  <2> DEFINE n == done[Layers + j].next_leaf
  <2>1. Spending!Turn(j, left[j], left[j + 1], n)
    BY <1>6
  <2> HIDE DEF n
  <2>2. /\ n \in 0 .. 2^TreeHeight
        /\ j < e => n = 0
        /\ ~ (j < e) /\ ~ HasNext(sk.idx, j) => n = LeavesReady[j]
    BY <1>3, <2>1, TurnReady
  <2>3. new[Layers + j].next_leaf = n
    BY <1>9, <2>2 DEF n
  <2> QED
    BY <2>1, <2>2, <2>3
<1>11. ASSUME NEW j \in 0 .. Layers - 2, ~ HasNext(sk.idx + 1, j)
       PROVE  new[Layers + j].next_leaf = 0
  <2>1. CASE j < e
    BY <1>10, <2>1
  <2>2. CASE ~ (j < e)
    <3>0. j \in 0 .. Layers - 1
      BY <1>1
    <3>1. ASSUME NEW k \in j + 1 .. Layers - 1
          PROVE  LeafAt(sk.idx + 1, k) = LeafAt(sk.idx, k)
      <4>1. k \in 0 .. Layers - 1 /\ k > 0 /\ k - 1 \in 0 .. Layers - 1 /\ ~ (k - 1 < e)
        BY <1>1, <1>4, <2>2
      <4>2. ~ AtTreeEnd(sk.idx, k - 1)
        BY <1>4, <4>1
      <4> QED
        BY <1>1, <4>1, <4>2, LeafNext
    <3>2. HasNext(sk.idx + 1, j)
            <=> \E k \in j + 1 .. Layers - 1 : LeafAt(sk.idx + 1, k) < 2^TreeHeight - 1
      <4> DEFINE x == sk.idx + 1
      <4>1. x \in Nat /\ x < Leaves
        BY <1>1
      <4> HIDE DEF x
      <4>2. HasNext(x, j) <=> \E k \in j + 1 .. Layers - 1 : LeafAt(x, k) < 2^TreeHeight - 1
        BY <3>0, <4>1, HasNextIs
      <4> QED
        BY <4>2 DEF x
    <3>3. HasNext(sk.idx, j)
            <=> \E k \in j + 1 .. Layers - 1 : LeafAt(sk.idx, k) < 2^TreeHeight - 1
      BY <1>1, <3>0, HasNextIs
    <3>4. ~ HasNext(sk.idx, j)
      BY <1>11, <3>1, <3>2, <3>3
    <3>5. LeavesReady[j] = 0
      BY <1>2, <3>4 DEF LeavesReady, ReadyAre
    <3> QED
      BY <1>10, <2>2, <3>4, <3>5
  <2> QED
    BY <2>1, <2>2
<1>12. ReadyAre(sk.idx + 1, new)
  BY <1>10, <1>11 DEF ReadyAre
<1>13. ~ Spending!Ended(Layers - 1)
  BY <1>1, <1>4
<1> QED
  BY <1>6, <1>9, <1>10, <1>12, <1>13 DEF new

\* What the parameter set determines does not change.
LEMMA SameParams ==
  ASSUME params' = params, TreesAre(sk'.states), ReadyAre(sk'.idx, sk'.states)
  PROVE  /\ UpdatesPerCall' = UpdatesPerCall
         /\ TreesAre(sk.states)' /\ ReadyAre(sk.idx, sk.states)'
<1>1. UpdatesPerCall' = UpdatesPerCall
  BY DEF UpdatesPerCall, Instances
<1>2. TreesAre(sk.states)'
  BY <1>1 DEF TreesAre, Shaped, Settled, Instances, Array
<1>3. ReadyAre(sk.idx, sk.states)'
  BY DEF ReadyAre, HasNext, TreeAt, LeafAt
<1> QED
  BY <1>1, <1>2, <1>3

LEMMA SignCalls ==
  ASSUME CharFits, KeysInv, TreesInv, Sign, sk.seed = RealSeed
  PROVE  TreesInv' /\ Spending!Call
<1>1. /\ sk'.idx = sk.idx + 1 /\ sk'.seed = RealSeed /\ sk.idx \in Nat
  <2>1. /\ sk' = [idx |-> sk.idx + 1, seed |-> sk.seed, root |-> sk.root,
                  states |-> sk'.states, wots_sigs |-> sk'.wots_sigs]
        /\ sk.idx \in Nat
    BY SignNext
  <2> QED
    BY <2>1
<1>2. params' = params
  BY DEF Sign
<1>3. /\ TreesAre(sk'.states) /\ ReadyAre(sk'.idx, sk'.states)
      /\ ~ Spending!Ended(Layers - 1)
  BY <1>1, SignSpends
<1>4. /\ UpdatesPerCall' = UpdatesPerCall
      /\ TreesAre(sk.states)' /\ ReadyAre(sk.idx, sk.states)'
  BY <1>2, <1>3, SameParams
<1>5. TreesInv'
  <2>1. ParamsInv'
    BY <1>2 DEF TreesInv, ParamsInv
  <2> QED
    BY <1>4, <2>1 DEF TreesInv
<1>6. PICK left \in Lefts :
        /\ left[0] = UpdatesPerCall
        /\ \A j \in 0 .. Layers - 2 :
             Spending!Turn(j, left[j], left[j + 1], sk'.states[Layers + j].next_leaf)
  BY SignSpends
<1>7. LeavesReady' = [i \in 0 .. Layers - 2 |-> sk'.states[Layers + i].next_leaf]
  BY <1>1 DEF LeavesReady
<1>8. LeavesReady' \in [Spending!Lower -> 0 .. 2^TreeHeight]
  BY <1>3, <1>7 DEF Spending!Lower, ReadyAre
<1>9. LeavesUsed' = [i \in Spending!Layer |->
                       IF i > 0 /\ ~ Spending!Ended(i - 1) THEN LeavesUsed[i]
                       ELSE IF LeavesUsed[i] = 2^TreeHeight - 1 THEN 0 ELSE LeavesUsed[i] + 1]
  <2>1. LeavesUsed' = [i \in 0 .. Layers - 1 |-> LeafAt(sk.idx + 1, i)]
    BY <1>1 DEF LeavesUsed
  <2>2. ASSUME NEW i \in 0 .. Layers - 1
        PROVE  LeafAt(sk.idx + 1, i) =
                 IF i > 0 /\ ~ Spending!Ended(i - 1) THEN LeavesUsed[i]
                 ELSE IF LeavesUsed[i] = 2^TreeHeight - 1 THEN 0 ELSE LeavesUsed[i] + 1
    <3>1. LeavesUsed[i] = LeafAt(sk.idx, i)
      BY DEF LeavesUsed
    <3>2. i > 0 => (Spending!Ended(i - 1) <=> AtTreeEnd(sk.idx, i - 1))
      <4>1. i > 0 => i - 1 \in 0 .. Layers - 1
        BY Sizes
      <4>2. \E e : Calling(e)
        BY MayCall DEF Sign
      <4> QED
        BY <4>1, <4>2 DEF Calling
    <3> QED
      BY <1>1, <3>1, <3>2, LeafNext
  <2> QED
    BY <2>1, <2>2 DEF Spending!Layer
<1>10. \E more \in [Spending!Layer -> Spending!Endless .. UpdatesPerCall] :
         /\ more[0] = UpdatesPerCall
         /\ \A i \in Spending!Lower : Spending!Turn(i, more[i], more[i + 1], LeavesReady'[i])
  <2>1. left \in [Spending!Layer -> Spending!Endless .. UpdatesPerCall]
    BY DEF Lefts, Spending!Layer, Spending!Endless
  <2>2. \A i \in Spending!Lower : LeavesReady'[i] = sk'.states[Layers + i].next_leaf
    BY <1>7 DEF Spending!Lower
  <2> QED
    BY <1>6, <2>1, <2>2 DEF Spending!Lower
<1>11. Spending!Call
  BY <1>3, <1>4, <1>8, <1>9, <1>10 DEF Spending!Call
<1> QED
  BY <1>5, <1>11

\* A fresh key: every tree in use is built and at rest, every NEXT is empty.
LEMMA FreshKey ==
  ASSUME NEW par, Sized(par), NEW g
  PROVE  LET raw == [Uninitialised(par, g) EXCEPT !.stackoffset = 0, !.next_leaf = 0]
         IN  Shaped(par, raw) /\ raw.next_leaf = 0
<1> DEFINE u == Uninitialised(par, g)
           raw == [[u EXCEPT !.stackoffset = 0] EXCEPT !.next_leaf = 0]
           th == [i \in 0 .. Instances(par) - 1 |->
                    [h |-> g, next_idx |-> g, stackusage |-> g, completed |-> g, node |-> Junk]]
<1>1. /\ {"stack", "stackoffset", "stacklevels", "auth", "keep", "treehash", "retain",
          "next_leaf"} \subseteq DOMAIN u
      /\ DOMAIN u = DOMAIN raw /\ u.treehash = th
  BY DEF Uninitialised
<1>2. /\ DOMAIN th = 0 .. Instances(par) - 1
      /\ \A j \in DOMAIN th :
           {"h", "next_idx", "stackusage", "completed", "node"} \subseteq DOMAIN th[j]
  OBVIOUS
<1> HIDE DEF u, th
<1>3. /\ DOMAIN raw = DOMAIN u /\ raw.treehash = th /\ raw.stackoffset = 0
      /\ raw.next_leaf = 0
  BY <1>1
<1> HIDE DEF raw
<1>4. Shaped(par, raw)
  <2>1. {"stack", "stackoffset", "stacklevels", "auth", "keep", "treehash", "retain",
         "next_leaf"} \subseteq DOMAIN raw
    BY <1>1, <1>3
  <2> QED
    BY <1>2, <1>3, <2>1 DEF Shaped
<1> QED
  BY <1>3, <1>4 DEF raw, u

NothingReady == \A j \in 0 .. Layers - 2 : sk.states[Layers + j].next_leaf = 0

LEMMA TreesInvInit == Init => TreesInv /\ NothingReady
<1> SUFFICES ASSUME Init
             PROVE  TreesInv /\ NothingReady
  OBVIOUS
<1>1. PICK k \in BdsKs, g \in Garbage :
        /\ params = [tree_height |-> TreeHeight, bds_k |-> k, d |-> Layers]
        /\ sk = KeyPair(params, g)
  BY DEF Init
<1>2. ParamsInv /\ Sized(params)
  <2>1. k \in 0 .. TreeHeight
    BY XmssmtFastAssumption
  <2> QED
    BY <1>1, <2>1 DEF ParamsInv, Sized
<1> DEFINE raw == [Uninitialised(params, g) EXCEPT !.stackoffset = 0, !.next_leaf = 0]
           built == [i \in 0 .. Layers - 1 |->
                       treehash_init(params, raw, RealSeed, AddrAt(0, i))]
           src == [i \in 0 .. 2 * Layers - 2 |-> IF i < Layers THEN built[i].state ELSE raw]
<1>3. Shaped(params, raw) /\ raw.next_leaf = 0
  BY <1>2, FreshKey
<1>4. sk.idx = 0 /\ sk.states = [i \in 0 .. 2 * Layers - 2 |-> Serialized(src[i])]
  <2>1. sk.idx = 0 /\ sk.states = [i \in 0 .. 2 * Layers - 2 |->
                        Serialized(IF i < Layers THEN built[i].state ELSE raw)]
    BY <1>1 DEF KeyPair
  <2> QED
    BY <2>1
<1> HIDE DEF raw
<1>5. ASSUME NEW i \in 0 .. Layers - 1
      PROVE  Shaped(params, built[i].state) /\ Settled(built[i].state)
  <2>1. built[i] = treehash_init(params, raw, RealSeed, AddrAt(0, i))
    OBVIOUS
  <2> HIDE DEF built
  <2> QED
    BY <1>2, <1>3, <2>1, TreeSettled
<1> HIDE DEF built
<1>6. /\ Layers \in Nat \ {0, 1} /\ 2^TreeHeight \in Nat /\ UINT_SPACE \in Nat \ {0}
  BY Sizes, Powers, UnsignedAssumption
<1>7. ASSUME NEW i \in 0 .. 2 * Layers - 2
      PROVE  /\ Shaped(params, src[i])
             /\ i < Layers => Settled(src[i])
             /\ i >= Layers => src[i].next_leaf = 0
  BY <1>3, <1>5, <1>6
<1> HIDE DEF src
<1>8. ASSUME NEW i \in 0 .. 2 * Layers - 2
      PROVE  /\ Shaped(params, sk.states[i])
             /\ i < Layers => Settled(sk.states[i])
             /\ i >= Layers => sk.states[i].next_leaf = 0
  <2>1. sk.states[i] = Serialized(src[i])
    BY <1>4
  <2>2. /\ Shaped(params, Serialized(src[i]))
        /\ Settled(src[i]) => Settled(Serialized(src[i]))
        /\ src[i].next_leaf \in Nat /\ src[i].next_leaf < UINT_SPACE =>
             Serialized(src[i]).next_leaf = src[i].next_leaf
    BY <1>7, SerializedIs
  <2> QED
    BY <1>6, <1>7, <2>1, <2>2
<1>9. TreesAre(sk.states)
  <2>1. Array(sk.states) /\ DOMAIN sk.states = 0 .. 2 * Layers - 2
    BY <1>4 DEF Array
  <2>2. \A j \in 0 .. Layers - 1 : j \in 0 .. 2 * Layers - 2 /\ j < Layers
    BY <1>6
  <2> QED
    BY <1>8, <2>1, <2>2 DEF TreesAre
<1>10. ReadyAre(sk.idx, sk.states) /\ NothingReady
  <2>1. \A j \in 0 .. Layers - 2 : Layers + j \in 0 .. 2 * Layers - 2 /\ Layers + j >= Layers
    BY <1>6
  <2>2. 0 \in 0 .. 2^TreeHeight
    BY <1>6
  <2> QED
    BY <1>8, <2>1, <2>2 DEF ReadyAre, NothingReady
<1> QED
  BY <1>2, <1>9, <1>10 DEF TreesInv

LEMMA SpendingInit == CharFits /\ Init => Spending!Init
<1> SUFFICES ASSUME CharFits, Init
             PROVE  Spending!Init
  OBVIOUS
<1>1. sk.idx = 0 /\ sk.seed = RealSeed
  BY DEF Init, KeyPair
<1>2. TreesInv /\ NothingReady
  BY TreesInvInit
<1>3. UpdatesPerCall \in Nat
  BY <1>2, UpdatesAre DEF TreesInv, ParamsFit
<1>4. \A i \in 0 .. Layers - 1 : LeafAt(0, i) = 0
  <2> TAKE i \in 0 .. Layers - 1
  <2>1. i \in 0 .. Layers
    BY Sizes
  <2>2. 2^(i * TreeHeight) \in Nat \ {0} /\ 2^TreeHeight \in Nat \ {0}
    BY <2>1, Powers
  <2>3. KeyAt(0, i) = 0
    BY <2>2 DEF KeyAt, Shr
  <2>4. LeafAt(0, i) = KeyAt(0, i) % 2^TreeHeight
    BY KeyDigits
  <2> DEFINE b == 2^TreeHeight
  <2>5. b \in Nat \ {0} /\ LeafAt(0, i) = 0 % b
    BY <2>2, <2>3, <2>4
  <2> HIDE DEF b
  <2> QED
    BY <2>5
<1>5. LeavesUsed = [i \in Spending!Layer |-> 0]
  BY <1>1, <1>4 DEF LeavesUsed, Spending!Layer
<1>6. LeavesReady = [i \in Spending!Lower |-> 0]
  BY <1>1, <1>2 DEF LeavesReady, NothingReady, Spending!Lower
<1> QED
  BY <1>3, <1>5, <1>6 DEF Spending!Init

\* A key that is wiped has used every leaf, as the last key has, and after
\* that nothing changes.
LEMMA DeadStutters ==
  ASSUME KeysInv, TreesInv, SignLast \/ Refuse \/ (Sign /\ sk.seed # RealSeed)
  PROVE  TreesInv' /\ UNCHANGED (Spending!vars)
<1>1. params' = params
  BY DEF Sign, SignLast, Refuse
<1>2. sk'.seed = ZeroSeed /\ sk'.seed # RealSeed
  <2>1. CASE SignLast \/ Refuse
    <3>1. sk' = [idx |-> sk'.idx, seed |-> ZeroSeed, root |-> ZeroNode,
                 states |-> sk'.states, wots_sigs |-> sk'.wots_sigs]
      BY <2>1, DeadNext
    <3>2. sk'.seed = ZeroSeed
      BY <3>1
    <3> QED
      BY <3>2 DEF RealSeed, ZeroSeed
  <2>2. CASE Sign /\ sk.seed # RealSeed
    <3>1. sk' = [idx |-> sk.idx + 1, seed |-> sk.seed, root |-> sk.root,
                 states |-> sk'.states, wots_sigs |-> sk'.wots_sigs]
      BY <2>2, SignNext
    <3>2. sk'.seed = sk.seed
      BY <3>1
    <3> QED
      BY <2>2, <3>2 DEF KeysInv, RealSeed, ZeroSeed
  <2> QED
    BY <2>1, <2>2
<1>3. TreesInv'
  BY <1>1, <1>2 DEF TreesInv, ParamsInv, RealSeed
<1>4. UpdatesPerCall' = UpdatesPerCall
  BY <1>1 DEF UpdatesPerCall, Instances
<1>5. /\ LeavesUsed' = [i \in 0 .. Layers - 1 |-> 2^TreeHeight - 1]
      /\ LeavesReady' = [i \in 0 .. Layers - 2 |-> 0]
  BY <1>2 DEF LeavesUsed, LeavesReady
<1>6. /\ LeavesUsed = [i \in 0 .. Layers - 1 |-> 2^TreeHeight - 1]
      /\ LeavesReady = [i \in 0 .. Layers - 2 |-> 0]
  <2>1. CASE sk.seed # RealSeed
    BY <2>1 DEF LeavesUsed, LeavesReady
  <2>2. CASE sk.seed = RealSeed
    <3>1. sk.idx = LastIndex
      BY <2>2, LeavesNat DEF KeysInv, SignLast, Refuse
    <3>2. LastIndex \in Nat /\ LastIndex < Leaves /\ Layers \in Nat
      BY LeavesNat, Sizes
    <3>3. LeavesUsed = [i \in 0 .. Layers - 1 |-> 2^TreeHeight - 1]
      BY <2>2, <3>1, LastLeaves DEF LeavesUsed
    <3>4. ASSUME NEW j \in 0 .. Layers - 2
          PROVE  sk.states[Layers + j].next_leaf = 0
      <4>1. j \in 0 .. Layers - 1 /\ \A k \in j + 1 .. Layers - 1 : k \in 0 .. Layers - 1
        BY <3>2
      <4>2. HasNext(LastIndex, j)
              <=> \E k \in j + 1 .. Layers - 1 : LeafAt(LastIndex, k) < 2^TreeHeight - 1
        BY <3>2, <4>1, HasNextIs
      <4>3. 2^TreeHeight \in Nat
        BY Powers
      <4>4. ~ HasNext(sk.idx, j)
        BY <3>1, <4>1, <4>2, <4>3, LastLeaves
      <4> QED
        BY <2>2, <4>4 DEF TreesInv, ReadyAre
    <3>5. LeavesReady = [i \in 0 .. Layers - 2 |-> 0]
      BY <2>2, <3>4 DEF LeavesReady
    <3> QED
      BY <3>3, <3>5
  <2> QED
    BY <2>1, <2>2
<1> QED
  BY <1>3, <1>4, <1>5, <1>6 DEF Spending!vars

\* Every step of the hypertree is one of Budget, or changes nothing it sees.
LEMMA SpendingNext ==
  ASSUME CharFits, KeysInv, TreesInv, [Next]_vars
  PROVE  TreesInv' /\ [Spending!Call]_(Spending!vars)
<1>1. CASE Sign /\ sk.seed = RealSeed
  BY <1>1, SignCalls
<1>2. CASE SignLast \/ Refuse \/ (Sign /\ sk.seed # RealSeed)
  BY <1>2, DeadStutters
<1>3. CASE UNCHANGED vars
  <2>1. params' = params /\ sk' = sk
    BY <1>3 DEF vars
  <2>2. TreesInv'
    <3>1. ParamsInv'
      BY <2>1 DEF TreesInv, ParamsInv
    <3>2. sk.seed = RealSeed => TreesAre(sk'.states) /\ ReadyAre(sk'.idx, sk'.states)
      BY <2>1 DEF TreesInv
    <3>3. sk.seed = RealSeed => TreesAre(sk.states)' /\ ReadyAre(sk.idx, sk.states)'
      BY <2>1, <3>2, SameParams
    <3> QED
      BY <2>1, <3>1, <3>3 DEF TreesInv
  <2>3. UNCHANGED (Spending!vars)
    BY <2>1 DEF Spending!vars, UpdatesPerCall, LeavesUsed, LeavesReady, Instances
  <2> QED
    BY <2>2, <2>3
<1> QED
  BY <1>1, <1>2, <1>3 DEF Next

(***************************************************************************)
(* Where the number of updates fits into what holds it, the hypertree      *)
(* implements Budget: whatever the instances of the trees take, the NEXT   *)
(* trees get their leaves from what the layers below leave over.           *)
(***************************************************************************)
THEOREM ImplementsBudgetHolds == CharFits /\ Spec => ImplementsBudget
<1>1. CASE CharFits
  <2>1. Init => KeysInv /\ TreesInv /\ Spending!Init
    BY <1>1, KeysInvInit, TreesInvInit, SpendingInit
  <2>2. KeysInv /\ TreesInv /\ [Next]_vars => KeysInv' /\ TreesInv'
    BY <1>1, KeysInvNext, SpendingNext
  <2>3. KeysInv /\ TreesInv /\ [Next]_vars => [Spending!Call]_(Spending!vars)
    BY <1>1, SpendingNext
  <2> QED
    BY <2>1, <2>2, <2>3, PTL DEF Spec, ImplementsBudget, Spending!Spec
<1>2. CASE ~ CharFits
  BY <1>2
<1> QED
  BY <1>1, <1>2

(***************************************************************************)
(* So in the hypertree itself the NEXT tree of the layer where the updates *)
(* give out is swapped in before it is complete.                           *)
(***************************************************************************)
THEOREM HypertreeStarves ==
  CharFits /\ Spec => [](Spending!NoFasterThanUsed /\ Spending!SwappedInUnfinished)
  BY ImplementsBudgetHolds, NoFasterThanUsedHolds, SwappedInUnfinishedHolds, PTL
     DEF ImplementsBudget
=============================================================================
