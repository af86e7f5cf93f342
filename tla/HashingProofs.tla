--------------------------- MODULE HashingProofs ---------------------------
(***************************************************************************)
(* Proofs about Hashing, for every height, number of layers, number and    *)
(* length of chains: what each function returns, which calls it makes, and *)
(* that over the life of a key every address has one use.                  *)
(***************************************************************************)
EXTENDS Hashing, FiniteSetTheorems, SequenceTheorems, TLAPS

-----------------------------------------------------------------------------
(***************************************************************************)
(* What is where.  A subtree is the words 0 to 2 of the addresses in it.   *)
(***************************************************************************)
Words(layer, tree) == <<layer, (tree \div Word) % Word, tree % Word>>

\* The address with words s, type, x, y and z, under which keys are made.
At(s, type, x, y, z) ==
  [w \in 0 .. 7 |-> IF w = 0 THEN s[1] ELSE IF w = 1 THEN s[2]
                    ELSE IF w = 2 THEN s[3] ELSE IF w = 3 THEN type
                    ELSE IF w = 4 THEN x ELSE IF w = 5 THEN y
                    ELSE IF w = 6 THEN z ELSE 0]

\* Value k of chain i of a one-time key.
ChainValue(s, leaf, i, k) ==
  IF k = 0 THEN Secret(At(s, OTS, leaf, i, 0))
           ELSE Public(At(s, OTS, leaf, i, k - 1))

\* The rows of an L-tree from the lowest; the odd node at the end is kept.
RowAbove(s, leaf, r, h) ==
  [l    |-> (r.l + 1) \div 2,
   node |-> [j \in 0 .. (r.l + 1) \div 2 - 1 |->
               IF 2 * j + 1 < r.l THEN Public(At(s, LTREE, leaf, h, j))
                                  ELSE r.node[2 * j]]]

FirstRow(s, leaf) ==
  [l    |-> WotsLen,
   node |-> [j \in 0 .. WotsLen - 1 |-> ChainValue(s, leaf, j, WotsW - 1)]]

Row(s, leaf, h) ==
  For(h, LAMBDA r, i : RowAbove(s, leaf, r, i), FirstRow(s, leaf))

\* The nodes of a tree; its leaves are the tops of the L-trees.
NodeValue(s, h, j) ==
  IF h = 0 THEN Row(s, j, WotsLen).node[0]
           ELSE Public(At(s, HASHTREE, 0, h - 1, j))

(***************************************************************************)
(* The one use of an address, which its words say: the secret of a chain,  *)
(* the next value of one, a node of an L-tree or of a tree.                *)
(***************************************************************************)
SubtreeOf(a) == <<a[0], a[1], a[2]>>

Use(at) ==
  LET a == at[2] IN
  IF at[1] = "sk_seed" THEN <<"secret", <<a[0], a[1] * Word + a[2], a[4]>>, a[5]>>
  ELSE IF a[3] = OTS THEN <<"F", ChainValue(SubtreeOf(a), a[4], a[5], a[6])>>
  ELSE IF a[3] = LTREE
       THEN <<"H", Row(SubtreeOf(a), a[4], a[5]).node[2 * a[6]],
                   Row(SubtreeOf(a), a[4], a[5]).node[2 * a[6] + 1]>>
  ELSE <<"H", NodeValue(SubtreeOf(a), a[5], 2 * a[6]),
              NodeValue(SubtreeOf(a), a[5], 2 * a[6] + 1)>>

Call(at) == [at |-> at, use |-> Use(at)]

\* The calls for one-time key leaf of a tree, for its leaf, and for the tree.
SecretCalls(layer, tree, leaf) ==
  {[at  |-> Secret(At(Words(layer, tree), OTS, leaf, i, 0)),
    use |-> <<"secret", <<layer, tree, leaf>>, i>>] : i \in 0 .. WotsLen - 1}

ChainCalls(s, leaf) ==
  {Call(Public(At(s, OTS, leaf, i, k))) : i \in 0 .. WotsLen - 1, k \in 0 .. WotsW - 2}

RowPlaces(s, leaf) ==
  {q \in (0 .. WotsLen - 1) \X (0 .. WotsLen - 1) : 2 * q[2] + 1 < Row(s, leaf, q[1]).l}

RowCalls(s, leaf) ==
  {Call(Public(At(s, LTREE, leaf, q[1], q[2]))) : q \in RowPlaces(s, leaf)}

NodePlaces ==
  {q \in (0 .. TreeHeight - 1) \X (0 .. 2^TreeHeight - 1) :
     (q[2] + 1) * 2^(q[1] + 1) <= 2^TreeHeight}

NodeCalls(s) == {Call(Public(At(s, HASHTREE, 0, q[1], q[2]))) : q \in NodePlaces}

LeafCalls(s, leaf) == ChainCalls(s, leaf) \union RowCalls(s, leaf)

PublicCalls(s) ==
  NodeCalls(s) \union UNION {LeafCalls(s, leaf) : leaf \in 0 .. 2^TreeHeight - 1}

TreeCalls(layer, tree) ==
  PublicCalls(Words(layer, tree)) \union
  UNION {SecretCalls(layer, tree, leaf) : leaf \in 0 .. 2^TreeHeight - 1}

\* All trees there are, and more above the lowest layer.
Trees == 2^(TreeHeight * (Layers - 1))
AllTrees == (0 .. Layers - 1) \X (0 .. Trees - 1)
AllCalls == UNION {TreeCalls(q[1], q[2]) : q \in AllTrees}

\* The words of an address tell the trees apart.
TreesFit == Trees <= Word * Word

-----------------------------------------------------------------------------
(* What index i makes of the layers. *)
SubtreeAt(i, layer) == Words(layer, TreeOf(i, layer))
RootOf(s) == NodeValue(s, TreeHeight, 0)

\* What layer signs: the digest, or the root of the tree below.
MessageAt(i, layer) == IF layer = 0 THEN Digest(i) ELSE RootOf(SubtreeAt(i, layer - 1))

WotsSignature(s, leaf, msg) ==
  [i \in 1 .. WotsLen |-> ChainValue(s, leaf, i - 1, chain_lengths(msg, i - 1))]

WotsAt(i, layer) == WotsSignature(SubtreeAt(i, layer), LeafOf(i, layer), MessageAt(i, layer))

Sibling(x) == IF x % 2 = 1 THEN x - 1 ELSE x + 1
AuthPath(s, leaf) == [h \in 0 .. TreeHeight - 1 |-> NodeValue(s, h, Sibling(Shr(leaf, h)))]

SignatureAt(i) ==
  [j \in 1 .. Layers |->
     [wots |-> WotsAt(i, j - 1), auth |-> AuthPath(SubtreeAt(i, j - 1), LeafOf(i, j - 1))]]

Signed ==
  /\ sig.core = SignatureAt(idx - 1)
  /\ sig.fast = [j \in 1 .. Layers |-> WotsAt(idx - 1, j - 1)]
  /\ \A layer \in 0 .. Layers - 1 : PublicCalls(SubtreeAt(idx - 1, layer)) \subseteq log

HashingInv ==
  /\ idx \in 0 .. Last
  /\ root = RootOf(Words(Layers - 1, 0))
  /\ stored = [j \in 1 .. Layers - 1 |-> WotsAt(idx, j)]
  /\ log \subseteq AllCalls
  /\ IF idx = 0 THEN sig = [core |-> << >>, fast |-> << >>] ELSE Signed
  /\ VerifierFindsRoot

-----------------------------------------------------------------------------
(* Addresses and sequences.                                                *)

\* The constants.
LEMMA Sizes ==
  /\ TreeHeight \in Nat \ {0} /\ Layers \in Nat \ {0} /\ WotsLen \in Nat \ {0}
  /\ WotsW \in Nat /\ WotsW >= 2 /\ Word \in Nat /\ Word >= 2
  BY HashingAssumption

\* A subtree is a triple.
Triple(s) == s = <<s[1], s[2], s[3]>>

IsAddr(a) == a = [w \in 0 .. 7 |-> a[w]]

\* An address in subtree s of a type, with word 4 for a leaf.
InTree(a, s, type, x) ==
  /\ IsAddr(a) /\ Triple(s)
  /\ a[0] = s[1] /\ a[1] = s[2] /\ a[2] = s[3] /\ a[3] = type /\ a[4] = x

\* The words of an address say what it is.
LEMMA AtIs ==
  ASSUME NEW a, NEW s, NEW type, NEW x, InTree(a, s, type, x), a[7] = 0
  PROVE  a = At(s, type, x, a[5], a[6])
<1>1. a = [w \in 0 .. 7 |-> a[w]]
  BY DEF InTree, IsAddr
<1>2. ASSUME NEW w \in 0 .. 7
      PROVE  a[w] = At(s, type, x, a[5], a[6])[w]
  BY DEF InTree, At
<1>3. At(s, type, x, a[5], a[6]) = [w \in 0 .. 7 |-> At(s, type, x, a[5], a[6])[w]]
  BY DEF At
<1> QED
  BY <1>1, <1>2, <1>3

\* The words of At.
LEMMA AtWords ==
  ASSUME NEW s, NEW type, NEW x, NEW y, NEW z
  PROVE  LET a == At(s, type, x, y, z) IN
         /\ IsAddr(a)
         /\ a[0] = s[1] /\ a[1] = s[2] /\ a[2] = s[3] /\ a[3] = type
         /\ a[4] = x /\ a[5] = y /\ a[6] = z /\ a[7] = 0
  BY DEF At, IsAddr

\* A word is set, the others stay.
LEMMA WordSet ==
  ASSUME NEW a, IsAddr(a), NEW w \in 0 .. 7, NEW v
  PROVE  LET b == [a EXCEPT ![w] = v] IN
         /\ IsAddr(b) /\ b[w] = v
         /\ \A u \in 0 .. 7 \ {w} : b[u] = a[u]
  BY DEF IsAddr

\* What the setters of the last four words do.
LEMMA LastWordsSet ==
  ASSUME NEW a, NEW s, NEW type, NEW x, InTree(a, s, type, x), NEW v
  PROVE  /\ InTree(set_chain_addr(a, v), s, type, x)
         /\ set_chain_addr(a, v)[5] = v
         /\ set_chain_addr(a, v)[6] = a[6] /\ set_chain_addr(a, v)[7] = a[7]
         /\ InTree(set_hash_addr(a, v), s, type, x)
         /\ set_hash_addr(a, v)[6] = v
         /\ set_hash_addr(a, v)[5] = a[5] /\ set_hash_addr(a, v)[7] = a[7]
         /\ InTree(set_key_and_mask(a, v), s, type, x)
         /\ set_key_and_mask(a, v)[7] = v
         /\ set_key_and_mask(a, v)[5] = a[5] /\ set_key_and_mask(a, v)[6] = a[6]
         /\ InTree(set_ots_addr(a, v), s, type, v)
<1>1. IsAddr(a)
  BY DEF InTree
<1> DEFINE b == set_chain_addr(a, v)
           c == set_hash_addr(a, v)
           d == set_key_and_mask(a, v)
           e == set_ots_addr(a, v)
<1>2. IsAddr(b) /\ b[5] = v /\ \A u \in 0 .. 7 \ {5} : b[u] = a[u]
  BY <1>1, WordSet DEF set_chain_addr
<1>3. IsAddr(c) /\ c[6] = v /\ \A u \in 0 .. 7 \ {6} : c[u] = a[u]
  BY <1>1, WordSet DEF set_hash_addr
<1>4. IsAddr(d) /\ d[7] = v /\ \A u \in 0 .. 7 \ {7} : d[u] = a[u]
  BY <1>1, WordSet DEF set_key_and_mask
<1>5. IsAddr(e) /\ e[4] = v /\ \A u \in 0 .. 7 \ {4} : e[u] = a[u]
  BY <1>1, WordSet DEF set_ots_addr
<1> HIDE DEF b, c, d, e
<1>6. InTree(b, s, type, x) /\ b[6] = a[6] /\ b[7] = a[7]
  BY <1>2 DEF InTree
<1>7. InTree(c, s, type, x) /\ c[5] = a[5] /\ c[7] = a[7]
  BY <1>3 DEF InTree
<1>8. InTree(d, s, type, x) /\ d[5] = a[5] /\ d[6] = a[6]
  BY <1>4 DEF InTree
<1>9. InTree(e, s, type, v)
  BY <1>5 DEF InTree
<1> QED
  BY <1>2, <1>3, <1>4, <1>6, <1>7, <1>8, <1>9 DEF b, c, d, e

\* The setters for nodes are those for chains under other names.
LEMMA SameSetters ==
  ASSUME NEW a, NEW v
  PROVE  /\ set_tree_height(a, v) = set_chain_addr(a, v)
         /\ set_tree_index(a, v) = set_hash_addr(a, v)
         /\ set_ltree_addr(a, v) = set_ots_addr(a, v)
  BY DEF set_tree_height, set_chain_addr, set_tree_index, set_hash_addr,
         set_ltree_addr, set_ots_addr

\* A call of thash_f or thash_h, under the address whose words 5 and 6 are set.
LEMMA KeyedIs ==
  ASSUME NEW a, NEW s, NEW type, NEW x, InTree(a, s, type, x), NEW km, NEW use,
         NEW r, r = Keyed(set_key_and_mask(a, 0), km, use)
  PROVE  LET at == Public(At(s, type, x, a[5], a[6])) IN
         /\ InTree(r.addr, s, type, x) /\ r.addr[5] = a[5]
         /\ r.out = at /\ r.log = {[at |-> at, use |-> use]}
         /\ r = [addr |-> r.addr, out |-> r.out, log |-> r.log]
<1> DEFINE b == set_key_and_mask(a, 0)
<1>1. InTree(b, s, type, x) /\ b[5] = a[5] /\ b[6] = a[6] /\ b[7] = 0
  BY LastWordsSet
<1> HIDE DEF b
<1>2. b = At(s, type, x, a[5], a[6])
  BY <1>1, AtIs
<1>3. r = [addr |-> set_key_and_mask(b, km), out |-> Public(b),
           log |-> {[at |-> Public(b), use |-> use]}]
  BY DEF Keyed, b
<1>4. InTree(set_key_and_mask(b, km), s, type, x) /\ set_key_and_mask(b, km)[5] = a[5]
  BY <1>1, LastWordsSet
<1> QED
  BY <1>2, <1>3, <1>4

\* A sequence with an element more.
IsSeq(f, n) == n \in Nat /\ f = [j \in 1 .. n |-> f[j]]

\* g is f with e behind.
Longer(g, f, n, e) ==
  IsSeq(g, n + 1) /\ (\A j \in 1 .. n : g[j] = f[j]) /\ g[n + 1] = e

LEMMA AppendIs ==
  ASSUME NEW f, NEW n, IsSeq(f, n), NEW e
  PROVE  Longer(Append(f, e), f, n, e)
<1> DEFINE S == {f[j] : j \in 1 .. n} \union {e}
<1>1. n \in Nat /\ f \in Seq(S) /\ e \in S /\ Len(f) = n
  BY DEF IsSeq
<1> HIDE DEF S
<1>2. /\ Append(f, e) \in Seq(S) /\ Len(Append(f, e)) = n + 1
      /\ \A j \in 1 .. n : Append(f, e)[j] = f[j]
      /\ Append(f, e)[n + 1] = e
  BY <1>1, AppendProperties
<1> DEFINE g == Append(f, e)
<1>3. g = [j \in 1 .. n + 1 |-> g[j]]
  <2>1. g \in Seq(S) /\ Len(g) = n + 1
    BY <1>2
  <2> HIDE DEF g
  <2> QED
    BY <1>1, <2>1, LenProperties
<1> QED
  BY <1>1, <1>2, <1>3 DEF IsSeq, Longer

\* What functions that hash hand on.
IsState(c) == c = [addr |-> c.addr, out |-> c.out, log |-> c.log]

\* Appended: the results are a sequence with an element more.
OneMore(t, c, r, n) ==
  /\ IsState(t)
  /\ t.addr = r.addr /\ t.log = c.log \union r.log /\ Longer(t.out, c.out, n, r.out)

LEMMA AppendedIs ==
  ASSUME NEW c, NEW n, IsSeq(c.out, n), NEW r
  PROVE  OneMore(Appended(c, r), c, r, n)
<1>1. Longer(Append(c.out, r.out), c.out, n, r.out)
  BY AppendIs
<1> DEFINE t == Appended(c, r)
<1>2. IsState(t) /\ t.addr = r.addr /\ t.log = c.log \union r.log /\ t.out = Append(c.out, r.out)
  BY DEF Appended, IsState
<1> HIDE DEF t
<1>3. OneMore(t, c, r, n)
  BY <1>1, <1>2 DEF OneMore
<1> QED
  BY <1>3 DEF t

-----------------------------------------------------------------------------
(* Chains.                                                                 *)

\* A call in a chain takes the value before.
LEMMA ChainCall ==
  ASSUME NEW s, Triple(s), NEW leaf, NEW i, NEW k,
         NEW at, at = Public(At(s, OTS, leaf, i, k))
  PROVE  Call(at) = [at |-> at, use |-> <<"F", ChainValue(s, leaf, i, k)>>]
<1> DEFINE a == At(s, OTS, leaf, i, k)
<1>1. /\ a[0] = s[1] /\ a[1] = s[2] /\ a[2] = s[3] /\ a[3] = OTS
      /\ a[4] = leaf /\ a[5] = i /\ a[6] = k
  BY AtWords
<1>2. at[1] = "pub_seed" /\ at[2] = a
  BY DEF Public
<1> HIDE DEF a
<1>3. SubtreeOf(a) = s
  BY <1>1 DEF SubtreeOf, Triple
<1>4. Use(at) = <<"F", ChainValue(s, leaf, i, k)>>
  BY <1>1, <1>2, <1>3 DEF Use
<1> QED
  BY <1>4 DEF Call

(***************************************************************************)
(* gen_chain.  p is what it was called with: start, subtree, leaf, chain   *)
(* and the number of turns.                                                *)
(***************************************************************************)
ChainTurn(p, c, k) == Logged(c, thash_f(set_hash_addr(c.addr, p[1] + k), c.out))

ChainInv(p, c, k) ==
  /\ InTree(c.addr, p[2], OTS, p[3]) /\ c.addr[5] = p[4]
  /\ c.out = ChainValue(p[2], p[3], p[4], p[1] + k)
  /\ c.log = {Call(Public(At(p[2], OTS, p[3], p[4], j))) : j \in p[1] .. p[1] + k - 1}

Chain == INSTANCE LoopRules WITH Body <- ChainTurn, Inv <- ChainInv

\* A turn.
LEMMA ChainKeeps ==
  ASSUME NEW p, p[1] \in Nat, NEW c, NEW k \in Nat, ChainInv(p, c, k)
  PROVE  ChainInv(p, ChainTurn(p, c, k), k + 1)
<1> DEFINE a  == set_hash_addr(c.addr, p[1] + k)
           r  == thash_f(a, c.out)
           at == Public(At(p[2], OTS, p[3], p[4], p[1] + k))
<1>1. InTree(a, p[2], OTS, p[3]) /\ a[5] = p[4] /\ a[6] = p[1] + k /\ Triple(p[2])
  BY LastWordsSet DEF ChainInv, InTree
<1>2. r = Keyed(set_key_and_mask(a, 0), 1, <<"F", c.out>>)
  BY DEF thash_f
<1> HIDE DEF a, r
<1>3. /\ InTree(r.addr, p[2], OTS, p[3]) /\ r.addr[5] = p[4]
      /\ r.out = at /\ r.log = {[at |-> at, use |-> <<"F", c.out>>]}
      /\ r = [addr |-> r.addr, out |-> r.out, log |-> r.log]
  BY <1>1, <1>2, KeyedIs
<1>4. Call(at) = [at |-> at, use |-> <<"F", c.out>>]
  BY <1>1, ChainCall DEF ChainInv
<1> DEFINE t == ChainTurn(p, c, k)
<1>5. t.addr = r.addr /\ t.out = at /\ t.log = {Call(at)} \union c.log
  <2> HIDE DEF at
  <2>1. t = [r EXCEPT !.log = @ \union c.log]
    BY DEF ChainTurn, Logged, r, a
  <2> HIDE DEF t
  <2> QED
    BY <1>3, <1>4, <2>1
<1>6. t.out = ChainValue(p[2], p[3], p[4], p[1] + (k + 1))
  <2>1. p[1] + (k + 1) # 0 /\ (p[1] + (k + 1)) - 1 = p[1] + k
    OBVIOUS
  <2> QED
    BY <1>5, <2>1 DEF ChainValue
<1> DEFINE E(j) == Call(Public(At(p[2], OTS, p[3], p[4], j)))
<1>7. t.log = {E(j) : j \in p[1] .. p[1] + (k + 1) - 1}
  <2>1. c.log = {E(j) : j \in p[1] .. p[1] + k - 1} /\ Call(at) = E(p[1] + k)
    BY DEF ChainInv
  <2>2. p[1] .. p[1] + (k + 1) - 1 = (p[1] .. p[1] + k - 1) \union {p[1] + k}
    OBVIOUS
  <2> HIDE DEF E
  <2> QED
    BY <1>5, <2>1, <2>2
<1> QED
  BY <1>3, <1>5, <1>6, <1>7 DEF ChainInv

\* A piece of a chain, from value start on.
ChainPiece(c, s, leaf, i, start, steps) ==
  /\ InTree(c.addr, s, OTS, leaf) /\ c.addr[5] = i
  /\ c.out = ChainValue(s, leaf, i, start + steps)
  /\ c.log = {Call(Public(At(s, OTS, leaf, i, j))) : j \in start .. start + steps - 1}

LEMMA GenChainIs ==
  ASSUME NEW addr, NEW s, NEW leaf, NEW i, InTree(addr, s, OTS, leaf), addr[5] = i,
         NEW start \in Nat, NEW steps \in Nat, start + steps < WotsW,
         NEW in, in = ChainValue(s, leaf, i, start)
  PROVE  ChainPiece(gen_chain(addr, in, start, steps), s, leaf, i, start, steps)
<1> DEFINE p    == <<start, s, leaf, i>>
           zero == [addr |-> addr, out |-> in, log |-> {}]
           done == Chain!TheFor(p, steps, zero)
<1>1. p[1] = start /\ p[2] = s /\ p[3] = leaf /\ p[4] = i
  OBVIOUS
<1>2. gen_chain(addr, in, start, steps) = done
  <2> HIDE DEF p
  <2>1. gen_chain(addr, in, p[1], steps) = done
    BY <1>1 DEF gen_chain, ChainTurn, For, Chain!TheFor, Chain!For
  <2> QED
    BY <1>1, <2>1
<1> HIDE DEF p
<1>3. ChainInv(p, zero, 0)
  <2>1. start .. start + 0 - 1 = {} /\ start + 0 = start
    OBVIOUS
  <2> QED
    BY <1>1, <2>1 DEF ChainInv
<1>4. ASSUME NEW c, NEW k \in 0 .. steps - 1, ChainInv(p, c, k)
      PROVE  ChainInv(p, ChainTurn(p, c, k), k + 1)
  BY <1>1, <1>4, ChainKeeps
<1>5. ChainInv(p, done, steps)
  <2> HIDE DEF zero
  <2> QED
    BY <1>3, <1>4, Chain!ForRule
<1> HIDE DEF done
<1> QED
  BY <1>1, <1>2, <1>5 DEF ChainInv, ChainPiece

-----------------------------------------------------------------------------
(* One-time keys.                                                          *)

\* expand_seed, called with p: who, subtree and leaf.
SeedTurn(p, c, i) == Appended(c, prf_keygen(set_chain_addr(c.addr, i), p[1], i))

SeedInv(p, c, i) ==
  /\ IsState(c)
  /\ InTree(c.addr, p[2], OTS, p[3]) /\ c.addr[6] = 0 /\ c.addr[7] = 0
  /\ IsSeq(c.out, i)
  /\ \A j \in 1 .. i : c.out[j] = ChainValue(p[2], p[3], j - 1, 0)
  /\ c.log = {[at  |-> Secret(At(p[2], OTS, p[3], j, 0)),
               use |-> <<"secret", p[1], j>>] : j \in 0 .. i - 1}

Seeds == INSTANCE LoopRules WITH Body <- SeedTurn, Inv <- SeedInv

\* A turn.
LEMMA SeedKeeps ==
  ASSUME NEW p, NEW c, NEW i \in Nat, SeedInv(p, c, i)
  PROVE  SeedInv(p, SeedTurn(p, c, i), i + 1)
<1> DEFINE a    == set_chain_addr(c.addr, i)
           at   == Secret(At(p[2], OTS, p[3], i, 0))
           new  == [at |-> at, use |-> <<"secret", p[1], i>>]
           t    == SeedTurn(p, c, i)
<1>1. InTree(a, p[2], OTS, p[3]) /\ a[5] = i /\ a[6] = 0 /\ a[7] = 0
  BY LastWordsSet DEF SeedInv
<1>2. a = At(p[2], OTS, p[3], i, 0)
  BY <1>1, AtIs
<1> DEFINE r == prf_keygen(a, p[1], i)
<1>3. /\ IsState(t)
      /\ t.addr = a /\ t.log = c.log \union {new}
      /\ IsSeq(t.out, i + 1) /\ t.out[i + 1] = at
      /\ \A j \in 1 .. i : t.out[j] = c.out[j]
  <2>1. r.addr = a /\ r.out = at /\ r.log = {new}
    BY <1>2 DEF prf_keygen
  <2>2. t = Appended(c, r) /\ IsSeq(c.out, i)
    BY DEF SeedTurn, SeedInv
  <2> HIDE DEF r, t, at, new, a
  <2>3. OneMore(t, c, r, i)
    BY <2>2, AppendedIs
  <2> QED
    BY <2>1, <2>3 DEF OneMore, Longer
<1> HIDE DEF a, t, r
<1>4. IsSeq(t.out, i + 1) /\ \A j \in 1 .. i + 1 : t.out[j] = ChainValue(p[2], p[3], j - 1, 0)
  <2>2. at = ChainValue(p[2], p[3], (i + 1) - 1, 0)
    BY DEF ChainValue
  <2>3. ASSUME NEW j \in 1 .. i + 1
        PROVE  t.out[j] = ChainValue(p[2], p[3], j - 1, 0)
    <3>1. CASE j = i + 1
      BY <1>3, <2>2, <3>1
    <3>2. CASE j # i + 1
      <4>1. j \in 1 .. i
        BY <3>2
      <4> QED
        BY <1>3, <4>1 DEF SeedInv
    <3> QED
      BY <3>1, <3>2
  <2> QED
    BY <1>3, <2>3
<1> DEFINE E(j) == [at  |-> Secret(At(p[2], OTS, p[3], j, 0)),
                    use |-> <<"secret", p[1], j>>]
<1>5. t.log = {E(j) : j \in 0 .. (i + 1) - 1}
  <2>1. c.log = {E(j) : j \in 0 .. i - 1} /\ new = E(i) /\ t.log = c.log \union {new}
    BY <1>3 DEF SeedInv
  <2>2. 0 .. (i + 1) - 1 = (0 .. i - 1) \union {i}
    OBVIOUS
  <2> HIDE DEF E, new
  <2> QED
    BY <2>1, <2>2
<1> HIDE DEF at, new
<1>6. SeedInv(p, t, i + 1)
  BY <1>1, <1>3, <1>4, <1>5 DEF SeedInv
<1> QED
  BY <1>6 DEF t

\* The secrets of a one-time key.
SeedsOf(c, layer, tree, leaf) ==
  /\ IsState(c)
  /\ InTree(c.addr, Words(layer, tree), OTS, leaf)
  /\ IsSeq(c.out, WotsLen)
  /\ \A j \in 1 .. WotsLen : c.out[j] = ChainValue(Words(layer, tree), leaf, j - 1, 0)
  /\ c.log = SecretCalls(layer, tree, leaf)

LEMMA ExpandSeedIs ==
  ASSUME NEW layer, NEW tree, NEW leaf, NEW who, who = <<layer, tree, leaf>>,
         NEW addr, InTree(addr, Words(layer, tree), OTS, leaf)
  PROVE  SeedsOf(expand_seed(addr, who), layer, tree, leaf)
<1> DEFINE s    == Words(layer, tree)
           p    == <<who, s, leaf>>
           a    == set_key_and_mask(set_hash_addr(addr, 0), 0)
           zero == [addr |-> a, out |-> << >>, log |-> {}]
           done == Seeds!TheFor(p, WotsLen, zero)
<1>1. p[1] = who /\ p[2] = s /\ p[3] = leaf /\ WotsLen \in Nat
  BY Sizes
<1>2. expand_seed(addr, who) = done
  <2> HIDE DEF p
  <2>1. expand_seed(addr, p[1]) = done
    BY <1>1 DEF expand_seed, SeedTurn, For, Seeds!TheFor, Seeds!For
  <2> QED
    BY <1>1, <2>1
<1> HIDE DEF p, s
<1>3. InTree(a, s, OTS, leaf) /\ a[6] = 0 /\ a[7] = 0
  <2>1. InTree(set_hash_addr(addr, 0), s, OTS, leaf) /\ set_hash_addr(addr, 0)[6] = 0
    BY LastWordsSet DEF s
  <2> QED
    BY <2>1, LastWordsSet
<1> HIDE DEF a
<1>4. SeedInv(p, zero, 0)
  BY <1>1, <1>3 DEF SeedInv, IsSeq, IsState
<1> HIDE DEF zero
<1>5. ASSUME NEW c, NEW i \in 0 .. WotsLen - 1, SeedInv(p, c, i)
      PROVE  SeedInv(p, SeedTurn(p, c, i), i + 1)
  BY <1>5, SeedKeeps
<1>6. SeedInv(p, done, WotsLen)
  BY <1>1, <1>4, <1>5, Seeds!ForRule
<1> HIDE DEF done
<1> QED
  BY <1>1, <1>2, <1>6 DEF SeedInv, SecretCalls, SeedsOf, s

(***************************************************************************)
(* The chains of a key, each from from[i] to to[i].  p is subtree, leaf,   *)
(* from, to, and out and log of what the loop starts with.                 *)
(***************************************************************************)
Lengths(f) == f \in [0 .. WotsLen - 1 -> 0 .. WotsW - 1]

KeyInv(p, c, i) ==
  /\ IsState(c)
  /\ InTree(c.addr, p[1], OTS, p[2])
  /\ IsSeq(c.out, i)
  /\ \A j \in 1 .. i : c.out[j] = ChainValue(p[1], p[2], j - 1, p[4][j - 1])
  /\ p[6] \subseteq c.log /\ c.log \subseteq p[6] \union ChainCalls(p[1], p[2])
  /\ \A j \in 0 .. i - 1 : \A k \in p[3][j] .. p[4][j] - 1 :
       Call(Public(At(p[1], OTS, p[2], j, k))) \in c.log

Ready(p) ==
  /\ Lengths(p[3]) /\ Lengths(p[4])
  /\ \A j \in 0 .. WotsLen - 1 : /\ p[3][j] <= p[4][j]
                                 /\ p[5][j + 1] = ChainValue(p[1], p[2], j, p[3][j])

\* A turn, whatever the loop.
LEMMA KeyKeeps ==
  ASSUME NEW p, Ready(p), NEW c, NEW i \in 0 .. WotsLen - 1, KeyInv(p, c, i),
         NEW r, r = gen_chain(set_chain_addr(c.addr, i), p[5][i + 1],
                              p[3][i], p[4][i] - p[3][i]),
         NEW t, t = Appended(c, r)
  PROVE  KeyInv(p, t, i + 1)
<1> DEFINE E(j, k) == Call(Public(At(p[1], OTS, p[2], j, k)))
<1>1. WotsLen \in Nat /\ WotsW \in Nat /\ i \in Nat
  BY Sizes
<1>2. /\ p[3][i] \in 0 .. WotsW - 1 /\ p[4][i] \in 0 .. WotsW - 1 /\ p[3][i] <= p[4][i]
      /\ p[5][i + 1] = ChainValue(p[1], p[2], i, p[3][i])
  BY DEF Ready, Lengths
<1>3. InTree(set_chain_addr(c.addr, i), p[1], OTS, p[2]) /\ set_chain_addr(c.addr, i)[5] = i
  BY LastWordsSet DEF KeyInv
<1>4. /\ InTree(r.addr, p[1], OTS, p[2])
      /\ r.out = ChainValue(p[1], p[2], i, p[4][i])
      /\ r.log = {E(i, k) : k \in p[3][i] .. p[4][i] - 1}
  <2>1. /\ p[3][i] \in Nat /\ p[4][i] - p[3][i] \in Nat
        /\ p[3][i] + (p[4][i] - p[3][i]) = p[4][i]
        /\ p[3][i] + (p[4][i] - p[3][i]) < WotsW
    BY <1>1, <1>2
  <2> DEFINE addr  == set_chain_addr(c.addr, i)
             start == p[3][i]
             steps == p[4][i] - p[3][i]
             in    == p[5][i + 1]
  <2>2. r = gen_chain(addr, in, start, steps)
    OBVIOUS
  <2>3. InTree(addr, p[1], OTS, p[2]) /\ addr[5] = i
    BY <1>3
  <2>4. /\ start \in Nat /\ steps \in Nat /\ start + steps = p[4][i] /\ start + steps < WotsW
        /\ start = p[3][i] /\ in = ChainValue(p[1], p[2], i, start)
    BY <1>2, <2>1
  <2> HIDE DEF addr, start, steps, in
  <2>5. ChainPiece(r, p[1], p[2], i, start, steps)
    BY <2>2, <2>3, <2>4, GenChainIs
  <2> QED
    BY <2>4, <2>5 DEF ChainPiece
<1>5. /\ IsState(t)
      /\ t.addr = r.addr /\ t.log = c.log \union r.log
      /\ IsSeq(t.out, i + 1) /\ t.out[i + 1] = r.out
      /\ \A j \in 1 .. i : t.out[j] = c.out[j]
  <2>1. IsSeq(c.out, i)
    BY DEF KeyInv
  <2>2. OneMore(t, c, r, i)
    BY <2>1, AppendedIs
  <2> QED
    BY <2>2 DEF OneMore, Longer
<1>6. IsSeq(t.out, i + 1)
      /\ \A j \in 1 .. i + 1 : t.out[j] = ChainValue(p[1], p[2], j - 1, p[4][j - 1])
  <2>2. ASSUME NEW j \in 1 .. i + 1
        PROVE  t.out[j] = ChainValue(p[1], p[2], j - 1, p[4][j - 1])
    <3>1. CASE j = i + 1
      <4>1. j - 1 = i
        BY <1>1, <3>1
      <4> QED
        BY <1>4, <1>5, <3>1, <4>1
    <3>2. CASE j # i + 1
      <4>1. j \in 1 .. i
        BY <3>2, <1>1
      <4> QED
        BY <1>5, <4>1 DEF KeyInv
    <3> QED
      BY <3>1, <3>2
  <2> QED
    BY <1>5, <2>2
<1>7. r.log \subseteq ChainCalls(p[1], p[2])
  <2> SUFFICES ASSUME NEW k \in p[3][i] .. p[4][i] - 1
               PROVE  E(i, k) \in ChainCalls(p[1], p[2])
    BY <1>4
  <2>1. k \in 0 .. WotsW - 2
    BY <1>1, <1>2
  <2> QED
    BY <2>1 DEF ChainCalls
<1>8. \A j \in 0 .. (i + 1) - 1 : \A k \in p[3][j] .. p[4][j] - 1 : E(j, k) \in t.log
  <2> SUFFICES ASSUME NEW j \in 0 .. (i + 1) - 1, NEW k \in p[3][j] .. p[4][j] - 1
               PROVE  E(j, k) \in c.log \union r.log
    BY <1>5
  <2>1. CASE j = i
    BY <1>4, <2>1
  <2>2. CASE j # i
    <3>1. j \in 0 .. i - 1
      BY <1>1, <2>2
    <3> QED
      BY <3>1 DEF KeyInv
  <2> QED
    BY <2>1, <2>2
<1>9. p[6] \subseteq t.log /\ t.log \subseteq p[6] \union ChainCalls(p[1], p[2])
  BY <1>5, <1>7 DEF KeyInv
<1> QED
  BY <1>4, <1>5, <1>6, <1>8, <1>9 DEF KeyInv

\* The three loops of wots.c; p[7] is the message.
PkgenTurn(p, c, i) ==
  Appended(c, gen_chain(set_chain_addr(c.addr, i), p[5][i + 1], 0, WotsW - 1))

SignTurn(p, c, i) ==
  Appended(c, gen_chain(set_chain_addr(c.addr, i), p[5][i + 1], 0, chain_lengths(p[7], i)))

FromSigTurn(p, c, i) ==
  Appended(c, gen_chain(set_chain_addr(c.addr, i), p[5][i + 1], chain_lengths(p[7], i),
                        WotsW - 1 - chain_lengths(p[7], i)))

Pkgen == INSTANCE LoopRules WITH Body <- PkgenTurn, Inv <- KeyInv
Signing == INSTANCE LoopRules WITH Body <- SignTurn, Inv <- KeyInv
FromSig == INSTANCE LoopRules WITH Body <- FromSigTurn, Inv <- KeyInv

\* Where a message is cut: the ends of the chains in its signature.
Cuts(msg) == [i \in 0 .. WotsLen - 1 |-> chain_lengths(msg, i)]
Starts == [i \in 0 .. WotsLen - 1 |-> 0]
Ends == [i \in 0 .. WotsLen - 1 |-> WotsW - 1]

LEMMA CutsAre ==
  ASSUME NEW msg, Number(msg) \in Nat
  PROVE  /\ Lengths(Starts) /\ Lengths(Ends) /\ Lengths(Cuts(msg))
         /\ \A i \in 0 .. WotsLen - 1 :
              Starts[i] = 0 /\ Ends[i] = WotsW - 1 /\ Cuts(msg)[i] = chain_lengths(msg, i)
<1>1. WotsW \in Nat \ {0} /\ WotsLen \in Nat
  BY Sizes
<1>2. Lengths(Starts) /\ Lengths(Ends)
  BY <1>1 DEF Lengths, Starts, Ends
<1>3. ASSUME NEW i \in 0 .. WotsLen - 1
      PROVE  chain_lengths(msg, i) \in 0 .. WotsW - 1
  <2> DEFINE n == Number(msg) + i
  <2>1. n \in Int
    BY <1>1
  <2>2. chain_lengths(msg, i) = n % WotsW
    BY DEF chain_lengths
  <2> HIDE DEF n
  <2> QED
    BY <1>1, <2>1, <2>2
<1>4. Lengths(Cuts(msg))
  BY <1>3 DEF Lengths, Cuts
<1> QED
  BY <1>2, <1>4 DEF Starts, Ends, Cuts

\* What the loops return: the values at the ends of the chains.
ValuesAt(s, leaf, to) == [j \in 1 .. WotsLen |-> ChainValue(s, leaf, j - 1, to[j - 1])]

LEMMA KeyIsDone ==
  ASSUME NEW p, NEW c, KeyInv(p, c, WotsLen)
  PROVE  /\ IsState(c) /\ InTree(c.addr, p[1], OTS, p[2])
         /\ c.out = ValuesAt(p[1], p[2], p[4])
         /\ p[6] \subseteq c.log /\ c.log \subseteq p[6] \union ChainCalls(p[1], p[2])
<1>1. IsSeq(c.out, WotsLen)
  BY DEF KeyInv
<1>2. \A j \in 1 .. WotsLen : c.out[j] = ChainValue(p[1], p[2], j - 1, p[4][j - 1])
  BY DEF KeyInv
<1>3. c.out = ValuesAt(p[1], p[2], p[4])
  BY <1>1, <1>2 DEF IsSeq, ValuesAt
<1> QED
  BY <1>3 DEF KeyInv

\* What the loops start from.
KeyStart(c, s, leaf) == IsState(c) /\ InTree(c.addr, s, OTS, leaf)

\* The loops start well.
LEMMA KeyStarts ==
  ASSUME NEW p, NEW c, KeyStart(c, p[1], p[2]), p[6] = c.log,
         NEW t, t = [c EXCEPT !.out = << >>]
  PROVE  KeyInv(p, t, 0)
<1>1. t.addr = c.addr /\ t.log = c.log /\ t.out = << >> /\ IsState(t)
  BY DEF KeyStart, IsState
<1>2. IsSeq(t.out, 0)
  BY <1>1 DEF IsSeq
<1> QED
  BY <1>1, <1>2 DEF KeyInv, KeyStart

\* A public key.
PublicKey(s, leaf) == ValuesAt(s, leaf, Ends)

KeyMade(r, layer, tree, leaf) ==
  /\ IsState(r) /\ InTree(r.addr, Words(layer, tree), OTS, leaf)
  /\ r.out = PublicKey(Words(layer, tree), leaf)
  /\ ChainCalls(Words(layer, tree), leaf) \subseteq r.log
  /\ r.log \subseteq SecretCalls(layer, tree, leaf) \union ChainCalls(Words(layer, tree), leaf)

LEMMA PkgenIs ==
  ASSUME NEW layer, NEW tree, NEW leaf, NEW who, who = <<layer, tree, leaf>>,
         NEW addr, InTree(addr, Words(layer, tree), OTS, leaf)
  PROVE  KeyMade(wots_pkgen(addr, who), layer, tree, leaf)
<1> DEFINE s    == Words(layer, tree)
           in   == expand_seed(addr, who)
           p    == <<s, leaf, Starts, Ends, in.out, in.log>>
           zero == [in EXCEPT !.out = << >>]
           done == Pkgen!TheFor(p, WotsLen, zero)
<1>1. SeedsOf(in, layer, tree, leaf)
  BY ExpandSeedIs
<1>2. /\ p[1] = s /\ p[2] = leaf /\ p[3] = Starts /\ p[4] = Ends
      /\ p[5] = in.out /\ p[6] = in.log
  OBVIOUS
<1>3. WotsLen \in Nat /\ WotsW \in Nat /\ WotsW >= 2
  BY Sizes
<1> HIDE DEF p, in
<1>4. wots_pkgen(addr, who) = done
  BY <1>2 DEF wots_pkgen, Chains, PkgenTurn, For, Pkgen!TheFor, Pkgen!For, in
<1> HIDE DEF s
<1>5. Ready(p)
  <2>1. Number(Digest(0)) \in Nat
    BY DEF Number, Digest
  <2>2. /\ Lengths(Starts) /\ Lengths(Ends)
        /\ \A i \in 0 .. WotsLen - 1 : Starts[i] = 0 /\ Ends[i] = WotsW - 1
    BY <2>1, CutsAre
  <2>3. ASSUME NEW j \in 0 .. WotsLen - 1
        PROVE  Starts[j] <= Ends[j] /\ in.out[j + 1] = ChainValue(s, leaf, j, Starts[j])
    <3>1. Starts[j] = 0 /\ Ends[j] = WotsW - 1 /\ j + 1 \in 1 .. WotsLen /\ (j + 1) - 1 = j
      BY <1>3, <2>2
    <3>2. in.out[j + 1] = ChainValue(s, leaf, (j + 1) - 1, 0)
      BY <1>1, <3>1 DEF SeedsOf, s
    <3> QED
      BY <1>3, <3>1, <3>2
  <2> QED
    BY <1>2, <2>2, <2>3 DEF Ready
<1>6. KeyInv(p, zero, 0)
  <2>1. KeyStart(in, p[1], p[2])
    BY <1>1, <1>2 DEF SeedsOf, KeyStart, s
  <2> QED
    BY <1>2, <2>1, KeyStarts
<1>7. ASSUME NEW c, NEW i \in 0 .. WotsLen - 1, KeyInv(p, c, i)
      PROVE  KeyInv(p, PkgenTurn(p, c, i), i + 1)
  <2>1. p[3][i] = 0 /\ p[4][i] - p[3][i] = WotsW - 1
    BY <1>2, <1>3 DEF Starts, Ends
  <2>2. PkgenTurn(p, c, i) = Appended(c, gen_chain(set_chain_addr(c.addr, i), p[5][i + 1],
                                                   p[3][i], p[4][i] - p[3][i]))
    BY <2>1 DEF PkgenTurn
  <2> QED
    BY <1>5, <1>7, <2>2, KeyKeeps
<1> HIDE DEF zero
<1>8. KeyInv(p, done, WotsLen)
  BY <1>3, <1>6, <1>7, Pkgen!ForRule
<1> HIDE DEF done
<1>9. /\ IsState(done) /\ InTree(done.addr, s, OTS, leaf) /\ done.out = ValuesAt(s, leaf, Ends)
      /\ done.log \subseteq in.log \union ChainCalls(s, leaf)
  BY <1>2, <1>8, KeyIsDone
<1>10. ChainCalls(s, leaf) \subseteq done.log
  <2> SUFFICES ASSUME NEW i \in 0 .. WotsLen - 1, NEW k \in 0 .. WotsW - 2
               PROVE  Call(Public(At(s, OTS, leaf, i, k))) \in done.log
    BY DEF ChainCalls
  <2>1. k \in Starts[i] .. Ends[i] - 1
    BY <1>3 DEF Starts, Ends
  <2> QED
    BY <1>2, <1>8, <2>1 DEF KeyInv
<1> QED
  BY <1>1, <1>4, <1>9, <1>10 DEF KeyMade, PublicKey, SeedsOf, s

\* A signature.
Signs(r, layer, tree, leaf, msg) ==
  /\ IsState(r) /\ InTree(r.addr, Words(layer, tree), OTS, leaf)
  /\ r.out = WotsSignature(Words(layer, tree), leaf, msg)
  /\ r.log \subseteq SecretCalls(layer, tree, leaf) \union ChainCalls(Words(layer, tree), leaf)

LEMMA SignIs ==
  ASSUME NEW layer, NEW tree, NEW leaf, NEW who, who = <<layer, tree, leaf>>,
         NEW addr, InTree(addr, Words(layer, tree), OTS, leaf),
         NEW msg, Number(msg) \in Nat
  PROVE  Signs(wots_sign(addr, msg, who), layer, tree, leaf, msg)
<1> DEFINE s    == Words(layer, tree)
           in   == expand_seed(addr, who)
           p    == <<s, leaf, Starts, Cuts(msg), in.out, in.log, msg>>
           zero == [in EXCEPT !.out = << >>]
           done == Signing!TheFor(p, WotsLen, zero)
<1>1. SeedsOf(in, layer, tree, leaf)
  BY ExpandSeedIs
<1>2. /\ p[1] = s /\ p[2] = leaf /\ p[3] = Starts /\ p[4] = Cuts(msg)
      /\ p[5] = in.out /\ p[6] = in.log /\ p[7] = msg
  OBVIOUS
<1>3. WotsLen \in Nat /\ WotsW \in Nat /\ WotsW >= 2
  BY Sizes
<1> HIDE DEF p, in
<1>4. wots_sign(addr, msg, who) = done
  <2>1. wots_sign(addr, p[7], who) = done
    BY <1>2 DEF wots_sign, Chains, SignTurn, For, Signing!TheFor, Signing!For, in
  <2> QED
    BY <1>2, <2>1
<1> HIDE DEF s
<1>5. /\ Lengths(Starts) /\ Lengths(Cuts(msg))
      /\ \A i \in 0 .. WotsLen - 1 : Starts[i] = 0 /\ Cuts(msg)[i] = chain_lengths(msg, i)
  BY CutsAre
<1>6. \A i \in 0 .. WotsLen - 1 : Cuts(msg)[i] \in Nat
  BY <1>3, <1>5 DEF Lengths
<1>7. Ready(p)
  <2>1. ASSUME NEW j \in 0 .. WotsLen - 1
        PROVE  Starts[j] <= Cuts(msg)[j] /\ in.out[j + 1] = ChainValue(s, leaf, j, Starts[j])
    <3>1. Starts[j] = 0 /\ Cuts(msg)[j] \in Nat /\ j + 1 \in 1 .. WotsLen /\ (j + 1) - 1 = j
      BY <1>3, <1>5, <1>6
    <3>2. in.out[j + 1] = ChainValue(s, leaf, (j + 1) - 1, 0)
      BY <1>1, <3>1 DEF SeedsOf, s
    <3> QED
      BY <1>3, <3>1, <3>2
  <2> QED
    BY <1>2, <1>5, <2>1 DEF Ready
<1>8. KeyInv(p, zero, 0)
  <2>1. KeyStart(in, p[1], p[2])
    BY <1>1, <1>2 DEF SeedsOf, KeyStart, s
  <2> QED
    BY <1>2, <2>1, KeyStarts
<1>9. ASSUME NEW c, NEW i \in 0 .. WotsLen - 1, KeyInv(p, c, i)
      PROVE  KeyInv(p, SignTurn(p, c, i), i + 1)
  <2>1. p[3][i] = 0 /\ p[4][i] - p[3][i] = chain_lengths(p[7], i)
    BY <1>2, <1>5, <1>6
  <2>2. SignTurn(p, c, i) = Appended(c, gen_chain(set_chain_addr(c.addr, i), p[5][i + 1],
                                                  p[3][i], p[4][i] - p[3][i]))
    BY <2>1 DEF SignTurn
  <2> QED
    BY <1>7, <1>9, <2>2, KeyKeeps
<1> HIDE DEF zero
<1>10. KeyInv(p, done, WotsLen)
  BY <1>3, <1>8, <1>9, Signing!ForRule
<1> HIDE DEF done
<1>11. /\ IsState(done) /\ InTree(done.addr, s, OTS, leaf)
       /\ done.out = ValuesAt(s, leaf, Cuts(msg))
       /\ done.log \subseteq in.log \union ChainCalls(s, leaf)
  BY <1>2, <1>10, KeyIsDone
<1>12. ValuesAt(s, leaf, Cuts(msg)) = WotsSignature(s, leaf, msg)
  <2>1. \A i \in 1 .. WotsLen : i - 1 \in 0 .. WotsLen - 1
    BY <1>3
  <2>2. \A i \in 1 .. WotsLen : Cuts(msg)[i - 1] = chain_lengths(msg, i - 1)
    BY <1>5, <2>1
  <2> QED
    BY <2>2 DEF ValuesAt, WotsSignature
<1> QED
  BY <1>1, <1>4, <1>11, <1>12 DEF Signs, SeedsOf, s

\* A public key from a signature.
KeyFound(r, s, leaf) ==
  /\ IsState(r) /\ InTree(r.addr, s, OTS, leaf)
  /\ r.out = PublicKey(s, leaf) /\ r.log \subseteq ChainCalls(s, leaf)

LEMMA FromSigIs ==
  ASSUME NEW s, NEW leaf, NEW addr, InTree(addr, s, OTS, leaf),
         NEW msg, Number(msg) \in Nat,
         NEW from, from = WotsSignature(s, leaf, msg)
  PROVE  KeyFound(wots_pk_from_sig(addr, from, msg), s, leaf)
<1> DEFINE in   == [addr |-> addr, out |-> from, log |-> {}]
           p    == <<s, leaf, Cuts(msg), Ends, in.out, in.log, msg>>
           zero == [in EXCEPT !.out = << >>]
           done == FromSig!TheFor(p, WotsLen, zero)
<1>1. KeyStart(in, s, leaf) /\ in.out = from /\ in.log = {}
  BY DEF KeyStart, IsState
<1>2. /\ p[1] = s /\ p[2] = leaf /\ p[3] = Cuts(msg) /\ p[4] = Ends
      /\ p[5] = in.out /\ p[6] = in.log /\ p[7] = msg
  OBVIOUS
<1>3. WotsLen \in Nat /\ WotsW \in Nat /\ WotsW >= 2
  BY Sizes
<1> HIDE DEF p, in
<1>4. wots_pk_from_sig(addr, from, msg) = done
  <2>1. wots_pk_from_sig(addr, from, p[7]) = done
    BY <1>2 DEF wots_pk_from_sig, Chains, FromSigTurn, For, FromSig!TheFor, FromSig!For, in
  <2> QED
    BY <1>2, <2>1
<1>5. /\ Lengths(Ends) /\ Lengths(Cuts(msg))
      /\ \A i \in 0 .. WotsLen - 1 : Ends[i] = WotsW - 1 /\ Cuts(msg)[i] = chain_lengths(msg, i)
  BY CutsAre
<1>6. \A i \in 0 .. WotsLen - 1 : Cuts(msg)[i] \in 0 .. WotsW - 1
  BY <1>3, <1>5 DEF Lengths
<1>7. Ready(p)
  <2>1. ASSUME NEW j \in 0 .. WotsLen - 1
        PROVE  Cuts(msg)[j] <= Ends[j] /\ in.out[j + 1] = ChainValue(s, leaf, j, Cuts(msg)[j])
    <3>1. /\ Ends[j] = WotsW - 1 /\ Cuts(msg)[j] \in 0 .. WotsW - 1
          /\ j + 1 \in 1 .. WotsLen /\ (j + 1) - 1 = j
      BY <1>3, <1>5, <1>6
    <3>2. from[j + 1] = ChainValue(s, leaf, (j + 1) - 1, chain_lengths(msg, (j + 1) - 1))
      BY <3>1 DEF WotsSignature
    <3>3. in.out[j + 1] = ChainValue(s, leaf, j, Cuts(msg)[j])
      BY <1>1, <1>5, <3>1, <3>2
    <3> QED
      BY <1>3, <3>1, <3>3
  <2> QED
    BY <1>2, <1>5, <2>1 DEF Ready
<1>8. KeyInv(p, zero, 0)
  BY <1>1, <1>2, KeyStarts
<1>9. ASSUME NEW c, NEW i \in 0 .. WotsLen - 1, KeyInv(p, c, i)
      PROVE  KeyInv(p, FromSigTurn(p, c, i), i + 1)
  <2>1. p[3][i] = chain_lengths(p[7], i) /\ p[4][i] - p[3][i] = WotsW - 1 - chain_lengths(p[7], i)
    BY <1>2, <1>5
  <2>2. FromSigTurn(p, c, i) = Appended(c, gen_chain(set_chain_addr(c.addr, i), p[5][i + 1],
                                                     p[3][i], p[4][i] - p[3][i]))
    BY <2>1 DEF FromSigTurn
  <2> QED
    BY <1>7, <1>9, <2>2, KeyKeeps
<1> HIDE DEF zero
<1>10. KeyInv(p, done, WotsLen)
  BY <1>3, <1>8, <1>9, FromSig!ForRule
<1> HIDE DEF done
<1>11. /\ IsState(done) /\ InTree(done.addr, s, OTS, leaf) /\ done.out = ValuesAt(s, leaf, Ends)
       /\ done.log \subseteq in.log \union ChainCalls(s, leaf)
  BY <1>2, <1>10, KeyIsDone
<1> QED
  BY <1>1, <1>4, <1>11 DEF KeyFound, PublicKey

-----------------------------------------------------------------------------
(* L-trees.                                                                *)

RowTurn(p, r, i) == RowAbove(p[1], p[2], r, i)

\* Rows get shorter down to one node.
RowInv(p, r, h) == r.l \in 1 .. WotsLen /\ (r.l > 1 => r.l + h <= WotsLen)

Rows == INSTANCE LoopRules WITH Body <- RowTurn, Inv <- RowInv

\* The rows one by one.
RowIs(s, leaf, h) ==
  /\ Row(s, leaf, 0) = FirstRow(s, leaf)
  /\ Row(s, leaf, h + 1) = RowAbove(s, leaf, Row(s, leaf, h), h)
  /\ Row(s, leaf, h).l \in 1 .. WotsLen
  /\ Row(s, leaf, h).l > 1 => Row(s, leaf, h).l + h <= WotsLen

LEMMA RowsAre ==
  ASSUME NEW s, NEW leaf, NEW h \in Nat
  PROVE  RowIs(s, leaf, h)
<1> DEFINE p     == <<s, leaf>>
           first == FirstRow(s, leaf)
<1>1. p[1] = s /\ p[2] = leaf
  OBVIOUS
<1> HIDE DEF p
<1>2. ASSUME NEW n
      PROVE  Row(s, leaf, n) = Rows!TheFor(p, n, first)
  <2>1. Row(p[1], p[2], n) = Rows!TheFor(p, n, FirstRow(p[1], p[2]))
    BY DEF Row, RowTurn, For, Rows!TheFor, Rows!For
  <2> QED
    BY <1>1, <2>1
<1>3. first.l = WotsLen /\ WotsLen \in Nat \ {0}
  BY Sizes DEF FirstRow
<1> HIDE DEF first
<1>4. RowInv(p, first, 0)
  BY <1>3 DEF RowInv
<1>5. ASSUME NEW r, NEW i \in 0 .. h - 1, RowInv(p, r, i)
      PROVE  RowInv(p, RowTurn(p, r, i), i + 1)
  <2> DEFINE t == RowTurn(p, r, i)
  <2>1. t.l = (r.l + 1) \div 2
    BY DEF RowTurn, RowAbove
  <2> HIDE DEF t
  <2>2. r.l \in 1 .. WotsLen /\ (r.l > 1 => r.l + i <= WotsLen)
    BY <1>5 DEF RowInv
  <2>3. RowInv(p, t, i + 1)
    BY <1>3, <2>1, <2>2 DEF RowInv
  <2> QED
    BY <2>3 DEF t
<1>6. RowInv(p, Rows!TheFor(p, h, first), h)
  BY <1>4, <1>5, Rows!ForRule
<1>7. /\ Rows!TheFor(p, 0, first) = first
      /\ Rows!TheFor(p, h + 1, first) = RowTurn(p, Rows!TheFor(p, h, first), h)
  BY Rows!ForStep
<1>8. /\ Row(s, leaf, 0) = first
      /\ Row(s, leaf, h + 1) = RowTurn(p, Row(s, leaf, h), h)
      /\ RowInv(p, Row(s, leaf, h), h)
  BY <1>2, <1>6, <1>7
<1> QED
  BY <1>1, <1>8 DEF RowIs, RowInv, RowTurn, first

\* A call in an L-tree takes two nodes of the row below.
LEMMA LTreeCall ==
  ASSUME NEW s, Triple(s), NEW leaf, NEW h, NEW j,
         NEW at, at = Public(At(s, LTREE, leaf, h, j))
  PROVE  Call(at) = [at |-> at, use |-> <<"H", Row(s, leaf, h).node[2 * j],
                                               Row(s, leaf, h).node[2 * j + 1]>>]
<1> DEFINE a == At(s, LTREE, leaf, h, j)
<1>1. /\ a[0] = s[1] /\ a[1] = s[2] /\ a[2] = s[3] /\ a[3] = LTREE
      /\ a[4] = leaf /\ a[5] = h /\ a[6] = j
  BY AtWords
<1>2. at[1] = "pub_seed" /\ at[2] = a
  BY DEF Public
<1> HIDE DEF a
<1>3. SubtreeOf(a) = s
  BY <1>1 DEF SubtreeOf, Triple
<1>4. Use(at) = <<"H", Row(s, leaf, h).node[2 * j], Row(s, leaf, h).node[2 * j + 1]>>
  BY <1>1, <1>2, <1>3 DEF Use, OTS, LTREE
<1> QED
  BY <1>4 DEF Call

\* The state of l_tree.
IsRow(t) ==
  /\ t = [addr |-> t.addr, pk |-> t.pk, l |-> t.l, height |-> t.height, log |-> t.log]
  /\ t.pk = [k \in 1 .. WotsLen |-> t.pk[k]]

\* HashedTo field by field.
NodeHashed(u, r, i, h) ==
  /\ IsRow(u)
  /\ u.addr = h.addr /\ u.l = r.l /\ u.height = r.height /\ u.log = r.log \union h.log
  /\ u.pk[i + 1] = h.out
  /\ \A k \in 1 .. WotsLen : k # i + 1 => u.pk[k] = r.pk[k]

LEMMA HashedToIs ==
  ASSUME NEW r, IsRow(r), NEW i, i + 1 \in 1 .. WotsLen, NEW h, NEW u, u = HashedTo(r, i, h)
  PROVE  NodeHashed(u, r, i, h)
<1>1. r = [addr |-> r.addr, pk |-> r.pk, l |-> r.l, height |-> r.height, log |-> r.log]
  BY DEF IsRow
<1> DEFINE pk == [r.pk EXCEPT ![i + 1] = h.out]
<1>2. u = [addr |-> h.addr, pk |-> pk, l |-> r.l, height |-> r.height, log |-> r.log \union h.log]
  BY <1>1 DEF HashedTo
<1>3. r.pk = [k \in 1 .. WotsLen |-> r.pk[k]]
  BY DEF IsRow
<1>4. /\ pk = [k \in 1 .. WotsLen |-> pk[k]] /\ pk[i + 1] = h.out
      /\ \A k \in 1 .. WotsLen : k # i + 1 => pk[k] = r.pk[k]
  BY <1>3
<1> HIDE DEF pk
<1> QED
  BY <1>2, <1>4 DEF NodeHashed, IsRow

\* PulledUp and NextRow field by field.
RowPulled(u, t) ==
  /\ IsRow(u)
  /\ u.addr = t.addr /\ u.l = (t.l + 1) \div 2 /\ u.height = t.height /\ u.log = t.log
  /\ t.l % 2 = 1 => u.pk[(t.l \div 2) + 1] = t.pk[t.l]
  /\ \A k \in 1 .. WotsLen : t.l % 2 = 0 \/ k # (t.l \div 2) + 1 => u.pk[k] = t.pk[k]

LEMMA PulledUpIs ==
  ASSUME NEW t, IsRow(t), t.l \in 1 .. WotsLen, NEW u, u = PulledUp(t)
  PROVE  RowPulled(u, t)
<1>1. t = [addr |-> t.addr, pk |-> t.pk, l |-> t.l, height |-> t.height, log |-> t.log]
  BY DEF IsRow
<1>2. t.pk = [k \in 1 .. WotsLen |-> t.pk[k]]
  BY DEF IsRow
<1>3. WotsLen \in Nat
  BY Sizes
<1>4. CASE t.l % 2 = 1
  <2> DEFINE n  == (t.l \div 2) + 1
             pk == [t.pk EXCEPT ![n] = t.pk[t.l]]
  <2>1. u = [addr |-> t.addr, pk |-> pk, l |-> n, height |-> t.height, log |-> t.log]
    BY <1>1, <1>4 DEF PulledUp
  <2>2. n \in 1 .. WotsLen /\ n = (t.l + 1) \div 2
    BY <1>3, <1>4
  <2>3. /\ pk = [k \in 1 .. WotsLen |-> pk[k]] /\ pk[n] = t.pk[t.l]
        /\ \A k \in 1 .. WotsLen : k # n => pk[k] = t.pk[k]
    <3> HIDE DEF n
    <3> QED
      BY <1>2, <2>2
  <2> HIDE DEF pk
  <2> QED
    BY <1>4, <2>1, <2>2, <2>3 DEF RowPulled, IsRow
<1>5. CASE t.l % 2 # 1
  <2>1. u = [addr |-> t.addr, pk |-> t.pk, l |-> t.l \div 2, height |-> t.height, log |-> t.log]
    BY <1>1, <1>5 DEF PulledUp
  <2>2. t.l \div 2 = (t.l + 1) \div 2 /\ t.l % 2 = 0
    BY <1>3, <1>5
  <2> QED
    BY <1>2, <1>5, <2>1, <2>2 DEF RowPulled, IsRow
<1> QED
  BY <1>4, <1>5

LEMMA NextRowIs ==
  ASSUME NEW t, IsRow(t), NEW u, u = NextRow(t)
  PROVE  /\ IsRow(u) /\ u.pk = t.pk /\ u.l = t.l /\ u.log = t.log
         /\ u.height = t.height + 1 /\ u.addr = set_tree_height(t.addr, t.height + 1)
<1>1. t = [addr |-> t.addr, pk |-> t.pk, l |-> t.l, height |-> t.height, log |-> t.log]
  BY DEF IsRow
<1>2. u = [addr |-> set_tree_height(t.addr, t.height + 1), pk |-> t.pk, l |-> t.l,
           height |-> t.height + 1, log |-> t.log]
  BY <1>1 DEF NextRow
<1> QED
  BY <1>2 DEF IsRow

(***************************************************************************)
(* One row: the loop over its pairs.  p is subtree, leaf, height and the   *)
(* state before the row.                                                   *)
(***************************************************************************)
PairTurn(p, r, i) ==
  HashedTo(r, i, thash_h(set_tree_index(r.addr, i), r.pk[2 * i + 1], r.pk[2 * i + 2]))

PairInv(p, r, i) ==
  /\ IsRow(r) /\ r.l = p[4].l /\ r.height = p[4].height
  /\ InTree(r.addr, p[1], LTREE, p[2]) /\ r.addr[5] = p[3]
  /\ \A j \in 0 .. i - 1 : r.pk[j + 1] = Public(At(p[1], LTREE, p[2], p[3], j))
  /\ \A k \in i + 1 .. WotsLen : r.pk[k] = p[4].pk[k]
  /\ r.log = p[4].log \union {Call(Public(At(p[1], LTREE, p[2], p[3], j))) : j \in 0 .. i - 1}

Pairs == INSTANCE LoopRules WITH Body <- PairTurn, Inv <- PairInv

\* The state before row m: its nodes, and the calls for all rows below.
PlacesBelow(s, leaf, m) ==
  {q \in (0 .. WotsLen - 1) \X (0 .. WotsLen - 1) :
     q[1] < m /\ 2 * q[2] + 1 < Row(s, leaf, q[1]).l}

CallsBelow(s, leaf, m) ==
  {Call(Public(At(s, LTREE, leaf, q[1], q[2]))) : q \in PlacesBelow(s, leaf, m)}

LTreeTurn(p, t, m) == IF t.l > 1 THEN LTreeRow(t) ELSE t

LTreeInv(p, t, m) ==
  /\ IsRow(t) /\ t.l = Row(p[1], p[2], m).l
  /\ InTree(t.addr, p[1], LTREE, p[2]) /\ t.addr[5] = t.height
  /\ t.l > 1 => t.height = m
  /\ \A j \in 0 .. t.l - 1 : t.pk[j + 1] = Row(p[1], p[2], m).node[j]
  /\ t.log = CallsBelow(p[1], p[2], m)

LTree == INSTANCE LoopRules WITH Body <- LTreeTurn, Inv <- LTreeInv

\* A pair is hashed.
LEMMA PairKeeps ==
  ASSUME NEW p, NEW m \in Nat, LTreeInv(p, p[4], m), p[3] = m, p[4].l > 1,
         NEW r, NEW i \in 0 .. (p[4].l \div 2) - 1, PairInv(p, r, i)
  PROVE  PairInv(p, PairTurn(p, r, i), i + 1)
<1> DEFINE s    == p[1]
           leaf == p[2]
           row  == Row(s, leaf, m)
           a    == set_tree_index(r.addr, i)
           use  == <<"H", r.pk[2 * i + 1], r.pk[2 * i + 2]>>
           h    == thash_h(a, r.pk[2 * i + 1], r.pk[2 * i + 2])
           at   == Public(At(s, LTREE, leaf, m, i))
           u    == PairTurn(p, r, i)
<1>1. row.l \in 1 .. WotsLen /\ WotsLen \in Nat /\ p[4].l = row.l
  BY RowsAre, Sizes DEF RowIs, LTreeInv
<1>2. InTree(a, s, LTREE, leaf) /\ a[5] = m /\ a[6] = i /\ Triple(s)
  BY LastWordsSet, SameSetters DEF PairInv, InTree
<1>3. h = Keyed(set_key_and_mask(a, 0), 2, use)
  BY DEF thash_h
<1>4. u = HashedTo(r, i, h)
  BY DEF PairTurn
<1> HIDE DEF a, h, u, row
<1>5. InTree(h.addr, s, LTREE, leaf) /\ h.addr[5] = m /\ h.out = at
      /\ h.log = {[at |-> at, use |-> use]}
  <2> HIDE DEF use, s, leaf
  <2> QED
    BY <1>2, <1>3, KeyedIs
<1>6. Call(at) = [at |-> at, use |-> use]
  <2>1. /\ 2 * i \in 0 .. row.l - 1 /\ 2 * i + 1 \in 0 .. row.l - 1
        /\ 2 * i + 1 \in i + 1 .. WotsLen /\ 2 * i + 2 \in i + 1 .. WotsLen
        /\ (2 * i + 1) + 1 = 2 * i + 2
    BY <1>1
  <2>2. r.pk[2 * i + 1] = row.node[2 * i] /\ r.pk[2 * i + 2] = row.node[2 * i + 1]
    <3>1. r.pk[2 * i + 1] = p[4].pk[2 * i + 1] /\ r.pk[2 * i + 2] = p[4].pk[2 * i + 2]
      BY <2>1 DEF PairInv
    <3>2. p[4].pk[2 * i + 1] = row.node[2 * i] /\ p[4].pk[(2 * i + 1) + 1] = row.node[2 * i + 1]
      BY <1>1, <2>1 DEF LTreeInv, row
    <3> QED
      BY <2>1, <3>1, <3>2
  <2>3. Call(at) = [at |-> at, use |-> <<"H", row.node[2 * i], row.node[2 * i + 1]>>]
    BY <1>2, LTreeCall DEF row
  <2> QED
    BY <2>2, <2>3
<1> HIDE DEF use, at
<1>7. NodeHashed(u, r, i, h)
  <2>1. i + 1 \in 1 .. WotsLen
    BY <1>1
  <2> QED
    BY <1>4, <2>1, HashedToIs DEF PairInv
<1>8. \A j \in 0 .. (i + 1) - 1 : u.pk[j + 1] = Public(At(s, LTREE, leaf, m, j))
  <2> SUFFICES ASSUME NEW j \in 0 .. (i + 1) - 1
               PROVE  u.pk[j + 1] = Public(At(s, LTREE, leaf, m, j))
    OBVIOUS
  <2>1. CASE j = i
    BY <1>5, <1>7, <2>1 DEF NodeHashed, at
  <2>2. CASE j # i
    <3>1. j \in 0 .. i - 1 /\ j + 1 \in 1 .. WotsLen /\ j + 1 # i + 1
      BY <1>1, <2>2
    <3> QED
      BY <1>7, <3>1 DEF NodeHashed, PairInv
  <2> QED
    BY <2>1, <2>2
<1>9. \A k \in (i + 1) + 1 .. WotsLen : u.pk[k] = p[4].pk[k]
  <2> SUFFICES ASSUME NEW k \in (i + 1) + 1 .. WotsLen
               PROVE  u.pk[k] = p[4].pk[k]
    OBVIOUS
  <2>1. k \in 1 .. WotsLen /\ k # i + 1 /\ k \in i + 1 .. WotsLen
    BY <1>1
  <2> QED
    BY <1>7, <2>1 DEF NodeHashed, PairInv
<1> DEFINE E(j) == Call(Public(At(s, LTREE, leaf, m, j)))
<1>10. u.log = p[4].log \union {E(j) : j \in 0 .. (i + 1) - 1}
  <2>1. r.log = p[4].log \union {E(j) : j \in 0 .. i - 1} /\ Call(at) = E(i)
    BY DEF PairInv, at
  <2>2. u.log = r.log \union {Call(at)}
    BY <1>5, <1>6, <1>7 DEF NodeHashed
  <2>3. 0 .. (i + 1) - 1 = (0 .. i - 1) \union {i}
    OBVIOUS
  <2> HIDE DEF E
  <2> QED
    BY <2>1, <2>2, <2>3
<1>11. IsRow(u) /\ u.l = p[4].l /\ u.height = p[4].height /\ u.addr = h.addr
  BY <1>7 DEF NodeHashed, PairInv
<1>12. PairInv(p, u, i + 1)
  BY <1>5, <1>8, <1>9, <1>10, <1>11 DEF PairInv
<1> QED
  BY <1>12 DEF u

\* A row is hashed to the row above.
LEMMA LTreeRowIs ==
  ASSUME NEW p, NEW t, NEW m \in 0 .. WotsLen - 1, LTreeInv(p, t, m), t.l > 1,
         NEW v, v = LTreeRow(t)
  PROVE  LTreeInv(p, v, m + 1)
<1> DEFINE q    == <<p[1], p[2], m, t>>
           s    == p[1]
           leaf == p[2]
           row  == Row(s, leaf, m)
           next == Row(s, leaf, m + 1)
           n    == t.l \div 2
           r    == Pairs!TheFor(q, n, t)
           u    == PulledUp(r)
<1>1. q[1] = p[1] /\ q[2] = p[2] /\ q[3] = m /\ q[4] = t
  OBVIOUS
<1>2. row.l \in 1 .. WotsLen /\ WotsLen \in Nat /\ t.l = row.l /\ m \in Nat
      /\ next = RowAbove(s, leaf, row, m) /\ row.l + m <= WotsLen
  BY RowsAre, Sizes DEF RowIs, LTreeInv
<1>3. v = NextRow(u)
  BY DEF LTreeRow, PairTurn, For, Pairs!TheFor, Pairs!For
<1> HIDE DEF q, r, u
<1>4. PairInv(q, t, 0)
  <2>1. t.height = m /\ IsRow(t) /\ InTree(t.addr, s, LTREE, leaf) /\ t.addr[5] = t.height
    BY DEF LTreeInv
  <2>2. 0 .. 0 - 1 = {}
    OBVIOUS
  <2> QED
    BY <1>1, <2>1, <2>2 DEF PairInv
<1>5. LTreeInv(q, q[4], m) /\ q[3] = m /\ q[4].l > 1
  BY <1>1 DEF LTreeInv
<1>6. ASSUME NEW c, NEW i \in 0 .. n - 1, PairInv(q, c, i)
      PROVE  PairInv(q, PairTurn(q, c, i), i + 1)
  <2>1. i \in 0 .. (q[4].l \div 2) - 1
    BY <1>1
  <2> QED
    BY <1>2, <1>5, <1>6, <2>1, PairKeeps
<1>7. n \in Nat /\ n + 1 <= t.l
  BY <1>2
<1> HIDE DEF n
<1>8. PairInv(q, r, n)
  BY <1>4, <1>6, <1>7, Pairs!ForRule DEF r
<1>9. RowPulled(u, r)
  BY <1>1, <1>2, <1>8, PulledUpIs DEF PairInv, u
<1>10. /\ IsRow(v) /\ v.pk = u.pk /\ v.l = u.l /\ v.log = u.log
       /\ v.height = u.height + 1 /\ v.addr = set_tree_height(u.addr, u.height + 1)
  BY <1>3, <1>9, NextRowIs DEF RowPulled
<1>11. r.l = t.l /\ r.height = m /\ u.height = m /\ u.addr = r.addr /\ u.l = (t.l + 1) \div 2
  BY <1>1, <1>8, <1>9 DEF PairInv, RowPulled, LTreeInv
<1>12. InTree(v.addr, s, LTREE, leaf) /\ v.addr[5] = v.height /\ v.height = m + 1
  BY <1>1, <1>8, <1>10, <1>11, LastWordsSet, SameSetters DEF PairInv
<1>13. v.l = next.l
  BY <1>2, <1>10, <1>11 DEF RowAbove
<1>14. \A j \in 0 .. v.l - 1 : v.pk[j + 1] = next.node[j]
  <2> SUFFICES ASSUME NEW j \in 0 .. v.l - 1
               PROVE  u.pk[j + 1] = next.node[j]
    BY <1>10
  <2>1. j \in 0 .. (row.l + 1) \div 2 - 1
    BY <1>2, <1>10, <1>11
  <2>2. next.node[j] = IF 2 * j + 1 < row.l THEN Public(At(s, LTREE, leaf, m, j))
                                            ELSE row.node[2 * j]
    BY <1>2, <2>1 DEF RowAbove
  <2>3. CASE 2 * j + 1 < row.l
    <3>1. j \in 0 .. n - 1 /\ j + 1 \in 1 .. WotsLen /\ j + 1 # (r.l \div 2) + 1
      BY <1>2, <1>11, <2>1, <2>3 DEF n
    <3>2. u.pk[j + 1] = r.pk[j + 1]
      BY <1>9, <3>1 DEF RowPulled
    <3>3. r.pk[j + 1] = Public(At(s, LTREE, leaf, m, j))
      BY <1>1, <1>8, <3>1 DEF PairInv
    <3> QED
      BY <2>2, <2>3, <3>2, <3>3
  <2>4. CASE ~ (2 * j + 1 < row.l)
    <3>1. /\ 2 * j \in 0 .. t.l - 1 /\ 2 * j + 1 = t.l /\ t.l % 2 = 1
          /\ j + 1 = (t.l \div 2) + 1 /\ t.l \in n + 1 .. WotsLen
      BY <1>2, <1>7, <2>1, <2>4
    <3>2. u.pk[j + 1] = r.pk[t.l]
      BY <1>9, <1>11, <3>1 DEF RowPulled
    <3>3. r.pk[t.l] = t.pk[t.l]
      BY <1>1, <1>8, <3>1 DEF PairInv
    <3>4. t.pk[2 * j + 1] = row.node[2 * j]
      BY <3>1 DEF LTreeInv
    <3> QED
      BY <2>2, <2>4, <3>1, <3>2, <3>3, <3>4
  <2> QED
    BY <2>3, <2>4
<1>15. v.log = CallsBelow(s, leaf, m + 1)
  <2> DEFINE E(y, j) == Call(Public(At(s, LTREE, leaf, y, j)))
  <2>1. v.log = t.log \union {E(m, j) : j \in 0 .. n - 1}
    BY <1>1, <1>8, <1>9, <1>10 DEF PairInv, RowPulled
  <2>2. t.log = {E(x[1], x[2]) : x \in PlacesBelow(s, leaf, m)}
    BY DEF LTreeInv, CallsBelow
  <2>3. PlacesBelow(s, leaf, m + 1) =
          PlacesBelow(s, leaf, m) \union {<<m, j>> : j \in 0 .. n - 1}
    <3>1. ASSUME NEW x \in (0 .. WotsLen - 1) \X (0 .. WotsLen - 1)
          PROVE  x[1] < m + 1 /\ 2 * x[2] + 1 < Row(s, leaf, x[1]).l
                 <=> \/ x[1] < m /\ 2 * x[2] + 1 < Row(s, leaf, x[1]).l
                     \/ x[1] = m /\ x[2] \in 0 .. n - 1
      <4>1. x[1] \in 0 .. WotsLen - 1 /\ x[2] \in 0 .. WotsLen - 1
        OBVIOUS
      <4>2. x[1] < m + 1 <=> x[1] < m \/ x[1] = m
        BY <4>1, <1>2
      <4>3. 2 * x[2] + 1 < row.l <=> x[2] \in 0 .. n - 1
        BY <4>1, <1>2 DEF n
      <4>4. ~ (x[1] < m /\ x[1] = m)
        BY <4>1, <1>2
      <4> QED
        BY <4>2, <4>3, <4>4
    <3>2. ASSUME NEW j \in 0 .. n - 1
          PROVE  <<m, j>> \in (0 .. WotsLen - 1) \X (0 .. WotsLen - 1)
      BY <1>2, <1>7
    <3>3. ASSUME NEW x \in (0 .. WotsLen - 1) \X (0 .. WotsLen - 1)
          PROVE  x \in {<<m, j>> : j \in 0 .. n - 1} <=> x[1] = m /\ x[2] \in 0 .. n - 1
      <4>1. x = <<x[1], x[2]>>
        OBVIOUS
      <4> QED
        BY <4>1
    <3> DEFINE New == {<<m, j>> : j \in 0 .. n - 1}
               All == (0 .. WotsLen - 1) \X (0 .. WotsLen - 1)
    <3>4. New \subseteq All
      BY <3>2
    <3>5. \A x \in All : x \in New <=> x[1] = m /\ x[2] \in 0 .. n - 1
      BY <3>3
    <3>6. \A x : x \in PlacesBelow(s, leaf, m + 1) <=>
                 x \in All /\ x[1] < m + 1 /\ 2 * x[2] + 1 < Row(s, leaf, x[1]).l
      BY DEF PlacesBelow
    <3>7. \A x : x \in PlacesBelow(s, leaf, m) <=>
                 x \in All /\ x[1] < m /\ 2 * x[2] + 1 < Row(s, leaf, x[1]).l
      BY DEF PlacesBelow
    <3>8. \A x \in All : x[1] < m + 1 /\ 2 * x[2] + 1 < Row(s, leaf, x[1]).l
                 <=> \/ x[1] < m /\ 2 * x[2] + 1 < Row(s, leaf, x[1]).l
                     \/ x[1] = m /\ x[2] \in 0 .. n - 1
      BY <3>1
    <3> HIDE DEF New, All, row, next
    <3>9. \A x : x \in PlacesBelow(s, leaf, m + 1) <=> x \in PlacesBelow(s, leaf, m) \/ x \in New
      BY <3>4, <3>5, <3>6, <3>7, <3>8, Zenon
    <3>10. PlacesBelow(s, leaf, m + 1) = PlacesBelow(s, leaf, m) \union New
      BY <3>9
    <3> QED
      BY <3>10 DEF New
  <2>4. \A j : <<m, j>>[1] = m /\ <<m, j>>[2] = j
    OBVIOUS
  <2>5. CallsBelow(s, leaf, m + 1) = {E(x[1], x[2]) : x \in PlacesBelow(s, leaf, m + 1)}
    BY DEF CallsBelow
  <2> DEFINE New == {<<m, j>> : j \in 0 .. n - 1}
             F(x)  == E(x[1], x[2])
             Old == PlacesBelow(s, leaf, m)
  <2>6. {F(x) : x \in New} = {E(m, j) : j \in 0 .. n - 1}
    <3>1. \A j : F(<<m, j>>) = E(m, j)
      BY <2>4
    <3> HIDE DEF E, F
    <3> QED
      BY <3>1
  <2> HIDE DEF E, F, New, Old, row, next
  <2>7. {F(x) : x \in Old \union New} = {F(x) : x \in Old} \union {F(x) : x \in New}
    OBVIOUS
  <2> QED
    BY <2>1, <2>2, <2>3, <2>5, <2>6, <2>7 DEF F, New, Old
<1> QED
  BY <1>10, <1>12, <1>13, <1>14, <1>15 DEF LTreeInv

\* What l_tree returns for the public key of a leaf.
TopFound(r, s, leaf) ==
  /\ IsState(r) /\ InTree(r.addr, s, LTREE, leaf)
  /\ r.out = NodeValue(s, 0, leaf) /\ r.log = RowCalls(s, leaf)

LEMMA LTreeIs ==
  ASSUME NEW s, NEW leaf, NEW addr, InTree(addr, s, LTREE, leaf),
         NEW pk, pk = PublicKey(s, leaf)
  PROVE  TopFound(l_tree(addr, pk), s, leaf)
<1> DEFINE p     == <<s, leaf>>
           start == [addr |-> set_tree_height(addr, 0), pk |-> pk,
                     l |-> WotsLen, height |-> 0, log |-> {}]
           done  == LTree!TheFor(p, WotsLen, start)
<1>1. p[1] = s /\ p[2] = leaf
  OBVIOUS
<1>2. WotsLen \in Nat \ {0}
  BY Sizes
<1> HIDE DEF p
<1>3. l_tree(addr, pk) = TopOf(done)
  BY DEF l_tree, While, LTreeTurn, For, LTree!TheFor, LTree!For
<1>4. LTreeInv(p, start, 0)
  <2>1. IsRow(start) /\ start.l = WotsLen /\ start.log = {} /\ start.height = 0
    BY DEF IsRow, PublicKey, ValuesAt
  <2>2. InTree(start.addr, s, LTREE, leaf) /\ start.addr[5] = 0
    BY LastWordsSet, SameSetters
  <2>3. Row(s, leaf, 0) = FirstRow(s, leaf)
    BY RowsAre DEF RowIs
  <2>4. start.pk = [j \in 1 .. WotsLen |-> ChainValue(s, leaf, j - 1, Ends[j - 1])]
    BY DEF PublicKey, ValuesAt
  <2> HIDE DEF start
  <2>5. ASSUME NEW j \in 0 .. WotsLen - 1
        PROVE  start.pk[j + 1] = Row(s, leaf, 0).node[j]
    <3>1. j + 1 \in 1 .. WotsLen /\ (j + 1) - 1 = j
      BY <1>2
    <3>2. Ends[j] = WotsW - 1
      BY DEF Ends
    <3>3. start.pk[j + 1] = ChainValue(s, leaf, j, Ends[j])
      BY <2>4, <3>1
    <3>4. FirstRow(s, leaf).node[j] = ChainValue(s, leaf, j, WotsW - 1)
      BY DEF FirstRow
    <3>5. ChainValue(s, leaf, j, Ends[j]) = ChainValue(s, leaf, j, WotsW - 1)
      BY <3>2
    <3> QED
      BY <2>3, <3>3, <3>4, <3>5
  <2>6. CallsBelow(s, leaf, 0) = {}
    <3>1. PlacesBelow(s, leaf, 0) = {}
      BY <1>2 DEF PlacesBelow
    <3> QED
      BY <3>1 DEF CallsBelow
  <2>7. Row(s, leaf, 0).l = WotsLen
    BY <2>3 DEF FirstRow
  <2> QED
    BY <1>1, <2>1, <2>2, <2>5, <2>6, <2>7 DEF LTreeInv
<1> HIDE DEF start
<1>5. ASSUME NEW t, NEW m \in 0 .. WotsLen - 1, LTreeInv(p, t, m)
      PROVE  LTreeInv(p, LTreeTurn(p, t, m), m + 1)
  <2>1. CASE t.l > 1
    <3> DEFINE v == LTreeRow(t)
    <3>1. LTreeInv(p, v, m + 1)
      <4>1. v = LTreeRow(t)
        OBVIOUS
      <4> HIDE DEF v
      <4> QED
        BY <1>5, <2>1, <4>1, LTreeRowIs
    <3>2. LTreeTurn(p, t, m) = v
      BY <2>1 DEF LTreeTurn
    <3> QED
      BY <3>1, <3>2
  <2>2. CASE ~ (t.l > 1)
    <3> DEFINE row  == Row(s, leaf, m)
               next == Row(s, leaf, m + 1)
    <3>1. row.l \in 1 .. WotsLen /\ next = RowAbove(s, leaf, row, m) /\ t.l = row.l
      BY <1>1, <1>5, RowsAre DEF RowIs, LTreeInv
    <3> HIDE DEF row, next
    <3>2. row.l = 1
      BY <1>2, <2>2, <3>1
    <3>3. next.l = 1 /\ next.node[0] = row.node[0]
      BY <3>1, <3>2 DEF RowAbove
    <3>4. PlacesBelow(s, leaf, m + 1) = PlacesBelow(s, leaf, m)
      <4>1. ASSUME NEW x \in (0 .. WotsLen - 1) \X (0 .. WotsLen - 1)
            PROVE  x[1] < m + 1 /\ 2 * x[2] + 1 < Row(s, leaf, x[1]).l
                   <=> x[1] < m /\ 2 * x[2] + 1 < Row(s, leaf, x[1]).l
        <5>1. x[1] \in 0 .. WotsLen - 1 /\ x[2] \in 0 .. WotsLen - 1
          OBVIOUS
        <5>2. x[1] < m + 1 <=> x[1] < m \/ x[1] = m
          BY <1>2, <5>1
        <5>3. ~ (2 * x[2] + 1 < row.l)
          BY <3>2, <5>1
        <5> QED
          BY <5>2, <5>3 DEF row
      <4> QED
        BY <4>1 DEF PlacesBelow
    <3>5. LTreeTurn(p, t, m) = t
      BY <2>2 DEF LTreeTurn
    <3>6. LTreeInv(p, t, m)
      BY <1>5
    <3>7. t.log = CallsBelow(s, leaf, m + 1)
      BY <1>1, <3>4, <3>6 DEF LTreeInv, CallsBelow
    <3>8. \A j \in 0 .. t.l - 1 : t.pk[j + 1] = next.node[j]
      <4>1. t.pk[0 + 1] = row.node[0]
        BY <1>1, <3>1, <3>2, <3>6 DEF LTreeInv, row
      <4> QED
        BY <3>1, <3>2, <3>3, <4>1
    <3>9. t.l = next.l /\ ~ (t.l > 1)
      BY <3>1, <3>2, <3>3
    <3> QED
      BY <1>1, <3>5, <3>6, <3>7, <3>8, <3>9 DEF LTreeInv, next
  <2> QED
    BY <2>1, <2>2
<1>6. LTreeInv(p, done, WotsLen)
  BY <1>2, <1>4, <1>5, LTree!ForRule
<1> HIDE DEF done
<1>7. done.l = 1
  <2>1. /\ Row(s, leaf, WotsLen).l \in 1 .. WotsLen
        /\ Row(s, leaf, WotsLen).l > 1 => Row(s, leaf, WotsLen).l + WotsLen <= WotsLen
    BY <1>2, RowsAre DEF RowIs
  <2>2. done.l = Row(s, leaf, WotsLen).l
    BY <1>1, <1>6 DEF LTreeInv
  <2> QED
    BY <1>2, <2>1, <2>2
<1>8. done.pk[1] = NodeValue(s, 0, leaf)
  <2>1. done.pk[0 + 1] = Row(s, leaf, WotsLen).node[0]
    BY <1>1, <1>6, <1>7 DEF LTreeInv
  <2> QED
    BY <2>1 DEF NodeValue
<1>9. done.log = RowCalls(s, leaf)
  <2>1. PlacesBelow(s, leaf, WotsLen) = RowPlaces(s, leaf)
    <3>1. \A x \in (0 .. WotsLen - 1) \X (0 .. WotsLen - 1) : x[1] < WotsLen
      BY <1>2
    <3> QED
      BY <3>1 DEF PlacesBelow, RowPlaces
  <2> QED
    BY <1>1, <1>6, <2>1 DEF LTreeInv, CallsBelow, RowCalls
<1> QED
  BY <1>1, <1>3, <1>6, <1>8, <1>9 DEF LTreeInv, TopOf, TopFound, IsState

\* A leaf is made.
LeafMade(r, layer, tree, leaf) ==
  /\ InTree(r.ots, Words(layer, tree), OTS, leaf)
  /\ InTree(r.ltree, Words(layer, tree), LTREE, leaf)
  /\ r.out = NodeValue(Words(layer, tree), 0, leaf)
  /\ LeafCalls(Words(layer, tree), leaf) \subseteq r.log
  /\ r.log \subseteq SecretCalls(layer, tree, leaf) \union LeafCalls(Words(layer, tree), leaf)

LEMMA GenLeafIs ==
  ASSUME NEW layer, NEW tree, NEW leaf, NEW who, who = <<layer, tree, leaf>>,
         NEW ltree, InTree(ltree, Words(layer, tree), LTREE, leaf),
         NEW ots, InTree(ots, Words(layer, tree), OTS, leaf)
  PROVE  LeafMade(gen_leaf_wots(ltree, ots, who), layer, tree, leaf)
<1> DEFINE s  == Words(layer, tree)
           pk == wots_pkgen(ots, who)
           l  == l_tree(ltree, pk.out)
           r  == gen_leaf_wots(ltree, ots, who)
<1>1. KeyMade(pk, layer, tree, leaf)
  BY PkgenIs
<1>2. r.ots = pk.addr /\ r.ltree = l.addr /\ r.out = l.out /\ r.log = pk.log \union l.log
  BY DEF gen_leaf_wots, LeafOfKey, LeafFrom
<1> HIDE DEF pk, r
<1>3. TopFound(l, s, leaf)
  BY <1>1, LTreeIs DEF KeyMade
<1> HIDE DEF l
<1>4. LeafMade(r, layer, tree, leaf)
  BY <1>1, <1>2, <1>3 DEF KeyMade, TopFound, LeafMade, LeafCalls
<1> QED
  BY <1>4 DEF r

-----------------------------------------------------------------------------
(* treehash.  Its stack is that of XmssCore, whose proofs say where the    *)
(* nodes lie; here it is a sequence, and the values are named.             *)

\* XmssCore for the same heights; its state plays no part.
Core == INSTANCE XmssCoreProofs
        WITH IndexSpace <- 2^(TreeHeight * Layers), sk <- idx, pk <- root, out <- sig

\* What XmssCore asks of its constants.
LEMMA CoreAssumed ==
  /\ TreeHeight \in Nat \ {0} /\ Layers \in Nat \ {0}
  /\ 2^(TreeHeight * Layers) \in Nat /\ 2^(TreeHeight * Layers) >= 2^(TreeHeight * Layers)
  /\ Core!PowersOfTwo(TreeHeight * Layers)
<1>1. TreeHeight * Layers \in Nat
  BY Sizes
<1>2. \A i \in 0 .. TreeHeight * Layers : 2^(i + 1) = 2 * 2^i
  BY PowersAssumption DEF PowersOfTwo
<1>3. TreeHeight * Layers \in 0 .. TreeHeight * Layers + 1
  BY <1>1
<1>4. 2^(TreeHeight * Layers) \in Nat
  BY <1>1, <1>2, <1>3, Chain!PowNat
<1> QED
  BY <1>2, <1>4, Sizes DEF Core!PowersOfTwo

(***************************************************************************)
(* The state w of treehash.  p is layer and tree, leaf_idx and, in the     *)
(* inner loop, the turn of the outer one.                                  *)
(***************************************************************************)
Place(p) == Words(p[1], p[2])

TreeState(p, w) ==
  /\ w = [ots |-> w.ots, ltree |-> w.ltree, node |-> w.node, stack |-> w.stack,
          heights |-> w.heights, auth |-> w.auth, log |-> w.log]
  /\ InTree(w.ots, Place(p), OTS, w.ots[4])
  /\ InTree(w.ltree, Place(p), LTREE, w.ltree[4])
  /\ InTree(w.node, Place(p), HASHTREE, 0)
  /\ w.auth = [h \in 0 .. TreeHeight - 1 |-> w.auth[h]]
  /\ w.log \subseteq TreeCalls(p[1], p[2])

\* The o nodes on the stack, the lowest first, are nodes ix[j] of heights hs[j].
StackAt(p, w, hs, ix, o) ==
  /\ IsSeq(w.stack, o) /\ IsSeq(w.heights, o)
  /\ \A j \in 0 .. o - 1 : /\ w.heights[j + 1] = hs[j]
                            /\ w.stack[j + 1] = NodeValue(Place(p), hs[j], ix[j])

\* The path has the nodes before leaf i, and those it completed below height k.
PathIndex(p, h) == Sibling(Shr(p[3], h))
Found(p, w, h) == w.auth[h] = NodeValue(Place(p), h, PathIndex(p, h))

PathBelow(p, w, i, k) ==
  \A h \in 0 .. TreeHeight - 1 :
    \/ Core!First(PathIndex(p, h) + 1, h) <= i
    \/ Core!First(PathIndex(p, h) + 1, h) = i + 1 /\ h < k
    => Found(p, w, h)

\* The calls for the leaves before n have been made.
LeavesLogged(p, w, n) == \A leaf \in 0 .. n - 1 : LeafCalls(Place(p), leaf) \subseteq w.log

\* The calls have been made for the nodes complete before leaf i, and those
\* that it completed up to height k.
NodeCall(s, h, j) == Call(Public(At(s, HASHTREE, 0, h, j)))

NodesLogged(p, w, i, k) ==
  \A q \in NodePlaces :
    \/ Core!First(q[2] + 1, q[1] + 1) <= i
    \/ Core!First(q[2] + 1, q[1] + 1) = i + 1 /\ q[1] < k
    => NodeCall(Place(p), q[1], q[2]) \in w.log

\* What holds of w after n leaves.
TreeInv(p, w, n) ==
  /\ TreeState(p, w)
  /\ \E hs, ix, o : /\ Core!Blocks(hs, ix, o, n) /\ Core!Falling(hs, o)
                    /\ StackAt(p, w, hs, ix, o)
  /\ \A h \in 0 .. TreeHeight - 1 : Core!First(PathIndex(p, h) + 1, h) <= n => Found(p, w, h)
  /\ LeavesLogged(p, w, n)
  /\ \A q \in NodePlaces : Core!First(q[2] + 1, q[1] + 1) <= n
                           => NodeCall(Place(p), q[1], q[2]) \in w.log

\* What holds of w while leaf i is being added: on top is a node it completed.
Adding(p, w, i, hs, ix, o) ==
  /\ TreeState(p, w)
  /\ o > 0 /\ Core!Blocks(hs, ix, o, i + 1) /\ Core!NearlyFalling(hs, o)
  /\ StackAt(p, w, hs, ix, o)
  /\ LeavesLogged(p, w, i + 1) /\ NodesLogged(p, w, i, hs[o - 1])

\* The length of a sequence, and one cut and lengthened again.
Elements(f, n) == {f[j] : j \in 1 .. n}

LEMMA SeqLen ==
  ASSUME NEW f, NEW n, IsSeq(f, n)
  PROVE  Len(f) = n /\ f \in Seq(Elements(f, n))
  BY DEF IsSeq, Elements

LEMMA CutAppendIs ==
  ASSUME NEW f, NEW n, IsSeq(f, n), NEW k \in 0 .. n, NEW e
  PROVE  Longer(Append(SubSeq(f, 1, k), e), f, k, e)
<1>1. n \in Nat /\ k \in Nat
  BY DEF IsSeq
<1> DEFINE g == SubSeq(f, 1, k)
<1>2. IsSeq(g, k) /\ \A j \in 1 .. k : g[j] = f[j]
  <2>1. f \in Seq(Elements(f, n)) /\ Len(f) = n
    BY SeqLen
  <2>2. g = [i \in 1 .. k |-> f[i]]
    BY <1>1, <2>1
  <2> HIDE DEF g
  <2> QED
    BY <1>1, <2>2 DEF IsSeq
<1> HIDE DEF g
<1>3. Longer(Append(g, e), g, k, e)
  BY <1>2, AppendIs
<1> QED
  BY <1>2, <1>3 DEF Longer, g

\* Pushed field by field: k nodes stay.
PushedOn(v, w, k, out, h) ==
  /\ v = [ots |-> w.ots, ltree |-> w.ltree, node |-> w.node, stack |-> v.stack,
          heights |-> v.heights, auth |-> w.auth, log |-> w.log]
  /\ Longer(v.stack, w.stack, k, out) /\ Longer(v.heights, w.heights, k, h)

LEMMA PushedIs ==
  ASSUME NEW p, NEW w, TreeState(p, w), NEW o, IsSeq(w.stack, o), IsSeq(w.heights, o),
         NEW n \in 0 .. o, NEW out, NEW h, NEW v, v = Pushed(w, n, out, h)
  PROVE  PushedOn(v, w, o - n, out, h)
<1> DEFINE st == Append(SubSeq(w.stack, 1, o - n), out)
           he == Append(SubSeq(w.heights, 1, o - n), h)
<1>1. o \in Nat /\ o - n \in 0 .. o /\ Len(w.stack) = o /\ Len(w.heights) = o
  BY SeqLen DEF IsSeq
<1>2. Longer(st, w.stack, o - n, out) /\ Longer(he, w.heights, o - n, h)
  BY <1>1, CutAppendIs
<1>3. w = [ots |-> w.ots, ltree |-> w.ltree, node |-> w.node, stack |-> w.stack,
           heights |-> w.heights, auth |-> w.auth, log |-> w.log]
  BY DEF TreeState
<1>4. v = [w EXCEPT !.stack = st, !.heights = he]
  <2>1. v = [w EXCEPT !.stack = Append(SubSeq(w.stack, 1, Len(w.stack) - n), out),
                      !.heights = Append(SubSeq(w.heights, 1, Len(w.heights) - n), h)]
    BY <1>3 DEF Pushed
  <2> QED
    BY <1>1, <2>1
<1> HIDE DEF st, he
<1>5. v = [ots |-> w.ots, ltree |-> w.ltree, node |-> w.node, stack |-> st,
           heights |-> he, auth |-> w.auth, log |-> w.log]
  BY <1>3, <1>4
<1> QED
  BY <1>2, <1>5 DEF PushedOn

\* PushedLeaf and PushedNode field by field.
PushedLeafOn(v, w, o, leaf) ==
  /\ v = [ots |-> leaf.ots, ltree |-> leaf.ltree, node |-> w.node, stack |-> v.stack,
          heights |-> v.heights, auth |-> w.auth, log |-> w.log \union leaf.log]
  /\ Longer(v.stack, w.stack, o, leaf.out) /\ Longer(v.heights, w.heights, o, 0)

PushedNodeOn(v, w, o, h, up) ==
  /\ v = [ots |-> w.ots, ltree |-> w.ltree, node |-> up.addr, stack |-> v.stack,
          heights |-> v.heights, auth |-> w.auth, log |-> w.log \union up.log]
  /\ Longer(v.stack, w.stack, o - 2, up.out) /\ Longer(v.heights, w.heights, o - 2, h + 1)

LEMMA PushedLeafIs ==
  ASSUME NEW p, NEW w, TreeState(p, w), NEW o, IsSeq(w.stack, o), IsSeq(w.heights, o),
         NEW leaf, NEW v, v = PushedLeaf(w, leaf)
  PROVE  PushedLeafOn(v, w, o, leaf)
<1> DEFINE u == Pushed(w, 0, leaf.out, 0)
<1>1. o \in Nat /\ 0 \in 0 .. o /\ o - 0 = o
  BY DEF IsSeq
<1>2. u = Pushed(w, 0, leaf.out, 0)
  OBVIOUS
<1>3. v = [u EXCEPT !.ots = leaf.ots, !.ltree = leaf.ltree, !.log = @ \union leaf.log]
  BY DEF PushedLeaf
<1> HIDE DEF u
<1>4. PushedOn(u, w, o - 0, leaf.out, 0)
  BY <1>1, <1>2, PushedIs
<1>5. PICK st, he :
        /\ u = [ots |-> w.ots, ltree |-> w.ltree, node |-> w.node, stack |-> st,
                heights |-> he, auth |-> w.auth, log |-> w.log]
        /\ Longer(st, w.stack, o, leaf.out) /\ Longer(he, w.heights, o, 0)
  BY <1>1, <1>4 DEF PushedOn
<1>6. v = [ots |-> leaf.ots, ltree |-> leaf.ltree, node |-> w.node, stack |-> st,
           heights |-> he, auth |-> w.auth, log |-> w.log \union leaf.log]
  BY <1>3, <1>5
<1>7. v.stack = st /\ v.heights = he
  BY <1>6
<1> QED
  BY <1>5, <1>6, <1>7 DEF PushedLeafOn

LEMMA PushedNodeIs ==
  ASSUME NEW p, NEW w, TreeState(p, w), NEW o, IsSeq(w.stack, o), IsSeq(w.heights, o), o >= 2,
         NEW h, NEW up, NEW v, v = PushedNode(w, h, up)
  PROVE  PushedNodeOn(v, w, o, h, up)
<1> DEFINE u == Pushed(w, 2, up.out, h + 1)
<1>1. 2 \in 0 .. o
  BY DEF IsSeq
<1>2. u = Pushed(w, 2, up.out, h + 1)
  OBVIOUS
<1>3. v = [u EXCEPT !.node = up.addr, !.log = @ \union up.log]
  BY DEF PushedNode
<1> HIDE DEF u
<1>4. PushedOn(u, w, o - 2, up.out, h + 1)
  BY <1>1, <1>2, PushedIs
<1>5. PICK st, he :
        /\ u = [ots |-> w.ots, ltree |-> w.ltree, node |-> w.node, stack |-> st,
                heights |-> he, auth |-> w.auth, log |-> w.log]
        /\ Longer(st, w.stack, o - 2, up.out) /\ Longer(he, w.heights, o - 2, h + 1)
  BY <1>4 DEF PushedOn
<1>6. v = [ots |-> w.ots, ltree |-> w.ltree, node |-> up.addr, stack |-> st,
           heights |-> he, auth |-> w.auth, log |-> w.log \union up.log]
  BY <1>3, <1>5
<1>7. v.stack = st /\ v.heights = he
  BY <1>6
<1> QED
  BY <1>5, <1>6, <1>7 DEF PushedNodeOn

\* A leaf made belongs to the tree.
LEMMA LeafLogged ==
  ASSUME NEW p, NEW i \in Nat, i < Core!First(1, TreeHeight),
         NEW leaf, LeafMade(leaf, p[1], p[2], i)
  PROVE  leaf.log \subseteq TreeCalls(p[1], p[2])
<1>1. i \in 0 .. 2^TreeHeight - 1
  <2>1. TreeHeight \in 0 .. TreeHeight + 1
    BY Sizes
  <2>2. 2^TreeHeight \in Nat
    BY <2>1, CoreAssumed, Core!Powers
  <2> QED
    BY <2>2 DEF Core!First
<1>2. LeafCalls(Place(p), i) \subseteq TreeCalls(p[1], p[2])
  BY <1>1 DEF TreeCalls, PublicCalls, Place
<1>3. SecretCalls(p[1], p[2], i) \subseteq TreeCalls(p[1], p[2])
  BY <1>1 DEF TreeCalls
<1> QED
  BY <1>2, <1>3 DEF LeafMade, Place

\* A pushed leaf is on top.
LEMMA LeafPushedKeeps ==
  ASSUME NEW p, p[3] \in Nat, NEW w, NEW i \in Nat, TreeInv(p, w, i),
         i < Core!First(1, TreeHeight),
         NEW leaf, LeafMade(leaf, p[1], p[2], i), NEW v, v = PushedLeaf(w, leaf)
  PROVE  \E hs, ix, o : Adding(p, v, i, hs, ix, o) /\ PathBelow(p, v, i, hs[o - 1])
<1>1. TreeState(p, w)
  BY DEF TreeInv
<1>2. PICK hs, ix, o : /\ Core!Blocks(hs, ix, o, i) /\ Core!Falling(hs, o)
                       /\ StackAt(p, w, hs, ix, o)
  BY DEF TreeInv
<1> DEFINE hs2 == [hs EXCEPT ![o] = 0]
           ix2 == [ix EXCEPT ![o] = i]
<1>3. /\ o <= TreeHeight /\ Core!Blocks(hs2, ix2, o + 1, i + 1)
      /\ Core!NearlyFalling(hs2, o + 1)
  BY <1>2, CoreAssumed, Core!BlocksPush
<1>4. o \in 0 .. TreeHeight /\ TreeHeight \in Nat /\ o \in Nat
  <2>1. Core!Numbers(hs, ix, o, i)
    BY <1>2 DEF Core!Blocks
  <2> QED
    BY <1>3, <2>1, CoreAssumed, Core!NumbersAt
<1>5. /\ hs2[o] = 0 /\ ix2[o] = i
      /\ \A j \in 0 .. o - 1 : hs2[j] = hs[j] /\ ix2[j] = ix[j]
  <2>1. hs \in [0 .. TreeHeight -> 0 .. TreeHeight] /\ ix \in [0 .. TreeHeight -> Nat]
    BY <1>2 DEF Core!Blocks, Core!Numbers
  <2>2. 0 .. o - 1 \subseteq 0 .. TreeHeight /\ o \notin 0 .. o - 1
    BY <1>4
  <2> QED
    BY <1>4, <2>1, <2>2
<1> HIDE DEF hs2, ix2
<1>6. /\ v = [ots |-> leaf.ots, ltree |-> leaf.ltree, node |-> w.node, stack |-> v.stack,
              heights |-> v.heights, auth |-> w.auth, log |-> w.log \union leaf.log]
      /\ Longer(v.stack, w.stack, o, leaf.out) /\ Longer(v.heights, w.heights, o, 0)
  <2>1. IsSeq(w.stack, o) /\ IsSeq(w.heights, o)
    BY <1>2 DEF StackAt
  <2>2. PushedLeafOn(v, w, o, leaf)
    BY <1>1, <2>1, PushedLeafIs
  <2> QED
    BY <2>2 DEF PushedLeafOn
<1>7. /\ v.ots = leaf.ots /\ v.ltree = leaf.ltree /\ v.node = w.node /\ v.auth = w.auth
      /\ v.log = w.log \union leaf.log
  BY <1>6
<1>8. StackAt(p, v, hs2, ix2, o + 1)
  <2>0. \A j \in 0 .. o - 1 : j + 1 \in 1 .. o
    BY <1>4
  <2>1. /\ IsSeq(v.stack, o + 1) /\ v.stack[o + 1] = leaf.out
        /\ \A j \in 0 .. o - 1 : v.stack[j + 1] = w.stack[j + 1]
    BY <1>6, <2>0 DEF Longer
  <2>2. /\ IsSeq(v.heights, o + 1) /\ v.heights[o + 1] = 0
        /\ \A j \in 0 .. o - 1 : v.heights[j + 1] = w.heights[j + 1]
    BY <1>6, <2>0 DEF Longer
  <2>3. leaf.out = NodeValue(Place(p), 0, i)
    BY DEF LeafMade, Place
  <2>4. ASSUME NEW j \in 0 .. (o + 1) - 1
        PROVE  /\ v.heights[j + 1] = hs2[j]
               /\ v.stack[j + 1] = NodeValue(Place(p), hs2[j], ix2[j])
    <3>1. CASE j = o
      BY <1>5, <2>1, <2>2, <2>3, <3>1
    <3>2. CASE j # o
      <4>1. j \in 0 .. o - 1
        BY <1>4, <3>2
      <4> QED
        BY <1>2, <1>5, <2>1, <2>2, <4>1 DEF StackAt
    <3> QED
      BY <3>1, <3>2
  <2> QED
    BY <2>1, <2>2, <2>4 DEF StackAt
<1>9. TreeState(p, v)
  <2>1. leaf.log \subseteq TreeCalls(p[1], p[2])
    BY LeafLogged
  <2>2. InTree(leaf.ots, Place(p), OTS, i) /\ InTree(leaf.ltree, Place(p), LTREE, i)
    BY DEF LeafMade, Place
  <2>3. InTree(v.ots, Place(p), OTS, v.ots[4]) /\ InTree(v.ltree, Place(p), LTREE, v.ltree[4])
    BY <1>7, <2>2 DEF InTree
  <2> QED
    BY <1>1, <1>6, <1>7, <2>1, <2>3 DEF TreeState
<1>10. LeavesLogged(p, v, i + 1)
  <2> SUFFICES ASSUME NEW l \in 0 .. (i + 1) - 1
               PROVE  LeafCalls(Place(p), l) \subseteq v.log
    BY DEF LeavesLogged
  <2>1. CASE l = i
    BY <1>7, <2>1 DEF LeafMade, Place
  <2>2. CASE l # i
    <3>1. l \in 0 .. i - 1
      BY <2>2
    <3> QED
      BY <1>7, <3>1 DEF TreeInv, LeavesLogged
  <2> QED
    BY <2>1, <2>2
<1>11. (o + 1) - 1 = o /\ o + 1 > 0
  BY <1>4
<1>12. NodesLogged(p, v, i, hs2[(o + 1) - 1])
  <2>1. \A q \in NodePlaces : ~ (q[1] < 0)
    BY DEF NodePlaces
  <2> QED
    BY <1>5, <1>7, <1>11, <2>1 DEF TreeInv, NodesLogged
<1>13. PathBelow(p, v, i, hs2[(o + 1) - 1])
  <2>1. \A h \in 0 .. TreeHeight - 1 : ~ (h < 0)
    BY <1>4
  <2>2. \A h : Found(p, w, h) => Found(p, v, h)
    BY <1>7 DEF Found
  <2> QED
    BY <1>5, <1>11, <2>1, <2>2 DEF TreeInv, PathBelow
<1>14. Adding(p, v, i, hs2, ix2, o + 1)
  BY <1>3, <1>8, <1>9, <1>10, <1>11, <1>12 DEF Adding
<1> QED
  BY <1>13, <1>14

\* A call in a tree takes the two nodes below.
LEMMA NodeCallIs ==
  ASSUME NEW s, Triple(s), NEW h, NEW j, NEW at, at = Public(At(s, HASHTREE, 0, h, j))
  PROVE  NodeCall(s, h, j) = [at |-> at, use |-> <<"H", NodeValue(s, h, 2 * j),
                                                        NodeValue(s, h, 2 * j + 1)>>]
<1> DEFINE a == At(s, HASHTREE, 0, h, j)
<1>1. /\ a[0] = s[1] /\ a[1] = s[2] /\ a[2] = s[3] /\ a[3] = HASHTREE /\ a[5] = h /\ a[6] = j
  BY AtWords
<1>2. at[1] = "pub_seed" /\ at[2] = a
  BY DEF Public
<1> HIDE DEF a
<1>3. SubtreeOf(a) = s
  BY <1>1 DEF SubtreeOf, Triple
<1>4. Use(at) = <<"H", NodeValue(s, h, 2 * j), NodeValue(s, h, 2 * j + 1)>>
  BY <1>1, <1>2, <1>3 DEF Use, OTS, LTREE, HASHTREE
<1> QED
  BY <1>4 DEF Call, NodeCall

\* What hashing two children makes: node j of height h + 1.
NodeMade(r, s, h, j) ==
  /\ InTree(r.addr, s, HASHTREE, 0)
  /\ r.out = NodeValue(s, h + 1, j) /\ r.log = {NodeCall(s, h, j)}
  /\ r = [addr |-> r.addr, out |-> r.out, log |-> r.log]

LEMMA HashNodeIs ==
  ASSUME NEW s, NEW addr, InTree(addr, s, HASHTREE, 0), NEW h \in Nat, NEW j,
         NEW left, left = NodeValue(s, h, 2 * j),
         NEW right, right = NodeValue(s, h, 2 * j + 1),
         NEW r, r = thash_h(set_tree_index(set_tree_height(addr, h), j), left, right)
  PROVE  NodeMade(r, s, h, j)
<1> DEFINE a   == set_tree_index(set_tree_height(addr, h), j)
           at  == Public(At(s, HASHTREE, 0, h, j))
           use == <<"H", left, right>>
<1>1. InTree(a, s, HASHTREE, 0) /\ a[5] = h /\ a[6] = j
  <2> DEFINE b == set_tree_height(addr, h)
  <2>1. InTree(b, s, HASHTREE, 0) /\ b[5] = h
    BY LastWordsSet, SameSetters
  <2> HIDE DEF b
  <2>2. InTree(set_tree_index(b, j), s, HASHTREE, 0) /\ set_tree_index(b, j)[5] = h
        /\ set_tree_index(b, j)[6] = j
    BY <2>1, LastWordsSet, SameSetters
  <2> QED
    BY <2>2 DEF b
<1>2. r = Keyed(set_key_and_mask(a, 0), 2, use)
  BY DEF thash_h
<1> HIDE DEF a
<1>3. /\ InTree(r.addr, s, HASHTREE, 0)
      /\ r.out = at /\ r.log = {[at |-> at, use |-> use]}
      /\ r = [addr |-> r.addr, out |-> r.out, log |-> r.log]
  <2> HIDE DEF use
  <2> QED
    BY <1>1, <1>2, KeyedIs
<1>4. NodeCall(s, h, j) = [at |-> at, use |-> use]
  <2>1. Triple(s)
    BY DEF InTree
  <2> QED
    BY <2>1, NodeCallIs
<1>5. at = NodeValue(s, h + 1, j)
  <2>1. h + 1 # 0 /\ (h + 1) - 1 = h
    OBVIOUS
  <2> QED
    BY <2>1 DEF NodeValue
<1> HIDE DEF at, use
<1> QED
  BY <1>3, <1>4, <1>5 DEF NodeMade

Pair(w) == /\ Len(w.stack) >= 2
           /\ w.heights[Len(w.stack)] = w.heights[Len(w.stack) - 1]

\* Two nodes on top of the same height.
LEMMA PairIs ==
  ASSUME NEW p, NEW w, NEW i, NEW hs, NEW ix, NEW o, Adding(p, w, i, hs, ix, o)
  PROVE  /\ o \in Nat /\ o - 1 \in 0 .. TreeHeight /\ hs[o - 1] \in 0 .. TreeHeight
         /\ ix[o - 1] \in Nat /\ TreeHeight \in Nat
         /\ Len(w.stack) = o /\ Len(w.heights) = o /\ w.heights[o] = hs[o - 1]
         /\ w.stack[o] = NodeValue(Place(p), hs[o - 1], ix[o - 1])
         /\ Pair(w) <=> o >= 2 /\ hs[o - 1] = hs[o - 2]
<1>1. Core!Numbers(hs, ix, o, i + 1) /\ o > 0
  BY DEF Adding, Core!Blocks
<1>2. o \in Nat /\ o - 1 \in 0 .. TreeHeight /\ TreeHeight \in Nat
  BY <1>1, CoreAssumed, Core!NumbersAt
<1>3. hs[o - 1] \in 0 .. TreeHeight /\ ix[o - 1] \in Nat
  BY <1>1, <1>2, CoreAssumed, Core!NumbersAt
<1>4. Len(w.stack) = o /\ Len(w.heights) = o
  BY SeqLen DEF Adding, StackAt
<1>5. \A j \in 0 .. o - 1 : /\ w.heights[j + 1] = hs[j]
                            /\ w.stack[j + 1] = NodeValue(Place(p), hs[j], ix[j])
  BY DEF Adding, StackAt
<1>6. w.heights[o] = hs[o - 1] /\ w.stack[o] = NodeValue(Place(p), hs[o - 1], ix[o - 1])
  <2>1. o - 1 \in 0 .. o - 1 /\ (o - 1) + 1 = o
    BY <1>1, <1>2
  <2> QED
    BY <1>5, <2>1
<1>7. o >= 2 => w.heights[o - 1] = hs[o - 2]
  <2>1. o >= 2 => o - 2 \in 0 .. o - 1 /\ (o - 2) + 1 = o - 1
    BY <1>2
  <2> QED
    BY <1>5, <2>1
<1> QED
  BY <1>2, <1>3, <1>4, <1>6, <1>7 DEF Pair

\* Hashing the two nodes on top leaves their parent on top.
LEMMA HashedKeeps ==
  ASSUME NEW p, NEW w, NEW i \in Nat, NEW hs, NEW ix, NEW o, Adding(p, w, i, hs, ix, o),
         PathBelow(p, w, i, hs[o - 1] + 1), Pair(w),
         NEW v, v = Hashed(w, w.heights[Len(w.stack)], i)
  PROVE  \E hs2, ix2 : /\ Adding(p, v, i, hs2, ix2, o - 1)
                       /\ hs2[(o - 1) - 1] = hs[o - 1] + 1
                       /\ PathBelow(p, v, i, hs2[(o - 1) - 1])
<1> DEFINE s  == Place(p)
           h  == hs[o - 1]
           q  == Shr(i, h + 1)
           up == thash_h(set_tree_index(set_tree_height(w.node, h), q), w.stack[o - 1], w.stack[o])
           hs2 == [hs EXCEPT ![o - 2] = h + 1]
           ix2 == [ix EXCEPT ![o - 2] = q]
<1>1. /\ o \in Nat /\ o >= 2 /\ h = hs[o - 2] /\ TreeHeight \in Nat /\ o - 2 \in 0 .. TreeHeight
      /\ Len(w.stack) = o /\ w.heights[o] = h
      /\ w.stack[o] = NodeValue(s, h, ix[o - 1])
  BY PairIs
<1>2. v = PushedNode(w, h, up)
  BY <1>1 DEF Hashed
<1>3. /\ h \in 0 .. TreeHeight - 1 /\ q \in Nat
      /\ ix[o - 2] = 2 * q /\ ix[o - 1] = 2 * q + 1
      /\ Core!Blocks(hs2, ix2, o - 1, i + 1) /\ Core!NearlyFalling(hs2, o - 1)
  <2>1. q = Core!Shr((i + 1) - 1, h + 1)
    <3>1. (i + 1) - 1 = i
      OBVIOUS
    <3> QED
      BY <3>1 DEF Core!Shr, Shr
  <2>2. Core!Blocks(hs, ix, o, i + 1) /\ Core!NearlyFalling(hs, o) /\ i + 1 \in Nat
    BY DEF Adding
  <2>3. h = hs[o - 1] /\ o >= 2 /\ hs[o - 1] = hs[o - 2]
    BY <1>1
  <2> HIDE DEF q, h
  <2> QED
    BY <2>1, <2>2, <2>3, CoreAssumed, Core!BlocksMerge
<1> HIDE DEF q, h
<1>18. h \in Nat /\ h < TreeHeight /\ q \in Nat /\ TreeHeight \in Nat
  BY <1>1, <1>3
<1>19. q + 1 \in Nat /\ h + 1 \in 0 .. TreeHeight + 1
  BY <1>18
<1> USE DEF q, h
<1>4. w.stack[o - 1] = NodeValue(s, h, 2 * q)
  <2>1. o - 2 \in 0 .. o - 1 /\ (o - 2) + 1 = o - 1
    BY <1>1
  <2>2. w.stack[(o - 2) + 1] = NodeValue(s, hs[o - 2], ix[o - 2])
    BY <2>1 DEF Adding, StackAt
  <2> QED
    BY <1>1, <1>3, <2>1, <2>2
<1>5. NodeMade(up, s, h, q)
  <2> DEFINE left == w.stack[o - 1]
             right == w.stack[o]
  <2>1. InTree(w.node, s, HASHTREE, 0) /\ h \in Nat
    BY <1>1, <1>3 DEF Adding, TreeState
  <2>2. left = NodeValue(s, h, 2 * q) /\ right = NodeValue(s, h, 2 * q + 1)
    BY <1>1, <1>3, <1>4
  <2>3. up = thash_h(set_tree_index(set_tree_height(w.node, h), q), left, right)
    OBVIOUS
  <2> HIDE DEF left, right, up, q, h, s
  <2> QED
    BY <2>1, <2>2, <2>3, HashNodeIs
<1> HIDE DEF up, q
<1>6. /\ v = [ots |-> w.ots, ltree |-> w.ltree, node |-> up.addr, stack |-> v.stack,
              heights |-> v.heights, auth |-> w.auth, log |-> w.log \union up.log]
      /\ Longer(v.stack, w.stack, o - 2, up.out) /\ Longer(v.heights, w.heights, o - 2, h + 1)
  <2>1. IsSeq(w.stack, o) /\ IsSeq(w.heights, o) /\ TreeState(p, w)
    BY DEF Adding, StackAt
  <2> HIDE DEF h
  <2>2. PushedNodeOn(v, w, o, h, up)
    BY <1>1, <1>2, <2>1, PushedNodeIs
  <2> QED
    BY <2>2 DEF PushedNodeOn
<1>7. /\ v.ots = w.ots /\ v.ltree = w.ltree /\ v.node = up.addr /\ v.auth = w.auth
      /\ v.log = w.log \union up.log
  BY <1>6
<1>8. /\ hs2[o - 2] = h + 1 /\ ix2[o - 2] = q
      /\ \A j \in 0 .. o - 3 : hs2[j] = hs[j] /\ ix2[j] = ix[j]
  <2>1. hs \in [0 .. TreeHeight -> 0 .. TreeHeight] /\ ix \in [0 .. TreeHeight -> Nat]
    BY DEF Adding, Core!Blocks, Core!Numbers
  <2>2. 0 .. o - 3 \subseteq 0 .. TreeHeight /\ o - 2 \notin 0 .. o - 3
    BY <1>1
  <2> QED
    BY <1>1, <2>1, <2>2
<1> HIDE DEF hs2, ix2, h
<1>9. StackAt(p, v, hs2, ix2, o - 1)
  <2>0. /\ (o - 2) + 1 = o - 1 /\ o - 1 \in Nat
        /\ \A j \in 0 .. o - 3 : j + 1 \in 1 .. o - 2 /\ j \in 0 .. o - 1
    BY <1>1
  <2>1. /\ IsSeq(v.stack, o - 1) /\ v.stack[o - 1] = up.out
        /\ IsSeq(v.heights, o - 1) /\ v.heights[o - 1] = h + 1
        /\ \A j \in 0 .. o - 3 : /\ v.stack[j + 1] = w.stack[j + 1]
                                 /\ v.heights[j + 1] = w.heights[j + 1]
    BY <1>6, <2>0 DEF Longer
  <2>2. up.out = NodeValue(s, h + 1, q)
    BY <1>5 DEF NodeMade
  <2>3. ASSUME NEW j \in 0 .. (o - 1) - 1
        PROVE  /\ v.heights[j + 1] = hs2[j]
               /\ v.stack[j + 1] = NodeValue(s, hs2[j], ix2[j])
    <3>1. CASE j = o - 2
      BY <1>8, <2>0, <2>1, <2>2, <3>1
    <3>2. CASE j # o - 2
      <4>1. j \in 0 .. o - 3
        BY <1>1, <3>2
      <4>2. /\ w.heights[j + 1] = hs[j]
            /\ w.stack[j + 1] = NodeValue(s, hs[j], ix[j])
        BY <2>0, <4>1 DEF Adding, StackAt
      <4> QED
        BY <1>8, <2>1, <4>1, <4>2
    <3> QED
      BY <3>1, <3>2
  <2> QED
    BY <2>1, <2>3 DEF StackAt
<1>10. Core!First(q + 1, h + 1) = i + 1
  <2>1. (o - 1) - 1 = o - 2 /\ o - 1 > 0
    BY <1>1
  <2>2. Core!First(ix2[(o - 1) - 1] + 1, hs2[(o - 1) - 1]) = i + 1
    BY <1>3, <2>1 DEF Core!Blocks, Core!SideBySide
  <2> QED
    BY <1>8, <2>1, <2>2
<1>11. <<h, q>> \in NodePlaces
  <2> DEFINE b == 2^(h + 1)
             t == 2^TreeHeight
  <2>1. h + 1 \in 0 .. TreeHeight + 1 /\ TreeHeight \in 0 .. TreeHeight + 1
    BY <1>1, <1>3
  <2>2. b \in Nat \ {0} /\ t \in Nat
    BY <2>1, CoreAssumed, Core!Powers
  <2>3. (q + 1) * b = i + 1
    BY <1>10 DEF Core!First
  <2>4. i + 1 <= 1 * t
    BY DEF Adding, Core!Blocks, Core!Numbers, Core!First
  <2> HIDE DEF b, t
  <2>5. (q + 1) * b <= t /\ q + 1 <= (q + 1) * b
    BY <1>3, <2>2, <2>3, <2>4
  <2>6. q \in 0 .. t - 1
    BY <1>3, <2>2, <2>3, <2>5
  <2> QED
    BY <1>3, <2>5, <2>6 DEF NodePlaces, b, t
<1>12. TreeState(p, v)
  <2>1. NodeCall(s, h, q) \in TreeCalls(p[1], p[2])
    <3>1. NodeCall(s, <<h, q>>[1], <<h, q>>[2]) \in NodeCalls(s)
      BY <1>11 DEF NodeCalls, NodeCall
    <3>2. <<h, q>>[1] = h /\ <<h, q>>[2] = q
      OBVIOUS
    <3> QED
      BY <3>1, <3>2 DEF TreeCalls, PublicCalls, Place
  <2>2. TreeState(p, w)
    BY DEF Adding
  <2>3. up.log \subseteq TreeCalls(p[1], p[2]) /\ InTree(up.addr, s, HASHTREE, 0)
    BY <1>5, <2>1 DEF NodeMade
  <2> QED
    BY <1>6, <1>7, <2>2, <2>3 DEF TreeState
<1>13. LeavesLogged(p, v, i + 1)
  BY <1>7 DEF Adding, LeavesLogged
<1>14. NodesLogged(p, v, i, h + 1)
  <2> SUFFICES ASSUME NEW x \in NodePlaces, NEW y, NEW z, y = x[1], z = x[2],
                      \/ Core!First(z + 1, y + 1) <= i
                      \/ Core!First(z + 1, y + 1) = i + 1 /\ y < h + 1
               PROVE  NodeCall(s, y, z) \in v.log
    BY DEF NodesLogged
  <2>0. NodesLogged(p, w, i, h)
    BY DEF Adding, h
  <2>1. y \in 0 .. TreeHeight - 1 /\ z \in Nat
    <3>1. x[1] \in 0 .. TreeHeight - 1 /\ x[2] \in 0 .. 2^TreeHeight - 1
      BY DEF NodePlaces
    <3> QED
      BY <3>1
  <2>2. CASE Core!First(z + 1, y + 1) = i + 1 /\ y = h
    <3>1. z + 1 \in Nat /\ q + 1 \in Nat /\ h + 1 \in 0 .. TreeHeight + 1
      BY <1>19, <2>1
    <3>2. z + 1 = q + 1
      BY <1>10, <2>2, <3>1, CoreAssumed, Core!FirstSame
    <3>3. z = q
      BY <1>3, <2>1, <3>2
    <3> QED
      BY <1>5, <1>7, <2>2, <3>3 DEF NodeMade
  <2>3. CASE Core!First(z + 1, y + 1) = i + 1 /\ y # h
    <3>1. y < h
      <4>1. h \in Nat /\ y \in Nat /\ (y < h + 1 \/ Core!First(z + 1, y + 1) <= i)
        BY <1>18, <2>1
      <4>2. ~ (Core!First(z + 1, y + 1) <= i)
        BY <2>3
      <4> QED
        BY <2>3, <4>1, <4>2
    <3> QED
      BY <1>7, <2>0, <2>3, <3>1 DEF NodesLogged
  <2>4. CASE Core!First(z + 1, y + 1) <= i
    BY <1>7, <2>0, <2>4 DEF NodesLogged
  <2> QED
    BY <2>2, <2>3, <2>4
<1>15. (o - 1) - 1 = o - 2 /\ o - 1 > 0
  BY <1>1
<1>16. Adding(p, v, i, hs2, ix2, o - 1)
  BY <1>3, <1>8, <1>9, <1>12, <1>13, <1>14, <1>15 DEF Adding
<1>17. PathBelow(p, v, i, hs2[(o - 1) - 1])
  BY <1>7, <1>8, <1>15 DEF PathBelow, Found, h
<1> QED
  BY <1>8, <1>15, <1>16, <1>17 DEF h

\* Paths are of nodes in the tree.
LEMMA PathNat ==
  ASSUME NEW p, p[3] \in Nat, NEW h \in 0 .. TreeHeight
  PROVE  Shr(p[3], h) \in Nat /\ PathIndex(p, h) \in Nat
<1>1. 2^h \in Nat \ {0}
  <2>1. h \in 0 .. TreeHeight + 1
    BY Sizes
  <2> QED
    BY <2>1, CoreAssumed, Core!Powers
<1>2. Shr(p[3], h) \in Nat
  BY <1>1 DEF Shr
<1> QED
  BY <1>2 DEF PathIndex, Sibling

\* OnPath: the path gets the node on top, where it is wanted.
Saved(p, v, w, i, top, node) ==
  /\ TreeState(p, v)
  /\ v.stack = w.stack /\ v.heights = w.heights /\ v.log = w.log
  /\ \A h \in 0 .. TreeHeight - 1 :
       v.auth[h] = IF h = top /\ PathIndex(p, h) = Shr(i, h) THEN node ELSE w.auth[h]

LEMMA OnPathIs ==
  ASSUME NEW p, NEW w, TreeState(p, w), NEW i, NEW v, v = OnPath(w, p[3], i),
         NEW top, top = w.heights[Len(w.heights)], NEW node, node = w.stack[Len(w.stack)]
  PROVE  Saved(p, v, w, i, top, node)
<1> DEFINE path == [w.auth EXCEPT ![top] = node]
<1>1. v = IF PathIndex(p, top) = Shr(i, top) THEN [w EXCEPT !.auth = path] ELSE w
  <2>1. (IF Bit(p[3], top) = 1 THEN Shr(p[3], top) - 1 ELSE Shr(p[3], top) + 1) = PathIndex(p, top)
    BY DEF PathIndex, Sibling, Bit
  <2>2. w = [ots |-> w.ots, ltree |-> w.ltree, node |-> w.node, stack |-> w.stack,
             heights |-> w.heights, auth |-> w.auth, log |-> w.log]
    BY DEF TreeState
  <2> DEFINE wanted == IF Bit(p[3], top) = 1 THEN Shr(p[3], top) - 1 ELSE Shr(p[3], top) + 1
  <2>3. v = IF wanted = Shr(i, top) THEN [w EXCEPT !.auth = [@ EXCEPT ![top] = node]] ELSE w
    BY DEF OnPath
  <2> QED
    BY <2>1, <2>2, <2>3
<1>2. CASE PathIndex(p, top) = Shr(i, top)
  <2>1. /\ path = [h \in 0 .. TreeHeight - 1 |-> path[h]]
        /\ \A h \in 0 .. TreeHeight - 1 : path[h] = IF h = top THEN node ELSE w.auth[h]
    <3>1. w.auth = [h \in 0 .. TreeHeight - 1 |-> w.auth[h]]
      BY DEF TreeState
    <3> QED
      BY <3>1
  <2> HIDE DEF path
  <2>2. w = [ots |-> w.ots, ltree |-> w.ltree, node |-> w.node, stack |-> w.stack,
             heights |-> w.heights, auth |-> w.auth, log |-> w.log]
    BY DEF TreeState
  <2>3. v = [w EXCEPT !.auth = path]
    BY <1>1, <1>2
  <2>4. v = [ots |-> w.ots, ltree |-> w.ltree, node |-> w.node, stack |-> w.stack,
             heights |-> w.heights, auth |-> path, log |-> w.log]
    BY <2>2, <2>3
  <2>5. TreeState(p, v)
    BY <2>1, <2>4 DEF TreeState
  <2> QED
    BY <1>2, <2>1, <2>4, <2>5 DEF Saved
<1>3. CASE PathIndex(p, top) # Shr(i, top)
  BY <1>1, <1>3 DEF Saved
<1> QED
  BY <1>2, <1>3

\* Saving the node on top extends the path by that height.
LEMMA SavedKeeps ==
  ASSUME NEW p, p[3] \in Nat, NEW w, NEW i \in Nat, NEW hs, NEW ix, NEW o,
         Adding(p, w, i, hs, ix, o), PathBelow(p, w, i, hs[o - 1]),
         NEW v, v = OnPath(w, p[3], i)
  PROVE  Adding(p, v, i, hs, ix, o) /\ PathBelow(p, v, i, hs[o - 1] + 1)
<1> DEFINE top  == hs[o - 1]
           node == NodeValue(Place(p), top, ix[o - 1])
<1>1. /\ o \in Nat /\ o > 0 /\ TreeHeight \in Nat /\ top \in 0 .. TreeHeight /\ ix[o - 1] \in Nat
      /\ top = w.heights[Len(w.heights)] /\ node = w.stack[Len(w.stack)]
  <2>1. o > 0
    BY DEF Adding
  <2>2. /\ o \in Nat /\ hs[o - 1] \in 0 .. TreeHeight /\ ix[o - 1] \in Nat
        /\ TreeHeight \in Nat /\ Len(w.stack) = o /\ Len(w.heights) = o
        /\ w.heights[o] = hs[o - 1]
        /\ w.stack[o] = NodeValue(Place(p), hs[o - 1], ix[o - 1])
    BY PairIs
  <2> QED
    BY <2>1, <2>2
<1>2. Saved(p, v, w, i, top, node)
  <2>1. TreeState(p, w)
    BY DEF Adding
  <2> HIDE DEF top, node
  <2> QED
    BY <1>1, <2>1, OnPathIs
<1>3. Adding(p, v, i, hs, ix, o)
  BY <1>2 DEF Adding, Saved, StackAt, LeavesLogged, NodesLogged
<1>4. Shr(i, top) = ix[o - 1]
  <2>1. Core!Blocks(hs, ix, o, i + 1) /\ o > 0
    BY DEF Adding
  <2>2. Core!Shr((i + 1) - 1, hs[o - 1]) = ix[o - 1]
    BY <2>1, CoreAssumed, Core!TopNode
  <2>3. (i + 1) - 1 = i
    OBVIOUS
  <2> QED
    BY <2>2, <2>3 DEF Core!Shr, Shr
<1>5. Core!First(ix[o - 1] + 1, top) = i + 1
  BY DEF Adding, Core!Blocks, Core!SideBySide
<1>6. node = NodeValue(Place(p), top, Shr(i, top))
  BY <1>4
<1> HIDE DEF top, node
<1>7. ASSUME NEW h \in 0 .. TreeHeight - 1, PathIndex(p, h) = Shr(i, h), h = top
      PROVE  Found(p, v, h)
  BY <1>2, <1>6, <1>7 DEF Found, Saved
<1>8. ASSUME NEW h \in 0 .. TreeHeight - 1, ~ (PathIndex(p, h) = Shr(i, h) /\ h = top),
             Found(p, w, h)
      PROVE  Found(p, v, h)
  BY <1>2, <1>8 DEF Found, Saved
<1>9. ASSUME NEW h \in 0 .. TreeHeight - 1, h = top,
             Core!First(PathIndex(p, h) + 1, h) = i + 1
      PROVE  PathIndex(p, h) = Shr(i, h)
  <2>1. /\ h \in 0 .. TreeHeight + 1
        /\ PathIndex(p, h) \in Nat /\ PathIndex(p, h) + 1 \in Nat /\ ix[o - 1] + 1 \in Nat
    <3>1. h \in 0 .. TreeHeight /\ h \in 0 .. TreeHeight + 1 /\ ix[o - 1] + 1 \in Nat
      BY <1>1
    <3>2. PathIndex(p, h) \in Nat
      BY <3>1, PathNat
    <3> QED
      BY <3>1, <3>2
  <2>2. Core!First(ix[o - 1] + 1, h) = Core!First(PathIndex(p, h) + 1, h)
    BY <1>5, <1>9
  <2>3. ix[o - 1] + 1 = PathIndex(p, h) + 1
    BY <2>1, <2>2, CoreAssumed, Core!FirstSame
  <2> QED
    BY <1>1, <1>4, <1>9, <2>1, <2>3
<1>10. PathBelow(p, v, i, top + 1)
  <2> SUFFICES ASSUME NEW h \in 0 .. TreeHeight - 1,
                      \/ Core!First(PathIndex(p, h) + 1, h) <= i
                      \/ Core!First(PathIndex(p, h) + 1, h) = i + 1 /\ h < top + 1
               PROVE  Found(p, v, h)
    BY DEF PathBelow
  <2>1. CASE Core!First(PathIndex(p, h) + 1, h) <= i
    <3>1. Found(p, w, h)
      BY <2>1 DEF PathBelow
    <3> QED
      BY <3>1, <1>7, <1>8
  <2>2. CASE Core!First(PathIndex(p, h) + 1, h) = i + 1 /\ h < top
    <3>1. Found(p, w, h)
      BY <2>2 DEF PathBelow, top
    <3> QED
      BY <3>1, <1>7, <1>8
  <2>3. CASE Core!First(PathIndex(p, h) + 1, h) = i + 1 /\ h = top
    BY <2>3, <1>7, <1>9
  <2> QED
    BY <1>1, <2>1, <2>2, <2>3
<1> QED
  BY <1>3, <1>10 DEF top

(***************************************************************************)
(* The while loop: with every turn that finds a pair the top rises by one, *)
(* so TreeHeight turns are enough.                                         *)
(***************************************************************************)
MergeTurn(p, t, m) ==
  IF Pair(t) THEN OnPath(Hashed(t, t.heights[Len(t.stack)], p[4]), p[3], p[4]) ELSE t

MergeInv(p, t, m) ==
  \E hs, ix, o : /\ Adding(p, t, p[4], hs, ix, o)
                 /\ PathBelow(p, t, p[4], hs[o - 1] + 1)
                 /\ Pair(t) => hs[o - 1] >= m

Merging == INSTANCE LoopRules WITH Body <- MergeTurn, Inv <- MergeInv

\* A turn of it.
LEMMA MergeKeeps ==
  ASSUME NEW p, p[3] \in Nat, p[4] \in Nat, NEW t, NEW m \in Nat, MergeInv(p, t, m)
  PROVE  MergeInv(p, MergeTurn(p, t, m), m + 1)
<1>1. CASE Pair(t)
  <2> DEFINE v == Hashed(t, t.heights[Len(t.stack)], p[4])
             u == OnPath(v, p[3], p[4])
  <2>1. PICK hs, ix, o : /\ Adding(p, t, p[4], hs, ix, o)
                         /\ PathBelow(p, t, p[4], hs[o - 1] + 1)
                         /\ hs[o - 1] >= m
    BY <1>1 DEF MergeInv
  <2>2. v = Hashed(t, t.heights[Len(t.stack)], p[4]) /\ u = OnPath(v, p[3], p[4])
    OBVIOUS
  <2>3. MergeTurn(p, t, m) = u
    BY <1>1 DEF MergeTurn
  <2> HIDE DEF u, v
  <2>4. PICK hs2, ix2 : /\ Adding(p, v, p[4], hs2, ix2, o - 1)
                        /\ hs2[(o - 1) - 1] = hs[o - 1] + 1
                        /\ PathBelow(p, v, p[4], hs2[(o - 1) - 1])
    BY <1>1, <2>1, <2>2, HashedKeeps
  <2>5. Adding(p, u, p[4], hs2, ix2, o - 1) /\ PathBelow(p, u, p[4], hs2[(o - 1) - 1] + 1)
    <3> DEFINE k == o - 1
    <3>1. Adding(p, v, p[4], hs2, ix2, k) /\ PathBelow(p, v, p[4], hs2[k - 1])
      BY <2>4
    <3> HIDE DEF k
    <3>2. Adding(p, u, p[4], hs2, ix2, k) /\ PathBelow(p, u, p[4], hs2[k - 1] + 1)
      BY <2>2, <3>1, SavedKeeps
    <3> QED
      BY <3>2 DEF k
  <2>6. hs2[(o - 1) - 1] >= m + 1
    <3>1. hs[o - 1] \in 0 .. TreeHeight
      BY <2>1, PairIs
    <3> QED
      BY <2>1, <2>4, <3>1
  <2>7. MergeInv(p, u, m + 1)
    BY <2>5, <2>6 DEF MergeInv
  <2> QED
    BY <2>3, <2>7
<1>2. CASE ~ Pair(t)
  BY <1>2 DEF MergeInv, MergeTurn
<1> QED
  BY <1>1, <1>2

\* Once nothing is left to be hashed the leaf has been added.
LEMMA AddingDone ==
  ASSUME NEW p, p[3] \in Nat, NEW w, NEW i \in Nat, NEW hs, NEW ix, NEW o,
         Adding(p, w, i, hs, ix, o), ~ Pair(w), PathBelow(p, w, i, hs[o - 1] + 1)
  PROVE  TreeInv(p, w, i + 1)
<1>1. Core!Blocks(hs, ix, o, i + 1) /\ Core!NearlyFalling(hs, o) /\ o > 0
  BY DEF Adding
<1>2. /\ o \in Nat /\ o - 1 \in 0 .. TreeHeight /\ TreeHeight \in Nat
      /\ hs[o - 1] \in Nat /\ ~ (o >= 2 /\ hs[o - 1] = hs[o - 2])
  BY PairIs
<1>3. Core!Falling(hs, o)
  <2> SUFFICES ASSUME NEW j \in 1 .. o - 1
               PROVE  hs[j] < hs[j - 1] /\ hs[j] + j <= hs[0]
    BY DEF Core!Falling
  <2>1. CASE j < o - 1
    <3>1. j \in 1 .. (o - 1) - 1
      BY <2>1, <1>2
    <3> QED
      BY <1>1, <3>1 DEF Core!NearlyFalling, Core!Falling
  <2>2. CASE j = o - 1
    <3>1. o >= 2 /\ j - 1 = o - 2 /\ j \in 0 .. TreeHeight /\ j - 1 \in 0 .. TreeHeight
          /\ 0 \in 0 .. TreeHeight
      BY <1>2, <2>2
    <3>2. hs[j] \in Nat /\ hs[j - 1] \in Nat /\ hs[0] \in Nat
      <4>1. Core!Numbers(hs, ix, o, i + 1)
        BY <1>1 DEF Core!Blocks
      <4>2. \A k \in 0 .. TreeHeight : hs[k] \in 0 .. TreeHeight
        BY <4>1, CoreAssumed, Core!NumbersAt
      <4> QED
        BY <3>1, <4>2
    <3>3. hs[j] # hs[j - 1] /\ hs[j] <= hs[j - 1]
      BY <1>1, <1>2, <2>2, <3>1 DEF Core!NearlyFalling
    <3>4. CASE j = 1
      BY <3>2, <3>3, <3>4
    <3>5. CASE j > 1
      <4>1. j - 1 \in 1 .. (o - 1) - 1
        BY <1>2, <2>2, <3>5
      <4>2. hs[j - 1] + (j - 1) <= hs[0]
        BY <1>1, <4>1 DEF Core!NearlyFalling, Core!Falling
      <4> QED
        BY <3>2, <3>3, <4>2
    <3> QED
      BY <3>4, <3>5
  <2> QED
    BY <1>2, <2>1, <2>2
<1>4. ASSUME NEW h \in 0 .. TreeHeight, NEW x \in Nat, Core!First(x + 1, h) <= i + 1
      PROVE  \/ Core!First(x + 1, h) <= i
             \/ Core!First(x + 1, h) = i + 1 /\ h < hs[o - 1] + 1
  <2>1. Core!First(x + 1, h) \in Nat
    <3>1. h \in 0 .. TreeHeight + 1 /\ x + 1 \in Nat
      BY <1>2
    <3> QED
      BY <3>1, CoreAssumed, Core!FirstNat
  <2>2. CASE Core!First(x + 1, h) = i + 1
    <3>1. h <= hs[o - 1]
      BY <1>1, <1>3, <2>2, CoreAssumed, Core!CompleteNode
    <3> QED
      BY <1>2, <2>2, <3>1
  <2> QED
    BY <1>4, <2>1, <2>2
<1>5. ASSUME NEW h \in 0 .. TreeHeight - 1, Core!First(PathIndex(p, h) + 1, h) <= i + 1
      PROVE  Found(p, w, h)
  <2>1. h \in 0 .. TreeHeight
    BY <1>2
  <2>2. PathIndex(p, h) \in Nat
    BY <2>1, PathNat
  <2> QED
    BY <1>4, <1>5, <2>1, <2>2 DEF PathBelow
<1>6. ASSUME NEW q \in NodePlaces, Core!First(q[2] + 1, q[1] + 1) <= i + 1
      PROVE  NodeCall(Place(p), q[1], q[2]) \in w.log
  <2>1. q[1] \in 0 .. TreeHeight - 1 /\ q[2] \in 0 .. 2^TreeHeight - 1
    BY DEF NodePlaces
  <2>2. q[1] + 1 \in 0 .. TreeHeight /\ q[2] \in Nat /\ q[1] \in Nat
    BY <1>2, <2>1
  <2>3. \/ Core!First(q[2] + 1, q[1] + 1) <= i
        \/ Core!First(q[2] + 1, q[1] + 1) = i + 1 /\ q[1] < hs[o - 1]
    BY <1>2, <1>4, <1>6, <2>2
  <2>4. NodesLogged(p, w, i, hs[o - 1])
    BY DEF Adding
  <2> QED
    BY <2>3, <2>4 DEF NodesLogged
<1> QED
  BY <1>1, <1>3, <1>5, <1>6 DEF TreeInv, Adding

\* Which turn it is makes no difference to what holds.
LEMMA TurnsAlike ==
  ASSUME NEW p, NEW r, r[1] = p[1] /\ r[2] = p[2] /\ r[3] = p[3], NEW w, NEW n,
         TreeInv(p, w, n)
  PROVE  TreeInv(r, w, n)
<1>1. Place(r) = Place(p) /\ \A h : PathIndex(r, h) = PathIndex(p, h)
  BY DEF Place, PathIndex
<1>2. TreeState(r, w)
  BY <1>1 DEF TreeInv, TreeState
<1>3. \A hs, ix, o : StackAt(p, w, hs, ix, o) => StackAt(r, w, hs, ix, o)
  BY <1>1 DEF StackAt
<1>4. \A h : Found(p, w, h) <=> Found(r, w, h)
  BY <1>1 DEF Found
<1>5. LeavesLogged(r, w, n)
  BY <1>1 DEF TreeInv, LeavesLogged
<1> QED
  BY <1>1, <1>2, <1>3, <1>4, <1>5 DEF TreeInv

(***************************************************************************)
(* The loop over the leaves.                                               *)
(***************************************************************************)
LeafPushed(p, w, i) ==
  PushedLeaf(w, gen_leaf_wots(set_ltree_addr(w.ltree, i), set_ots_addr(w.ots, i),
                              <<p[1], p[2], i>>))

LeafTurn(p, w, i) ==
  While(TreeHeight, LAMBDA t : Pair(t),
        LAMBDA t : OnPath(Hashed(t, t.heights[Len(t.stack)], i), p[3], i),
        OnPath(LeafPushed(p, w, i), p[3], i))

Adds == INSTANCE LoopRules WITH Body <- LeafTurn, Inv <- TreeInv

\* A leaf is pushed, before anything is hashed.
LEMMA LeafStarts ==
  ASSUME NEW p, p[3] \in Nat, NEW w, NEW i \in Nat, TreeInv(p, w, i),
         i < Core!First(1, TreeHeight), p[4] = i,
         NEW t, t = OnPath(LeafPushed(p, w, i), p[3], i)
  PROVE  MergeInv(p, t, 0)
<1> DEFINE ltree == set_ltree_addr(w.ltree, i)
           ots   == set_ots_addr(w.ots, i)
           leaf  == gen_leaf_wots(ltree, ots, <<p[1], p[2], i>>)
           v     == PushedLeaf(w, leaf)
<1>1. InTree(ltree, Words(p[1], p[2]), LTREE, i) /\ InTree(ots, Words(p[1], p[2]), OTS, i)
  <2>1. InTree(w.ots, Place(p), OTS, w.ots[4]) /\ InTree(w.ltree, Place(p), LTREE, w.ltree[4])
    BY DEF TreeInv, TreeState
  <2> QED
    BY <2>1, LastWordsSet, SameSetters DEF Place
<1>2. t = OnPath(v, p[3], i)
  BY DEF LeafPushed
<1>3. LeafMade(leaf, p[1], p[2], i)
  <2> HIDE DEF ltree, ots
  <2> QED
    BY <1>1, GenLeafIs
<1>4. v = PushedLeaf(w, leaf)
  OBVIOUS
<1> HIDE DEF v, leaf
<1>5. PICK hs, ix, o : Adding(p, v, i, hs, ix, o) /\ PathBelow(p, v, i, hs[o - 1])
  BY <1>3, <1>4, LeafPushedKeeps
<1>6. Adding(p, t, i, hs, ix, o) /\ PathBelow(p, t, i, hs[o - 1] + 1)
  BY <1>2, <1>5, SavedKeeps
<1>7. hs[o - 1] >= 0
  <2>1. hs[o - 1] \in 0 .. TreeHeight /\ TreeHeight \in Nat
    BY <1>6, PairIs
  <2> QED
    BY <2>1
<1> QED
  BY <1>6, <1>7 DEF MergeInv

\* As many turns as the tree is high leave nothing to be hashed.
LEMMA MergesEnd ==
  ASSUME NEW p, p[3] \in Nat, p[4] \in Nat, NEW t, MergeInv(p, t, TreeHeight)
  PROVE  TreeInv(p, t, p[4] + 1)
<1>1. PICK hs, ix, o : /\ Adding(p, t, p[4], hs, ix, o)
                       /\ PathBelow(p, t, p[4], hs[o - 1] + 1)
                       /\ Pair(t) => hs[o - 1] >= TreeHeight
  BY DEF MergeInv
<1>2. ~ Pair(t)
  <2> SUFFICES ASSUME Pair(t) PROVE FALSE
    OBVIOUS
  <2>1. o >= 2 /\ hs[o - 1] = hs[o - 2] /\ TreeHeight \in Nat
    BY <1>1, PairIs
  <2>2. Core!Blocks(hs, ix, o, p[4] + 1) /\ Core!NearlyFalling(hs, o)
    BY <1>1 DEF Adding
  <2>3. hs[o - 1] \in 0 .. TreeHeight - 1
    BY <2>1, <2>2, CoreAssumed, Core!PairHeight
  <2> QED
    BY <1>1, <2>1, <2>3
<1> QED
  BY <1>1, <1>2, AddingDone

\* A turn of treehash: a leaf is added.
LEMMA LeafKeeps ==
  ASSUME NEW p, p[3] \in Nat, NEW w, NEW i \in Nat, TreeInv(p, w, i),
         i < Core!First(1, TreeHeight)
  PROVE  TreeInv(p, LeafTurn(p, w, i), i + 1)
<1> DEFINE r     == <<p[1], p[2], p[3], i>>
           start == OnPath(LeafPushed(p, w, i), p[3], i)
           done  == Merging!TheFor(r, TreeHeight, start)
<1>1. LeafTurn(p, w, i) = done
  BY DEF LeafTurn, While, For, Merging!TheFor, Merging!For, MergeTurn
<1>2. r[1] = p[1] /\ r[2] = p[2] /\ r[3] = p[3] /\ r[4] = i /\ r[3] \in Nat
  OBVIOUS
<1>3. start = OnPath(LeafPushed(r, w, i), r[3], i)
  BY DEF LeafPushed
<1> HIDE DEF r, start
<1>4. MergeInv(r, start, 0)
  <2>1. TreeInv(r, w, i)
    BY <1>2, TurnsAlike
  <2> QED
    BY <1>2, <1>3, <2>1, LeafStarts
<1>5. MergeInv(r, done, TreeHeight)
  <2>1. ASSUME NEW t, NEW m \in 0 .. TreeHeight - 1, MergeInv(r, t, m)
        PROVE  MergeInv(r, MergeTurn(r, t, m), m + 1)
    BY <1>2, <2>1, MergeKeeps
  <2>2. TreeHeight \in Nat
    BY Sizes
  <2> QED
    BY <1>4, <2>1, <2>2, Merging!ForRule
<1> HIDE DEF done
<1>6. TreeInv(r, done, i + 1)
  BY <1>2, <1>5, MergesEnd
<1> QED
  BY <1>1, <1>2, <1>6, TurnsAlike

-----------------------------------------------------------------------------
(* The whole of treehash.                                                  *)

\* An address is in a subtree, whatever its other words are.
Within(a, s) == Triple(s) /\ a[0] = s[1] /\ a[1] = s[2] /\ a[2] = s[3]

Typed(a, type) == set_type(copy_subtree_addr(NewAddr, a), type)

NoLeaves(a) ==
  [ots |-> Typed(a, OTS), ltree |-> Typed(a, LTREE), node |-> Typed(a, HASHTREE),
   stack |-> << >>, heights |-> << >>,
   auth |-> [h \in 0 .. TreeHeight - 1 |-> << >>], log |-> {}]

\* An address made for a subtree.
LEMMA TypedIs ==
  ASSUME NEW a, NEW s, Within(a, s), NEW type
  PROVE  InTree(Typed(a, type), s, type, 0)
<1> DEFINE b == Typed(a, type)
<1>1. b = [w \in 0 .. 7 |-> b[w]]
  BY DEF Typed, set_type, copy_subtree_addr, NewAddr
<1>2. b[0] = a[0] /\ b[1] = a[1] /\ b[2] = a[2] /\ b[3] = type /\ b[4] = 0
  BY DEF Typed, set_type, copy_subtree_addr, NewAddr
<1> QED
  BY <1>1, <1>2 DEF InTree, IsAddr, Within

\* Before the first leaf.
LEMMA NoLeavesInv ==
  ASSUME NEW p, p[3] \in Nat, NEW a, Within(a, Place(p)), NEW w, w = NoLeaves(a)
  PROVE  TreeInv(p, w, 0)
<1>1. TreeHeight \in Nat /\ Core!First(1, TreeHeight) \in Nat
  <2>1. TreeHeight \in Nat /\ TreeHeight \in 0 .. TreeHeight + 1 /\ 1 \in Nat
    BY Sizes
  <2> QED
    BY <2>1, CoreAssumed, Core!FirstNat
<1> DEFINE none == [j \in 0 .. TreeHeight |-> 0]
<1>2. Core!Blocks(none, none, 0, 0)
  BY <1>1 DEF Core!Blocks, Core!Numbers, Core!SideBySide
<1>3. Core!Falling(none, 0)
  BY DEF Core!Falling
<1> HIDE DEF none
<1>4. ASSUME NEW h \in 0 .. TreeHeight + 1, NEW x \in Nat
      PROVE  ~ (Core!First(x + 1, h) <= 0)
  <2>1. x + 1 \in Nat /\ 0 \in Nat /\ 0 < x + 1
    OBVIOUS
  <2>2. Core!First(0, h) < Core!First(x + 1, h)
    BY <2>1, CoreAssumed, Core!FirstLess
  <2>3. Core!First(0, h) = 0 /\ Core!First(x + 1, h) \in Nat
    BY <2>1, CoreAssumed, Core!FirstNat
  <2> QED
    BY <2>2, <2>3
<1>5. /\ w.stack = << >> /\ w.heights = << >> /\ w.log = {}
      /\ w.ots = Typed(a, OTS) /\ w.ltree = Typed(a, LTREE) /\ w.node = Typed(a, HASHTREE)
      /\ w.auth = [h \in 0 .. TreeHeight - 1 |-> << >>]
      /\ w = [ots |-> w.ots, ltree |-> w.ltree, node |-> w.node, stack |-> w.stack,
              heights |-> w.heights, auth |-> w.auth, log |-> w.log]
  BY DEF NoLeaves
<1>6. /\ InTree(w.ots, Place(p), OTS, w.ots[4]) /\ InTree(w.ltree, Place(p), LTREE, w.ltree[4])
      /\ InTree(w.node, Place(p), HASHTREE, 0)
  <2>1. \A type : InTree(Typed(a, type), Place(p), type, 0)
    BY TypedIs
  <2> QED
    BY <1>5, <2>1 DEF InTree
<1>7. TreeState(p, w)
  <2>1. w.auth = [h \in 0 .. TreeHeight - 1 |-> w.auth[h]]
    BY <1>5
  <2> QED
    BY <1>5, <1>6, <2>1 DEF TreeState
<1>8. StackAt(p, w, none, none, 0)
  BY <1>5 DEF StackAt, IsSeq
<1>9. ASSUME NEW h \in 0 .. TreeHeight - 1
      PROVE  ~ (Core!First(PathIndex(p, h) + 1, h) <= 0)
  <2>1. h \in 0 .. TreeHeight /\ h \in 0 .. TreeHeight + 1
    BY <1>1
  <2>2. PathIndex(p, h) \in Nat
    BY <2>1, PathNat
  <2> QED
    BY <1>4, <2>1, <2>2
<1>10. ASSUME NEW q \in NodePlaces
       PROVE  ~ (Core!First(q[2] + 1, q[1] + 1) <= 0)
  <2>1. q[1] \in 0 .. TreeHeight - 1 /\ q[2] \in 0 .. 2^TreeHeight - 1
    BY DEF NodePlaces
  <2>2. q[1] + 1 \in 0 .. TreeHeight + 1 /\ q[2] \in Nat
    BY <1>1, <2>1
  <2> QED
    BY <1>4, <2>2
<1>11. LeavesLogged(p, w, 0)
  BY DEF LeavesLogged
<1> QED
  BY <1>2, <1>3, <1>7, <1>8, <1>9, <1>10, <1>11 DEF TreeInv

\* Each place on the path is that of a node of the tree.
LEMMA PathInside ==
  ASSUME NEW p, p[3] \in 0 .. 2^TreeHeight - 1, NEW h \in 0 .. TreeHeight - 1
  PROVE  Core!First(PathIndex(p, h) + 1, h) <= Core!First(1, TreeHeight)
<1> DEFINE leaf == p[3]
           x    == Shr(leaf, h)
           b    == 2^h
           t    == 2^TreeHeight
<1>1. TreeHeight \in Nat /\ h \in 0 .. TreeHeight /\ h \in 0 .. TreeHeight + 1
      /\ TreeHeight \in 0 .. TreeHeight + 1
  BY Sizes
<1>2. b \in Nat \ {0} /\ t \in Nat \ {0}
  BY <1>1, CoreAssumed, Core!Powers
<1>3. leaf \in Nat /\ leaf < t
  BY <1>2
<1>4. x \in Nat /\ PathIndex(p, h) \in Nat /\ PathIndex(p, h) = Sibling(x)
  BY <1>1, <1>3, PathNat DEF PathIndex
<1>5. PICK q \in Nat : q > 0 /\ t = (2 * q) * b
  BY <1>1, CoreAssumed, Core!Powers
<1>6. x * b <= leaf
  <2>1. x = leaf \div b
    BY DEF Shr
  <2> HIDE DEF x, leaf, b
  <2>2. leaf % b \in 0 .. b - 1 /\ leaf = (leaf \div b) * b + (leaf % b)
    <3>1. leaf \in Int /\ b \in Nat \ {0}
      BY <1>2, <1>3
    <3> QED
      BY <3>1, Chain!DivMod
  <2> QED
    BY <1>2, <1>3, <1>4, <2>1, <2>2
<1> HIDE DEF x, leaf, b, t
<1>7. x < 2 * q
  <2>1. x * b < (2 * q) * b
    BY <1>2, <1>3, <1>4, <1>5, <1>6
  <2> QED
    BY <1>2, <1>4, <2>1
<1>8. Sibling(x) + 1 <= 2 * q
  BY <1>4, <1>7 DEF Sibling
<1>9. (PathIndex(p, h) + 1) * b <= (2 * q) * b
  BY <1>2, <1>4, <1>8
<1>10. 1 * t = t
  BY <1>2
<1> QED
  BY <1>5, <1>9, <1>10 DEF Core!First, b, t

\* What treehash returns: the root, the path, and the calls it made, which
\* are those for the tree and the secrets below it.
TreeFound(t, layer, tree, leaf) ==
  /\ t.stack[1] = RootOf(Words(layer, tree))
  /\ t.auth = AuthPath(Words(layer, tree), leaf)
  /\ PublicCalls(Words(layer, tree)) \subseteq t.log
  /\ t.log \subseteq TreeCalls(layer, tree)

\* After the last leaf.
LEMMA AllLeaves ==
  ASSUME NEW p, p[3] \in 0 .. 2^TreeHeight - 1, NEW w,
         TreeInv(p, w, Core!First(1, TreeHeight))
  PROVE  TreeFound(w, p[1], p[2], p[3])
<1>1. TreeHeight \in Nat /\ 2^TreeHeight \in Nat /\ Core!First(1, TreeHeight) = 2^TreeHeight
  <2>1. TreeHeight \in Nat /\ TreeHeight \in 0 .. TreeHeight + 1
    BY Sizes
  <2>2. 2^TreeHeight \in Nat
    BY <2>1, CoreAssumed, Core!Powers
  <2> QED
    BY <2>1, <2>2 DEF Core!First
<1>2. w.stack[1] = RootOf(Place(p))
  <2>1. PICK hs, ix, o : /\ Core!Blocks(hs, ix, o, Core!First(1, TreeHeight))
                         /\ Core!Falling(hs, o) /\ StackAt(p, w, hs, ix, o)
    BY DEF TreeInv
  <2>2. o = 1 /\ hs[0] = TreeHeight /\ ix[0] = 0
    BY <2>1, CoreAssumed, Core!BlocksDone
  <2>3. 0 \in 0 .. o - 1
    BY <2>2
  <2>4. w.stack[0 + 1] = NodeValue(Place(p), hs[0], ix[0])
    BY <2>1, <2>3 DEF StackAt
  <2> QED
    BY <2>2, <2>4 DEF RootOf
<1>3. w.auth = AuthPath(Place(p), p[3])
  <2>1. ASSUME NEW h \in 0 .. TreeHeight - 1
        PROVE  w.auth[h] = NodeValue(Place(p), h, Sibling(Shr(p[3], h)))
    <3>1. Found(p, w, h)
      BY PathInside DEF TreeInv
    <3> QED
      BY <3>1 DEF Found, PathIndex
  <2>2. w.auth = [h \in 0 .. TreeHeight - 1 |-> w.auth[h]]
    BY DEF TreeInv, TreeState
  <2> QED
    BY <2>1, <2>2 DEF AuthPath
<1>4. NodeCalls(Place(p)) \subseteq w.log
  <2> SUFFICES ASSUME NEW q \in NodePlaces
               PROVE  NodeCall(Place(p), q[1], q[2]) \in w.log
    BY DEF NodeCalls, NodeCall
  <2>1. Core!First(q[2] + 1, q[1] + 1) <= Core!First(1, TreeHeight)
    BY <1>1 DEF NodePlaces, Core!First
  <2> QED
    BY <2>1 DEF TreeInv
<1>5. UNION {LeafCalls(Place(p), leaf) : leaf \in 0 .. 2^TreeHeight - 1} \subseteq w.log
  BY <1>1 DEF TreeInv, LeavesLogged
<1>6. w.log \subseteq TreeCalls(p[1], p[2])
  BY DEF TreeInv, TreeState
<1> QED
  BY <1>2, <1>3, <1>4, <1>5, <1>6 DEF TreeFound, PublicCalls, Place

(***************************************************************************)
(* treehash computes the root of the tree and the authentication path of   *)
(* the leaf, and calls exactly what belongs to the tree, whichever other   *)
(* words are in the address it is given.                                   *)
(***************************************************************************)
THEOREM TreehashIs ==
  ASSUME NEW layer, NEW tree, NEW leaf \in 0 .. 2^TreeHeight - 1,
         NEW a, Within(a, Words(layer, tree)), NEW t, t = treehash(a, leaf, layer, tree)
  PROVE  TreeFound(t, layer, tree, leaf)
<1> DEFINE p    == <<layer, tree, leaf>>
           done == Adds!TheFor(p, 2^TreeHeight, NoLeaves(a))
<1>1. p[1] = layer /\ p[2] = tree /\ p[3] = leaf
  OBVIOUS
<1>2. TreeHeight \in Nat /\ 2^TreeHeight \in Nat /\ Core!First(1, TreeHeight) = 2^TreeHeight
  <2>1. TreeHeight \in Nat /\ TreeHeight \in 0 .. TreeHeight + 1
    BY Sizes
  <2>2. 2^TreeHeight \in Nat
    BY <2>1, CoreAssumed, Core!Powers
  <2> QED
    BY <2>1, <2>2 DEF Core!First
<1> HIDE DEF p
<1>3. treehash(a, p[3], p[1], p[2]) = done
  BY DEF treehash, LeafTurn, LeafPushed, Pair, Typed, NoLeaves, While, For,
         Adds!TheFor, Adds!For
<1>4. p[3] \in 0 .. 2^TreeHeight - 1 /\ p[3] \in Nat
  BY <1>1, <1>2
<1>5. TreeInv(p, NoLeaves(a), 0)
  <2>1. Within(a, Place(p))
    BY <1>1 DEF Place
  <2> QED
    BY <1>4, <2>1, NoLeavesInv
<1>6. TreeInv(p, done, 2^TreeHeight)
  <2>1. ASSUME NEW w, NEW i \in 0 .. 2^TreeHeight - 1, TreeInv(p, w, i)
        PROVE  TreeInv(p, LeafTurn(p, w, i), i + 1)
    <3>1. i \in Nat /\ i < Core!First(1, TreeHeight)
      BY <1>2
    <3> QED
      BY <1>4, <2>1, <3>1, LeafKeeps
  <2> QED
    BY <1>2, <1>5, <2>1, Adds!ForRule
<1> HIDE DEF done
<1>7. TreeFound(done, p[1], p[2], p[3])
  BY <1>2, <1>4, <1>6, AllLeaves
<1> QED
  BY <1>1, <1>3, <1>7

-----------------------------------------------------------------------------
(* compute_root.  p is the subtree, leafidx and the path.                  *)

ClimbTurn(p, c, h) ==
  LET a == set_tree_index(set_tree_height(c.addr, h), Shr(p[2], h + 1))
  IN  Logged(c, IF Bit(p[2], h) = 1 THEN thash_h(a, p[3][h], c.out)
                                    ELSE thash_h(a, c.out, p[3][h]))

ClimbInv(p, c, h) ==
  /\ InTree(c.addr, p[1], HASHTREE, 0)
  /\ c.out = NodeValue(p[1], h, Shr(p[2], h)) /\ c.log \subseteq NodeCalls(p[1])

Climbing == INSTANCE LoopRules WITH Body <- ClimbTurn, Inv <- ClimbInv

\* The node above a node, and that it is one of the tree.
LEMMA NodeAbove ==
  ASSUME NEW leaf \in 0 .. 2^TreeHeight - 1, NEW h \in 0 .. TreeHeight - 1,
         NEW x, x = Shr(leaf, h), NEW y, y = Shr(leaf, h + 1)
  PROVE  x \in Nat /\ y = x \div 2 /\ <<h, y>> \in NodePlaces
<1> DEFINE b == 2^(h + 1)
           t == 2^TreeHeight
<1>1. TreeHeight \in Nat /\ h \in 0 .. TreeHeight /\ h + 1 \in 0 .. TreeHeight
      /\ h + 1 \in 0 .. TreeHeight + 1 /\ TreeHeight \in 0 .. TreeHeight + 1
  BY Sizes
<1>2. b \in Nat \ {0} /\ t \in Nat \ {0}
  BY <1>1, CoreAssumed, Core!Powers
<1>3. leaf \in Nat /\ leaf < t
  BY <1>2
<1>4. x \in Nat /\ y = x \div 2
  <2>1. Core!Shr(leaf, h) \in Nat /\ Core!Shr(leaf, h + 1) = Core!Shr(leaf, h) \div 2
    BY <1>1, <1>3, CoreAssumed, Core!ShrUp
  <2> QED
    BY <2>1 DEF Core!Shr, Shr
<1>5. y \in Nat
  BY <1>4
<1>6. y * b <= leaf
  <2>1. y = leaf \div b
    BY DEF Shr
  <2>2. leaf % b \in 0 .. b - 1 /\ leaf = (leaf \div b) * b + (leaf % b)
    <3>1. leaf \in Int /\ b \in Nat \ {0}
      BY <1>2, <1>3
    <3> QED
      BY <3>1, Chain!DivMod
  <2> HIDE DEF b
  <2> QED
    BY <1>2, <1>3, <1>5, <2>1, <2>2
<1>7. PICK q \in Nat : q > 0 /\ t = q * b
  <2>1. CASE h + 1 = TreeHeight
    <3>1. t = 1 * b
      BY <1>2, <2>1
    <3> QED
      BY <3>1
  <2>2. CASE h + 1 # TreeHeight
    <3>1. h + 1 \in 0 .. TreeHeight - 1
      BY <1>1, <2>2
    <3>2. PICK k \in Nat : k > 0 /\ t = (2 * k) * b
      BY <1>1, <3>1, CoreAssumed, Core!Powers
    <3>3. 2 * k \in Nat /\ 2 * k > 0
      BY <3>2
    <3> QED
      BY <3>2, <3>3
  <2> QED
    BY <2>1, <2>2
<1> HIDE DEF b, t
<1>8. y < q
  <2>1. y * b < q * b
    BY <1>2, <1>3, <1>5, <1>6, <1>7
  <2> QED
    BY <1>2, <1>5, <2>1
<1>9. (y + 1) * b <= t /\ y + 1 <= (y + 1) * b
  BY <1>2, <1>5, <1>7, <1>8
<1>10. y \in 0 .. t - 1
  BY <1>2, <1>5, <1>9
<1> QED
  BY <1>4, <1>9, <1>10 DEF NodePlaces, b, t

\* A step up from a node and the one on the path.
LEMMA ClimbKeeps ==
  ASSUME NEW p, p[2] \in 0 .. 2^TreeHeight - 1, p[3] = AuthPath(p[1], p[2]),
         NEW c, NEW h \in 0 .. TreeHeight - 1, ClimbInv(p, c, h)
  PROVE  ClimbInv(p, ClimbTurn(p, c, h), h + 1)
<1> DEFINE s == p[1]
           x == Shr(p[2], h)
           y == Shr(p[2], h + 1)
           a == set_tree_index(set_tree_height(c.addr, h), y)
           r == IF Bit(p[2], h) = 1 THEN thash_h(a, p[3][h], c.out) ELSE thash_h(a, c.out, p[3][h])
           t == ClimbTurn(p, c, h)
<1>1. x \in Nat /\ y = x \div 2 /\ <<h, y>> \in NodePlaces
  BY NodeAbove
<1>2. /\ InTree(c.addr, s, HASHTREE, 0) /\ c.out = NodeValue(s, h, x)
      /\ p[3][h] = NodeValue(s, h, Sibling(x))
  BY DEF ClimbInv, AuthPath
<1>3. h \in Nat
  BY Sizes
<1>4. Bit(p[2], h) = x % 2
  BY DEF Bit
<1>5. t = Logged(c, r)
  BY DEF ClimbTurn
<1>6. NodeMade(r, s, h, y)
  <2>1. CASE x % 2 = 1
    <3>1. Sibling(x) = 2 * y /\ x = 2 * y + 1
      BY <1>1, <2>1 DEF Sibling
    <3>2. r = thash_h(a, p[3][h], c.out)
      BY <1>4, <2>1
    <3>3. p[3][h] = NodeValue(s, h, 2 * y) /\ c.out = NodeValue(s, h, 2 * y + 1)
      BY <1>2, <3>1
    <3> HIDE DEF x, y, r, s
    <3> QED
      BY <1>2, <1>3, <3>2, <3>3, HashNodeIs
  <2>2. CASE x % 2 # 1
    <3>1. Sibling(x) = 2 * y + 1 /\ x = 2 * y
      BY <1>1, <2>2 DEF Sibling
    <3>2. r = thash_h(a, c.out, p[3][h])
      BY <1>4, <2>2
    <3>3. c.out = NodeValue(s, h, 2 * y) /\ p[3][h] = NodeValue(s, h, 2 * y + 1)
      BY <1>2, <3>1
    <3> HIDE DEF x, y, r, s
    <3> QED
      BY <1>2, <1>3, <3>2, <3>3, HashNodeIs
  <2> QED
    BY <2>1, <2>2
<1> HIDE DEF r, t
<1>7. t.addr = r.addr /\ t.out = r.out /\ t.log = r.log \union c.log
  BY <1>5, <1>6 DEF Logged, NodeMade
<1>8. NodeCall(s, h, y) \in NodeCalls(s)
  <2>1. NodeCall(s, <<h, y>>[1], <<h, y>>[2]) \in NodeCalls(s)
    BY <1>1 DEF NodeCalls, NodeCall
  <2>2. <<h, y>>[1] = h /\ <<h, y>>[2] = y
    OBVIOUS
  <2> QED
    BY <2>1, <2>2
<1>9. InTree(t.addr, s, HASHTREE, 0) /\ t.out = NodeValue(s, h + 1, y)
      /\ t.log = {NodeCall(s, h, y)} \union c.log
  BY <1>6, <1>7 DEF NodeMade
<1> QED
  BY <1>8, <1>9 DEF ClimbInv, t

\* A path is followed to the root.
Climbed(r, s) ==
  InTree(r.addr, s, HASHTREE, 0) /\ r.out = RootOf(s) /\ r.log \subseteq NodeCalls(s)

LEMMA ComputeRootIs ==
  ASSUME NEW s, NEW leaf \in 0 .. 2^TreeHeight - 1, NEW addr, InTree(addr, s, HASHTREE, 0),
         NEW in, in = NodeValue(s, 0, leaf), NEW auth, auth = AuthPath(s, leaf)
  PROVE  Climbed(compute_root(addr, in, leaf, auth), s)
<1> DEFINE p    == <<s, leaf, auth>>
           zero == [addr |-> addr, out |-> in, log |-> {}]
           done == Climbing!TheFor(p, TreeHeight, zero)
<1>1. p[1] = s /\ p[2] = leaf /\ p[3] = auth
  OBVIOUS
<1> HIDE DEF p
<1>2. compute_root(addr, in, p[2], p[3]) = done
  BY DEF compute_root, ClimbTurn, For, Climbing!TheFor, Climbing!For
<1>3. TreeHeight \in Nat /\ 2^TreeHeight \in Nat \ {0} /\ 2^0 = 1 /\ leaf \in Nat
  <2>1. TreeHeight \in Nat /\ TreeHeight \in 0 .. TreeHeight + 1
    BY Sizes
  <2>2. 2^TreeHeight \in Nat \ {0} /\ 2^0 = 1
    BY <2>1, CoreAssumed, Core!Powers
  <2> QED
    BY <2>1, <2>2
<1>4. Shr(leaf, 0) = leaf
  BY <1>3 DEF Shr
<1>5. Shr(leaf, TreeHeight) = 0
  <2> DEFINE t == 2^TreeHeight
  <2>1. t \in Nat \ {0} /\ leaf \in 0 .. t - 1
    BY <1>3
  <2> HIDE DEF t
  <2>2. 0 * t <= leaf /\ leaf < (0 + 1) * t /\ leaf \in Int /\ 0 \in Int
    BY <1>3, <2>1
  <2>3. leaf \div t = 0
    BY <2>1, <2>2, Chain!DivUnique
  <2> QED
    BY <2>3 DEF Shr, t
<1>6. ClimbInv(p, zero, 0)
  BY <1>1, <1>4 DEF ClimbInv
<1>7. ClimbInv(p, done, TreeHeight)
  <2>1. ASSUME NEW c, NEW h \in 0 .. TreeHeight - 1, ClimbInv(p, c, h)
        PROVE  ClimbInv(p, ClimbTurn(p, c, h), h + 1)
    BY <1>1, <2>1, ClimbKeeps
  <2> HIDE DEF zero
  <2> QED
    BY <1>3, <1>6, <2>1, Climbing!ForRule
<1> HIDE DEF done
<1> QED
  BY <1>1, <1>2, <1>5, <1>7 DEF ClimbInv, Climbed, RootOf

-----------------------------------------------------------------------------
(* What the bits of an index say.                                          *)

Bits == TreeHeight * Layers

\* The powers there are.
LEMMA BitPowers ==
  /\ Bits \in Nat
  /\ \A m \in 0 .. Bits : 2^m \in Nat \ {0}
  /\ \A a, b \in Nat : a + b <= Bits => 2^(a + b) = 2^a * 2^b
<1>1. Bits \in Nat
  BY Sizes DEF Bits
<1>2. \A i \in 0 .. Bits : 2^(i + 1) = 2 * 2^i
  BY PowersAssumption DEF PowersOfTwo, Bits
<1> HIDE DEF Bits
<1>3. ASSUME NEW m \in 0 .. Bits
      PROVE  2^m \in Nat \ {0}
  <2>1. m \in 0 .. Bits + 1
    BY <1>1
  <2> QED
    BY <1>1, <1>2, <2>1, Chain!PowNat
<1>4. ASSUME NEW a \in Nat, NEW b \in Nat, a + b <= Bits
      PROVE  2^(a + b) = 2^a * 2^b
  <2>1. a + b <= Bits + 1
    BY <1>1, <1>4
  <2> QED
    BY <1>1, <1>2, <2>1, Chain!PowSum
<1> QED
  BY <1>1, <1>3, <1>4

\* Where the bits of a layer begin and end.
LEMMA LayerBits ==
  ASSUME NEW layer \in 0 .. Layers - 1
  PROVE  /\ layer \in Nat /\ layer * TreeHeight \in Nat
         /\ (layer + 1) * TreeHeight = layer * TreeHeight + TreeHeight
         /\ (layer + 1) * TreeHeight <= Bits
         /\ (layer + 1) * TreeHeight \in 0 .. Bits /\ layer * TreeHeight \in 0 .. Bits
<1>1. layer \in Nat /\ TreeHeight \in Nat /\ Layers \in Nat /\ layer + 1 <= Layers
  BY Sizes
<1> DEFINE h == TreeHeight
<1>2. layer * h \in Nat /\ (layer + 1) * h = layer * h + h /\ h \in Nat
  BY <1>1
<1>3. (layer + 1) * h <= Layers * h /\ Layers * h = h * Layers /\ Layers * h \in Nat
  BY <1>1
<1> HIDE DEF h
<1>4. (layer + 1) * h <= Bits
  BY <1>3 DEF Bits, h
<1>5. Bits \in Nat
  BY BitPowers
<1> QED
  BY <1>1, <1>2, <1>4, <1>5 DEF h

\* Shifts one after the other.
LEMMA ShrSum ==
  ASSUME NEW x \in Nat, NEW a \in Nat, NEW b \in Nat, a + b <= Bits
  PROVE  Shr(x, a) \in Nat /\ Shr(x, a + b) = Shr(Shr(x, a), b)
<1> DEFINE A == 2^a
           B == 2^b
           q == x \div A
           r == q \div B
<1>1. a \in 0 .. Bits /\ b \in 0 .. Bits
  BY BitPowers
<1>2. A \in Nat \ {0} /\ B \in Nat \ {0} /\ 2^(a + b) = A * B
  BY <1>1, BitPowers
<1>3. Shr(x, a) = q /\ Shr(Shr(x, a), b) = r /\ Shr(x, a + b) = x \div 2^(a + b)
  BY DEF Shr
<1> HIDE DEF A, B
<1>4. q \in Nat /\ q * A <= x /\ x < (q + 1) * A
  <2>1. x \in Int /\ x % A \in 0 .. A - 1 /\ x = q * A + (x % A) /\ q \in Int
    BY <1>2, Chain!DivMod
  <2>2. q \in Nat
    BY <1>2
  <2> HIDE DEF q
  <2> QED
    BY <1>2, <2>1, <2>2
<1> HIDE DEF q
<1>5. r \in Nat /\ r * B <= q /\ q + 1 <= (r + 1) * B
  <2>1. q \in Int /\ q % B \in 0 .. B - 1 /\ q = r * B + (q % B) /\ r \in Int
    BY <1>2, <1>4, Chain!DivMod
  <2>2. r \in Nat
    BY <1>2, <1>4
  <2> HIDE DEF r
  <2> QED
    BY <1>2, <1>4, <2>1, <2>2
<1> HIDE DEF r
<1>6. A * B \in Nat \ {0}
  BY <1>2
<1>7. r * (A * B) <= x
  <2>1. r * (A * B) = (r * B) * A
    BY <1>2, <1>5
  <2>2. (r * B) * A <= q * A
    BY <1>2, <1>4, <1>5
  <2>3. (r * B) * A \in Nat /\ q * A \in Nat
    BY <1>2, <1>4, <1>5
  <2> QED
    BY <1>4, <2>1, <2>2, <2>3
<1>8. x < (r + 1) * (A * B)
  <2>1. (r + 1) * (A * B) = ((r + 1) * B) * A
    BY <1>2, <1>5
  <2>2. (q + 1) * A <= ((r + 1) * B) * A
    BY <1>2, <1>4, <1>5
  <2>3. (q + 1) * A \in Nat /\ ((r + 1) * B) * A \in Nat
    BY <1>2, <1>4, <1>5
  <2> QED
    BY <1>4, <2>1, <2>2, <2>3
<1>9. x \div (A * B) = r
  <2>1. x \in Int /\ r \in Int
    BY <1>5
  <2> DEFINE b2 == A * B
  <2>2. b2 \in Nat \ {0} /\ r * b2 <= x /\ x < (r + 1) * b2
    BY <1>6, <1>7, <1>8
  <2> HIDE DEF b2
  <2>3. x \div b2 = r
    BY <2>1, <2>2, Chain!DivUnique
  <2> QED
    BY <2>3 DEF b2
<1> QED
  BY <1>2, <1>3, <1>4, <1>9

\* The bits from m on of the next number.
LEMMA ShrNext ==
  ASSUME NEW x \in Nat, NEW m \in 0 .. Bits
  PROVE  Shr(x + 1, m) = IF Low(x + 1, m) = 0 THEN Shr(x, m) + 1 ELSE Shr(x, m)
<1> DEFINE b == 2^m
           q == x \div b
           r == x % b
<1>1. b \in Nat \ {0}
  BY BitPowers
<1>2. Shr(x, m) = q /\ Shr(x + 1, m) = (x + 1) \div b /\ Low(x + 1, m) = (x + 1) % b
  BY DEF Shr, Low
<1> HIDE DEF b
<1>3. q \in Int /\ r \in 0 .. b - 1 /\ x = q * b + r
  <2>1. x \in Int
    OBVIOUS
  <2> QED
    BY <1>1, <2>1, Chain!DivMod
<1> HIDE DEF q, r
<1>4. x + 1 \in Int /\ q + 1 \in Int /\ q * b \in Int /\ (q + 1) * b = q * b + b
  BY <1>1, <1>3
<1>5. CASE r + 1 < b
  <2>1. q * b <= x + 1 /\ x + 1 < (q + 1) * b /\ (x + 1) - q * b = r + 1
    BY <1>1, <1>3, <1>4, <1>5
  <2>2. (x + 1) \div b = q /\ (x + 1) % b = (x + 1) - q * b
    BY <1>1, <1>3, <1>4, <2>1, Chain!DivUnique
  <2>3. r + 1 # 0
    BY <1>1, <1>3
  <2> QED
    BY <1>2, <2>1, <2>2, <2>3
<1>6. CASE r + 1 = b
  <2>1. x + 1 = (q + 1) * b
    BY <1>1, <1>3, <1>4, <1>6
  <2>2. (q + 1) * b \in Int /\ ((q + 1) + 1) * b = (q + 1) * b + b
    BY <1>1, <1>3
  <2>3. (q + 1) * b <= x + 1 /\ x + 1 < ((q + 1) + 1) * b
    BY <1>1, <1>4, <2>1, <2>2
  <2>4. (x + 1) \div b = q + 1 /\ (x + 1) % b = (x + 1) - (q + 1) * b
    BY <1>1, <1>4, <2>3, Chain!DivUnique
  <2>5. (x + 1) - (q + 1) * b = 0
    BY <1>4, <2>1
  <2> QED
    BY <1>2, <2>4, <2>5
<1> QED
  BY <1>1, <1>3, <1>5, <1>6

\* The place of an index in a layer.
LEMMA IndexAt ==
  ASSUME NEW i \in 0 .. Last, NEW layer \in 0 .. Layers - 1
  PROVE  /\ i \in Nat /\ layer \in Nat
         /\ LeafOf(i, layer) \in 0 .. 2^TreeHeight - 1
         /\ TreeOf(i, layer) \in Nat
         /\ <<layer, TreeOf(i, layer)>> \in AllTrees
         /\ layer = Layers - 1 => TreeOf(i, layer) = 0
<1> DEFINE m == (layer + 1) * TreeHeight
           n == TreeHeight * (Layers - 1)
           k == layer * TreeHeight
<1>1. /\ k \in 0 .. Bits /\ m \in 0 .. Bits /\ Bits \in Nat
      /\ TreeHeight \in Nat /\ Layers \in Nat \ {0}
  BY LayerBits, BitPowers, Sizes
<1>2. layer \in Nat
  BY <1>1
<1>3. n \in Nat /\ n <= Bits /\ Bits - m \in Nat /\ Bits - m <= n
  <2>1. n = Bits - TreeHeight /\ n \in Nat
    BY <1>1 DEF Bits
  <2>2. m >= TreeHeight
    BY <1>1, <1>2
  <2> HIDE DEF m, n
  <2> QED
    BY <1>1, <2>1, <2>2
<1>4. TreeHeight \in 0 .. Bits
  BY <1>1, <1>3 DEF Bits
<1>5. i \in Nat /\ i < 2^Bits
  <2>1. 2^Bits \in Nat
    BY <1>1, BitPowers
  <2> QED
    BY <2>1 DEF Last, Bits
<1> HIDE DEF m, n, k
<1>6. LeafOf(i, layer) \in 0 .. 2^TreeHeight - 1
  <2> DEFINE x == Shr(i, k)
             b == 2^TreeHeight
  <2>1. x \in Nat
    <3>1. k \in Nat /\ 0 \in Nat /\ k + 0 <= Bits
      BY <1>1
    <3> QED
      BY <1>5, <3>1, ShrSum
  <2>2. b \in Nat \ {0}
    BY <1>4, BitPowers
  <2>3. LeafOf(i, layer) = x % b
    BY DEF LeafOf, Low, k
  <2> HIDE DEF x, b
  <2>4. x % b \in 0 .. b - 1
    BY <2>1, <2>2
  <2> QED
    BY <2>3, <2>4 DEF b
<1>7. TreeOf(i, layer) \in Nat /\ TreeOf(i, layer) < 2^(Bits - m)
  <2> DEFINE a == 2^m
             b == 2^(Bits - m)
             q == i \div a
  <2>1. m \in Nat /\ m + (Bits - m) = Bits /\ Bits - m \in 0 .. Bits
    BY <1>1, <1>3
  <2>2. 2^(m + (Bits - m)) = 2^m * 2^(Bits - m)
    BY <1>1, <1>3, <2>1, BitPowers
  <2>3. a \in Nat \ {0} /\ b \in Nat \ {0} /\ 2^Bits = a * b
    BY <1>1, <2>1, <2>2, BitPowers
  <2>4. TreeOf(i, layer) = q
    BY DEF TreeOf, Shr, m
  <2> HIDE DEF a, b
  <2>5. q \in Nat /\ q * a <= i
    <3>1. q \in Int /\ i % a \in 0 .. a - 1 /\ i = q * a + (i % a)
      <4>1. i \in Int /\ a \in Nat \ {0}
        BY <1>5, <2>3
      <4> QED
        BY <4>1, Chain!DivMod
    <3>2. q \in Nat
      BY <1>5, <2>3
    <3> HIDE DEF q
    <3> QED
      BY <1>5, <2>3, <3>1, <3>2
  <2> HIDE DEF q
  <2>6. q < b
    <3>1. q * a < b * a
      <4>1. a * b = b * a /\ a * b \in Nat /\ q * a \in Nat
        BY <2>3, <2>5
      <4> QED
        BY <1>5, <2>3, <2>5, <4>1
    <3> QED
      BY <2>3, <2>5, <3>1
  <2> QED
    BY <2>4, <2>5, <2>6 DEF b
<1>8. 2^(Bits - m) <= Trees
  <2> DEFINE b == 2^(Bits - m)
             c == 2^(n - (Bits - m))
  <2>1. /\ Bits - m \in Nat /\ n - (Bits - m) \in Nat /\ (Bits - m) + (n - (Bits - m)) = n
        /\ Bits - m \in 0 .. Bits /\ n - (Bits - m) \in 0 .. Bits
    BY <1>1, <1>3
  <2>2. 2^((Bits - m) + (n - (Bits - m))) = b * c
    BY <1>3, <2>1, BitPowers
  <2>3. b \in Nat \ {0} /\ c \in Nat \ {0}
    BY <2>1, BitPowers
  <2>4. Trees = b * c
    BY <2>1, <2>2 DEF Trees, n
  <2> HIDE DEF b, c
  <2>5. b <= b * c
    BY <2>3
  <2> QED
    BY <2>4, <2>5 DEF b
<1>9. <<layer, TreeOf(i, layer)>> \in AllTrees
  <2>1. Trees \in Nat
    <3>1. n \in 0 .. Bits
      BY <1>1, <1>3
    <3> QED
      BY <3>1, BitPowers DEF Trees, n
  <2>2. 2^(Bits - m) \in Nat
    <3>1. Bits - m \in 0 .. Bits
      BY <1>1, <1>3
    <3> QED
      BY <3>1, BitPowers
  <2>3. TreeOf(i, layer) \in 0 .. Trees - 1
    BY <1>7, <1>8, <2>1, <2>2
  <2> QED
    BY <2>3 DEF AllTrees
<1>10. ASSUME layer = Layers - 1
       PROVE  TreeOf(i, layer) = 0
  <2>1. Bits - m = 0
    <3>1. m = Bits
      BY <1>1, <1>10 DEF Bits, m
    <3> QED
      BY <1>1, <3>1
  <2> DEFINE d == Bits - m
  <2>2. d = 0 /\ TreeOf(i, layer) < 2^d
    BY <1>7, <2>1
  <2> HIDE DEF d
  <2>3. TreeOf(i, layer) < 2^0
    BY <2>2
  <2> QED
    BY <1>7, <2>3
<1> QED
  BY <1>2, <1>5, <1>6, <1>7, <1>9, <1>10

\* Index 0 is leaf 0 of tree 0 in all layers.
LEMMA IndexZero ==
  ASSUME NEW layer \in 0 .. Layers - 1
  PROVE  LeafOf(0, layer) = 0 /\ TreeOf(0, layer) = 0
<1>1. ASSUME NEW b \in Nat \ {0}
      PROVE  0 \div b = 0 /\ 0 % b = 0
  BY <1>1
<1>2. /\ 2^(layer * TreeHeight) \in Nat \ {0} /\ 2^((layer + 1) * TreeHeight) \in Nat \ {0}
  BY LayerBits, BitPowers
<1>3. 2^TreeHeight \in Nat \ {0}
  <2>1. TreeHeight \in 0 .. TreeHeight + 1
    BY Sizes
  <2> QED
    BY <2>1, CoreAssumed, Core!Powers
<1> QED
  BY <1>1, <1>2, <1>3 DEF LeafOf, TreeOf, Shr, Low

\* What layer k + 1 signs depends on the tree of layer k only.
LEMMA SameAbove ==
  ASSUME NEW i \in Nat, NEW j \in Nat, NEW k \in 0 .. Layers - 2, TreeOf(i, k) = TreeOf(j, k)
  PROVE  WotsAt(i, k + 1) = WotsAt(j, k + 1)
<1> DEFINE m == (k + 1) * TreeHeight
<1>1. k \in 0 .. Layers - 1 /\ k + 1 \in 0 .. Layers - 1 /\ (k + 1) - 1 = k /\ k + 1 # 0
  BY Sizes
<1>2. Shr(i, m) = Shr(j, m)
  BY DEF TreeOf
<1>3. /\ m \in Nat /\ TreeHeight \in Nat /\ ((k + 1) + 1) * TreeHeight = m + TreeHeight
      /\ m + TreeHeight <= Bits
  <2>1. /\ (k + 1) * TreeHeight \in Nat
        /\ ((k + 1) + 1) * TreeHeight = (k + 1) * TreeHeight + TreeHeight
        /\ ((k + 1) + 1) * TreeHeight <= Bits
    BY <1>1, LayerBits
  <2> QED
    BY <2>1, Sizes
<1>4. LeafOf(i, k + 1) = LeafOf(j, k + 1)
  BY <1>2 DEF LeafOf
<1> HIDE DEF m
<1>5. TreeOf(i, k + 1) = TreeOf(j, k + 1)
  <2>1. /\ Shr(i, m + TreeHeight) = Shr(Shr(i, m), TreeHeight)
        /\ Shr(j, m + TreeHeight) = Shr(Shr(j, m), TreeHeight)
    BY <1>3, ShrSum
  <2> QED
    BY <1>2, <1>3, <2>1 DEF TreeOf
<1>6. MessageAt(i, k + 1) = MessageAt(j, k + 1)
  BY <1>1 DEF MessageAt, SubtreeAt
<1> QED
  BY <1>4, <1>5, <1>6 DEF WotsAt, SubtreeAt

\* What is signed has a number.
LEMMA MessageNumber ==
  ASSUME NEW i \in 0 .. Last, NEW layer \in 0 .. Layers - 1
  PROVE  Number(MessageAt(i, layer)) \in Nat
<1>1. CASE layer = 0
  <2>1. i \in Nat
    BY IndexAt
  <2> QED
    BY <1>1, <2>1 DEF MessageAt, Digest, Number
<1>2. CASE layer # 0
  <2> DEFINE k == layer - 1
             s == SubtreeAt(i, k)
  <2>1. k \in 0 .. Layers - 1
    BY <1>2, Sizes
  <2>2. k \in Nat /\ TreeOf(i, k) \in Nat
    BY <2>1, IndexAt
  <2>3. s[1] = k /\ s[3] = TreeOf(i, k) % Word
    BY DEF SubtreeAt, Words
  <2>4. s[1] \in Nat /\ s[3] \in Nat
    BY <2>2, <2>3, Sizes
  <2>5. MessageAt(i, layer) = Public(At(s, HASHTREE, 0, TreeHeight - 1, 0))
    BY <1>2, Sizes DEF MessageAt, RootOf, NodeValue
  <2> DEFINE a == At(s, HASHTREE, 0, TreeHeight - 1, 0)
  <2>6. a[0] = s[1] /\ a[2] = s[3]
    BY AtWords
  <2> HIDE DEF a, s
  <2>7. Number(Public(a)) = a[0] + a[2]
    BY DEF Number, Public
  <2> QED
    BY <2>4, <2>5, <2>6, <2>7 DEF a
<1> QED
  BY <1>1, <1>2

-----------------------------------------------------------------------------
(* xmssmt_core_sign.                                                       *)

\* An address is moved to a tree.
LEMMA PlaceSet ==
  ASSUME NEW a, IsAddr(a), NEW layer, NEW tree,
         NEW b, b = set_tree_addr(set_layer_addr(a, layer), tree)
  PROVE  InTree(b, Words(layer, tree), a[3], a[4])
<1> DEFINE c == [a EXCEPT ![0] = layer]
           d == [c EXCEPT ![1] = (tree \div Word) % Word]
           e == [d EXCEPT ![2] = tree % Word]
<1>1. IsAddr(c) /\ c[0] = layer /\ \A u \in 0 .. 7 \ {0} : c[u] = a[u]
  BY WordSet
<1>2. b = e
  BY DEF set_tree_addr, set_layer_addr
<1> HIDE DEF c
<1>3. IsAddr(d) /\ d[1] = (tree \div Word) % Word /\ \A u \in 0 .. 7 \ {1} : d[u] = c[u]
  BY <1>1, WordSet
<1> HIDE DEF d
<1>4. IsAddr(e) /\ e[2] = tree % Word /\ \A u \in 0 .. 7 \ {2} : e[u] = d[u]
  BY <1>3, WordSet
<1> HIDE DEF e
<1>5. e[0] = layer /\ e[1] = (tree \div Word) % Word /\ e[3] = a[3] /\ e[4] = a[4]
  BY <1>1, <1>3, <1>4
<1> QED
  BY <1>2, <1>4, <1>5 DEF InTree, Words, Triple

\* The addresses that are made anew.
LEMMA NewAddrIs ==
  ASSUME NEW type
  PROVE  /\ IsAddr(set_type(NewAddr, type)) /\ set_type(NewAddr, type)[3] = type
         /\ IsAddr(NewAddr) /\ NewAddr[3] = OTS /\ NewAddr[4] = 0
  BY DEF set_type, NewAddr, IsAddr, OTS

\* The calls in a tree are among all calls.
LEMMA CallsIn ==
  ASSUME NEW q \in AllTrees, NEW leaf \in 0 .. 2^TreeHeight - 1
  PROVE  /\ TreeCalls(q[1], q[2]) \subseteq AllCalls
         /\ SecretCalls(q[1], q[2], leaf) \union LeafCalls(Words(q[1], q[2]), leaf)
              \subseteq TreeCalls(q[1], q[2])
         /\ NodeCalls(Words(q[1], q[2])) \union LeafCalls(Words(q[1], q[2]), leaf)
              \subseteq PublicCalls(Words(q[1], q[2]))
<1>1. TreeCalls(q[1], q[2]) \subseteq AllCalls
  BY DEF AllCalls
<1>2. NodeCalls(Words(q[1], q[2])) \union LeafCalls(Words(q[1], q[2]), leaf)
        \subseteq PublicCalls(Words(q[1], q[2]))
  BY DEF PublicCalls
<1>3. SecretCalls(q[1], q[2], leaf) \subseteq TreeCalls(q[1], q[2])
  BY DEF TreeCalls
<1>4. PublicCalls(Words(q[1], q[2])) \subseteq TreeCalls(q[1], q[2])
  BY DEF TreeCalls
<1> QED
  BY <1>1, <1>2, <1>3, <1>4

\* What a one-time signature on some layer calls.
LEMMA SignIn ==
  ASSUME NEW layer, NEW tree, <<layer, tree>> \in AllTrees, NEW leaf \in 0 .. 2^TreeHeight - 1,
         NEW msg, NEW r, Signs(r, layer, tree, leaf, msg)
  PROVE  r.log \subseteq AllCalls
<1> DEFINE q == <<layer, tree>>
<1>1. q \in AllTrees /\ q[1] = layer /\ q[2] = tree
  OBVIOUS
<1> HIDE DEF q
<1>2. /\ TreeCalls(layer, tree) \subseteq AllCalls
      /\ SecretCalls(layer, tree, leaf) \union LeafCalls(Words(layer, tree), leaf)
           \subseteq TreeCalls(layer, tree)
  BY <1>1, CallsIn
<1> QED
  BY <1>2 DEF Signs, LeafCalls

LayerTurn(p, c, layer) ==
  LET tree == TreeOf(p[1], layer)
      leaf == LeafOf(p[1], layer)
      ots  == set_ots_addr(set_tree_addr(set_layer_addr(c.addr, layer), tree), leaf)
  IN  WithTree(c, wots_sign(ots, c.msg, <<layer, tree, leaf>>), layer, leaf, tree)

LayerPart(i, layer) ==
  [wots |-> WotsAt(i, layer), auth |-> AuthPath(SubtreeAt(i, layer), LeafOf(i, layer))]

LayerInv(p, c, n) ==
  /\ IsAddr(c.addr) /\ c.addr[3] = OTS
  /\ c.msg = MessageAt(p[1], n)
  /\ IsSeq(c.out, n) /\ \A j \in 1 .. n : c.out[j] = LayerPart(p[1], j - 1)
  /\ c.log \subseteq AllCalls
  /\ \A layer \in 0 .. n - 1 : PublicCalls(SubtreeAt(p[1], layer)) \subseteq c.log

Layering == INSTANCE LoopRules WITH Body <- LayerTurn, Inv <- LayerInv

\* A layer signs.
LEMMA LayerKeeps ==
  ASSUME NEW p, p[1] \in 0 .. Last, NEW c, NEW layer \in 0 .. Layers - 1, LayerInv(p, c, layer)
  PROVE  LayerInv(p, LayerTurn(p, c, layer), layer + 1)
<1> DEFINE i    == p[1]
           tree == TreeOf(i, layer)
           leaf == LeafOf(i, layer)
           s    == SubtreeAt(i, layer)
           b    == set_tree_addr(set_layer_addr(c.addr, layer), tree)
           ots  == set_ots_addr(b, leaf)
           w    == wots_sign(ots, c.msg, <<layer, tree, leaf>>)
           h    == treehash(w.addr, leaf, layer, tree)
           t    == LayerTurn(p, c, layer)
<1>1. /\ i \in Nat /\ layer \in Nat /\ leaf \in 0 .. 2^TreeHeight - 1
      /\ <<layer, tree>> \in AllTrees
  BY IndexAt
<1>2. s = Words(layer, tree)
  BY DEF SubtreeAt
<1>3. /\ t.addr = w.addr /\ t.msg = h.stack[1]
      /\ t.out = Append(c.out, [wots |-> w.out, auth |-> h.auth])
      /\ t.log = c.log \union w.log \union h.log
  BY DEF LayerTurn, WithTree, LayerSigned
<1>4. InTree(ots, Words(layer, tree), OTS, leaf)
  <2>1. InTree(b, Words(layer, tree), c.addr[3], c.addr[4])
    BY PlaceSet DEF LayerInv
  <2>2. c.addr[3] = OTS
    BY DEF LayerInv
  <2> HIDE DEF b
  <2> QED
    BY <2>1, <2>2, LastWordsSet
<1>5. c.msg = MessageAt(i, layer)
  BY DEF LayerInv
<1>6. Number(c.msg) \in Nat
  BY <1>5, MessageNumber
<1>7. w = wots_sign(ots, c.msg, <<layer, tree, leaf>>) /\ h = treehash(w.addr, leaf, layer, tree)
  OBVIOUS
<1> HIDE DEF tree, leaf, s, ots, w, h, t
<1>8. Signs(w, layer, tree, leaf, c.msg)
  BY <1>4, <1>6, <1>7, SignIs
<1>9. TreeFound(h, layer, tree, leaf)
  <2>1. Within(w.addr, Words(layer, tree))
    BY <1>8 DEF Signs, InTree, Within
  <2> QED
    BY <1>1, <1>7, <2>1, TreehashIs
<1>10. IsAddr(t.addr) /\ t.addr[3] = OTS
  BY <1>3, <1>8 DEF Signs, InTree
<1>11. t.msg = MessageAt(i, layer + 1)
  <2>1. layer + 1 # 0 /\ (layer + 1) - 1 = layer
    BY <1>1
  <2>2. h.stack[1] = RootOf(s)
    BY <1>2, <1>9 DEF TreeFound
  <2> QED
    BY <1>3, <2>1, <2>2 DEF MessageAt, s
<1>12. Longer(t.out, c.out, layer, LayerPart(i, layer))
  <2>1. w.out = WotsAt(i, layer)
    BY <1>2, <1>5, <1>8 DEF Signs, WotsAt, s, leaf
  <2>2. h.auth = AuthPath(s, leaf)
    BY <1>2, <1>9 DEF TreeFound
  <2>3. [wots |-> w.out, auth |-> h.auth] = LayerPart(i, layer)
    BY <2>1, <2>2 DEF LayerPart, s, leaf
  <2>4. IsSeq(c.out, layer)
    BY DEF LayerInv
  <2>5. t.out = Append(c.out, LayerPart(i, layer))
    BY <1>3, <2>3
  <2> QED
    BY <2>4, <2>5, AppendIs
<1>13. IsSeq(t.out, layer + 1) /\ \A j \in 1 .. layer + 1 : t.out[j] = LayerPart(i, j - 1)
  <2>1. ASSUME NEW j \in 1 .. layer + 1
        PROVE  t.out[j] = LayerPart(i, j - 1)
    <3>1. CASE j = layer + 1
      <4>1. j - 1 = layer
        BY <1>1, <3>1
      <4> QED
        BY <1>12, <3>1, <4>1 DEF Longer
    <3>2. CASE j # layer + 1
      <4>1. j \in 1 .. layer
        BY <1>1, <3>2
      <4>2. c.out[j] = LayerPart(i, j - 1)
        BY <4>1 DEF LayerInv
      <4> QED
        BY <1>12, <4>1, <4>2 DEF Longer
    <3> QED
      BY <3>1, <3>2
  <2> QED
    BY <1>12, <2>1 DEF Longer
<1>14. t.log \subseteq AllCalls
  <2>1. w.log \subseteq AllCalls
    BY <1>1, <1>8, SignIn
  <2>2. h.log \subseteq AllCalls
    BY <1>1, <1>9 DEF TreeFound, AllCalls
  <2>3. c.log \subseteq AllCalls
    BY DEF LayerInv
  <2> QED
    BY <1>3, <2>1, <2>2, <2>3
<1>15. ASSUME NEW l \in 0 .. (layer + 1) - 1
       PROVE  PublicCalls(SubtreeAt(i, l)) \subseteq t.log
  <2>1. CASE l = layer
    <3>1. PublicCalls(SubtreeAt(i, l)) \subseteq h.log
      BY <1>2, <1>9, <2>1 DEF TreeFound, s
    <3> QED
      BY <1>3, <3>1
  <2>2. CASE l # layer
    <3>1. l \in 0 .. layer - 1
      BY <1>1, <2>2
    <3>2. PublicCalls(SubtreeAt(i, l)) \subseteq c.log
      BY <3>1 DEF LayerInv
    <3> QED
      BY <1>3, <3>2
  <2> QED
    BY <2>1, <2>2
<1>16. LayerInv(p, t, layer + 1)
  BY <1>10, <1>11, <1>13, <1>14, <1>15 DEF LayerInv
<1> QED
  BY <1>16 DEF t

\* The signature of the reference implementation, and the calls it made.
CoreSigned(r, i) ==
  /\ r.out = SignatureAt(i) /\ r.log \subseteq AllCalls
  /\ \A layer \in 0 .. Layers - 1 : PublicCalls(SubtreeAt(i, layer)) \subseteq r.log

LEMMA SignatureIs ==
  ASSUME NEW i \in 0 .. Last
  PROVE  CoreSigned(Signature(i), i)
<1> DEFINE p    == <<i>>
           zero == [addr |-> set_type(NewAddr, OTS), msg |-> Digest(i), out |-> << >>, log |-> {}]
           done == Layering!TheFor(p, Layers, zero)
<1>1. p[1] = i
  OBVIOUS
<1>2. Layers \in Nat
  BY Sizes
<1> HIDE DEF p
<1>3. Signature(i) = done
  <2>1. Signature(p[1]) = done
    BY <1>1 DEF Signature, LayerTurn, For, Layering!TheFor, Layering!For
  <2> QED
    BY <1>1, <2>1
<1>4. LayerInv(p, zero, 0)
  <2>1. IsAddr(zero.addr) /\ zero.addr[3] = OTS
    BY NewAddrIs
  <2>2. zero.msg = MessageAt(p[1], 0)
    BY <1>1 DEF MessageAt
  <2>3. IsSeq(zero.out, 0) /\ zero.log = {}
    BY DEF IsSeq
  <2> HIDE DEF zero
  <2> QED
    BY <2>1, <2>2, <2>3 DEF LayerInv
<1> HIDE DEF zero
<1>5. LayerInv(p, done, Layers)
  <2>1. ASSUME NEW c, NEW layer \in 0 .. Layers - 1, LayerInv(p, c, layer)
        PROVE  LayerInv(p, LayerTurn(p, c, layer), layer + 1)
    BY <1>1, <2>1, LayerKeeps
  <2> QED
    BY <1>2, <1>4, <2>1, Layering!ForRule
<1> HIDE DEF done
<1>6. done.out = SignatureAt(i)
  <2>1. done.out = [j \in 1 .. Layers |-> done.out[j]]
    BY <1>5 DEF LayerInv, IsSeq
  <2>2. \A j \in 1 .. Layers : done.out[j] = LayerPart(i, j - 1)
    BY <1>1, <1>5 DEF LayerInv
  <2> QED
    BY <2>1, <2>2 DEF SignatureAt, LayerPart
<1> QED
  BY <1>1, <1>3, <1>5, <1>6 DEF LayerInv, CoreSigned

-----------------------------------------------------------------------------
(* What the fast implementation signs.                                     *)

\* Only the layer of an address changes.
LEMMA LayerSet ==
  ASSUME NEW a, NEW layer, NEW tree, NEW type, NEW x, InTree(a, Words(layer, tree), type, x),
         NEW up
  PROVE  InTree(set_layer_addr(a, up), Words(up, tree), type, x)
<1> DEFINE b == [a EXCEPT ![0] = up]
<1>1. IsAddr(a)
  BY DEF InTree
<1>2. IsAddr(b) /\ b[0] = up /\ \A u \in 0 .. 7 \ {0} : b[u] = a[u]
  BY <1>1, WordSet
<1>3. set_layer_addr(a, up) = b
  BY DEF set_layer_addr
<1> HIDE DEF b
<1> QED
  BY <1>2, <1>3 DEF InTree, Words, Triple

\* The address without anything set is in tree 0 of layer 0.
LEMMA ZeroAddrIs == InTree(NewAddr, Words(0, 0), OTS, 0)
<1>1. 0 % Word = 0 /\ 0 \div Word = 0
  BY Sizes
<1>2. Words(0, 0) = <<0, 0, 0>>
  BY <1>1 DEF Words
<1> QED
  BY <1>2, NewAddrIs DEF InTree, Triple, NewAddr

\* The root of a tree is signed.
RootMade(r, up, tree, leaf, msg) ==
  /\ InTree(r.addr, Words(up, tree), OTS, leaf)
  /\ r.out = WotsSignature(Words(up, tree), leaf, msg) /\ r.log \subseteq AllCalls

LEMMA RootSignedIs ==
  ASSUME NEW layer, NEW below, <<layer, below>> \in AllTrees,
         NEW up, NEW tree, <<up, tree>> \in AllTrees, NEW leaf \in 0 .. 2^TreeHeight - 1,
         NEW first, NEW t, TreeFound(t, layer, below, first),
         NEW msg, msg = RootOf(Words(layer, below)), Number(msg) \in Nat,
         NEW addr, InTree(addr, Words(up, tree), OTS, leaf),
         NEW who, who = <<up, tree, leaf>>
  PROVE  RootMade(RootSigned(addr, t, who), up, tree, leaf, msg)
<1> DEFINE w == wots_sign(addr, t.stack[1], who)
           r == RootSigned(addr, t, who)
<1>1. t.stack[1] = msg /\ t.log \subseteq TreeCalls(layer, below)
  BY DEF TreeFound
<1>2. Signs(w, up, tree, leaf, msg)
  BY <1>1, SignIs
<1>3. r = [w EXCEPT !.log = @ \union t.log]
  BY DEF RootSigned, Logged
<1> HIDE DEF w, r
<1>4. r.addr = w.addr /\ r.out = w.out /\ r.log = w.log \union t.log
  BY <1>2, <1>3 DEF Signs, IsState
<1>5. w.log \subseteq AllCalls
  BY <1>2, SignIn
<1>6. t.log \subseteq AllCalls
  BY <1>1 DEF AllCalls
<1>7. RootMade(r, up, tree, leaf, msg)
  BY <1>2, <1>4, <1>5, <1>6 DEF RootMade, Signs
<1> QED
  BY <1>7 DEF r

FirstTurn(p, c, i) ==
  Appended(c, RootSigned(set_layer_addr(c.addr, i + 1), treehash(c.addr, 0, i, 0), <<i + 1, 0, 0>>))

FirstInv(p, c, n) ==
  /\ InTree(c.addr, Words(n, 0), OTS, 0)
  /\ IsSeq(c.out, n) /\ \A j \in 1 .. n : c.out[j] = WotsAt(0, j)
  /\ c.log \subseteq AllCalls

First == INSTANCE LoopRules WITH Body <- FirstTurn, Inv <- FirstInv

\* There is an index 0, and a leaf 0.
LEMMA ZeroIn == 0 \in 0 .. Last /\ 0 \in 0 .. 2^TreeHeight - 1
<1>1. 2^Bits \in Nat \ {0}
  <2>1. Bits \in 0 .. Bits
    BY BitPowers
  <2> QED
    BY <2>1, BitPowers
<1>2. 2^TreeHeight \in Nat \ {0}
  <2>1. TreeHeight \in 0 .. TreeHeight + 1
    BY Sizes
  <2> QED
    BY <2>1, CoreAssumed, Core!Powers
<1> QED
  BY <1>1, <1>2 DEF Last, Bits

\* The first tree of a layer is signed.
LEMMA FirstKeeps ==
  ASSUME NEW p, NEW c, NEW i \in 0 .. (Layers - 1) - 1, FirstInv(p, c, i)
  PROVE  FirstInv(p, FirstTurn(p, c, i), i + 1)
<1> DEFINE t   == treehash(c.addr, 0, i, 0)
           up  == set_layer_addr(c.addr, i + 1)
           r   == RootSigned(up, t, <<i + 1, 0, 0>>)
           u   == FirstTurn(p, c, i)
           msg == RootOf(Words(i, 0))
<1>1. i \in Nat /\ i \in 0 .. Layers - 1 /\ i + 1 \in 0 .. Layers - 1 /\ (i + 1) - 1 = i /\ i + 1 # 0
  BY Sizes
<1>2. /\ TreeOf(0, i) = 0 /\ TreeOf(0, i + 1) = 0 /\ LeafOf(0, i + 1) = 0
  BY <1>1, IndexZero
<1>3. <<i, 0>> \in AllTrees /\ <<i + 1, 0>> \in AllTrees
  BY <1>1, <1>2, IndexAt, ZeroIn
<1>4. msg = MessageAt(0, i + 1)
  BY <1>1, <1>2 DEF MessageAt, SubtreeAt
<1>5. Number(msg) \in Nat
  BY <1>1, <1>4, MessageNumber, ZeroIn
<1>6. t = treehash(c.addr, 0, i, 0) /\ u = Appended(c, r)
  BY DEF FirstTurn
<1> HIDE DEF t, u, msg
<1>7. TreeFound(t, i, 0, 0)
  <2>1. Within(c.addr, Words(i, 0))
    BY DEF FirstInv, InTree, Within
  <2> QED
    BY <1>6, <2>1, TreehashIs, ZeroIn
<1>8. InTree(up, Words(i + 1, 0), OTS, 0)
  BY LayerSet DEF FirstInv
<1> HIDE DEF up
<1>9. RootMade(r, i + 1, 0, 0, msg)
  <2> DEFINE who == <<i + 1, 0, 0>>
             k   == i + 1
  <2>1. who = <<k, 0, 0>> /\ <<k, 0>> \in AllTrees /\ InTree(up, Words(k, 0), OTS, 0)
    BY <1>3, <1>8
  <2>2. r = RootSigned(up, t, who)
    OBVIOUS
  <2>3. msg = RootOf(Words(i, 0))
    BY DEF msg
  <2> HIDE DEF who, k, r
  <2>4. RootMade(RootSigned(up, t, who), k, 0, 0, msg)
    BY <1>3, <1>5, <1>7, <2>1, <2>3, RootSignedIs, ZeroIn
  <2> QED
    BY <2>2, <2>4 DEF k
<1> HIDE DEF r
<1>10. OneMore(u, c, r, i)
  BY <1>6, AppendedIs DEF FirstInv
<1>11. r.out = WotsAt(0, i + 1)
  BY <1>2, <1>4, <1>9 DEF RootMade, WotsAt, SubtreeAt
<1>12. Longer(u.out, c.out, i, WotsAt(0, i + 1))
  BY <1>10, <1>11 DEF OneMore
<1>13. IsSeq(u.out, i + 1) /\ \A j \in 1 .. i + 1 : u.out[j] = WotsAt(0, j)
  <2>1. \A j \in 1 .. i + 1 : j = i + 1 \/ j \in 1 .. i
    BY <1>1
  <2> QED
    BY <1>12, <2>1 DEF Longer, FirstInv
<1>14. InTree(u.addr, Words(i + 1, 0), OTS, 0) /\ u.log \subseteq AllCalls
  BY <1>9, <1>10 DEF OneMore, RootMade, FirstInv
<1>15. FirstInv(p, u, i + 1)
  BY <1>13, <1>14 DEF FirstInv
<1> QED
  BY <1>15 DEF u

\* What key generation stores: the signatures on the first roots.
StoredFor(i) == [j \in 1 .. Layers - 1 |-> WotsAt(i, j)]

LEMMA FirstSignaturesAre ==
  FirstSignatures.out = StoredFor(0) /\ FirstSignatures.log \subseteq AllCalls
<1> DEFINE p    == << >>
           zero == [addr |-> set_layer_addr(NewAddr, 0), out |-> << >>, log |-> {}]
           done == First!TheFor(p, Layers - 1, zero)
<1>1. FirstSignatures = done
  BY DEF FirstSignatures, FirstTurn, For, First!TheFor, First!For
<1>2. Layers - 1 \in Nat
  BY Sizes
<1> HIDE DEF p
<1>3. FirstInv(p, zero, 0)
  <2>1. InTree(zero.addr, Words(0, 0), OTS, 0)
    BY ZeroAddrIs, LayerSet
  <2>2. IsSeq(zero.out, 0) /\ zero.log = {}
    BY DEF IsSeq
  <2> HIDE DEF zero
  <2> QED
    BY <2>1, <2>2 DEF FirstInv
<1> HIDE DEF zero
<1>4. FirstInv(p, done, Layers - 1)
  <2>1. ASSUME NEW c, NEW i \in 0 .. (Layers - 1) - 1, FirstInv(p, c, i)
        PROVE  FirstInv(p, FirstTurn(p, c, i), i + 1)
    BY <2>1, FirstKeeps
  <2> QED
    BY <1>2, <1>3, <2>1, First!ForRule
<1> HIDE DEF done
<1> QED
  BY <1>1, <1>4 DEF FirstInv, IsSeq, StoredFor

-----------------------------------------------------------------------------
(* A call of the fast implementation.                                      *)

RootsTurn(p, c, k) ==
  IF Low(p[1] + 1, (k + 1) * TreeHeight) # 0 THEN c
  ELSE Stored(c, k,
         RootSigned(ParentAddr(c.addr, p[1], k),
           treehash(set_tree_addr(set_layer_addr(NewAddr, k), TreeOf(p[1] + 1, k)),
                    0, k, TreeOf(p[1] + 1, k)),
           <<k + 1, TreeOf(p[1] + 1, k + 1), LeafOf(p[1] + 1, k + 1)>>))

RootsInv(p, c, n) ==
  /\ c = [addr |-> c.addr, wots |-> c.wots, stored |-> c.stored, log |-> c.log]
  /\ IsAddr(c.addr) /\ c.addr[3] = OTS
  /\ c.wots = WotsAt(p[1], 0) /\ c.log \subseteq AllCalls
  /\ c.stored = [j \in 1 .. Layers - 1 |-> IF j <= n THEN WotsAt(p[1] + 1, j) ELSE WotsAt(p[1], j)]

Rooting == INSTANCE LoopRules WITH Body <- RootsTurn, Inv <- RootsInv

\* Stored field by field.
StoredOn(t, c, k, w, n, f) ==
  /\ t = [addr |-> t.addr, wots |-> t.wots, stored |-> t.stored, log |-> t.log]
  /\ t.addr = w.addr /\ t.wots = c.wots /\ t.log = c.log \union w.log
  /\ t.stored = [j \in 1 .. n |-> IF j = k + 1 THEN w.out ELSE f[j]]

LEMMA StoredIs ==
  ASSUME NEW p, NEW i, NEW c, RootsInv(p, c, i),
         NEW n \in Nat, NEW f, c.stored = [j \in 1 .. n |-> f[j]], NEW k \in 0 .. n - 1,
         NEW w, NEW t, t = Stored(c, k, w)
  PROVE  StoredOn(t, c, k, w, n, f)
<1>1. PICK a, o, s, l : c = [addr |-> a, wots |-> o, stored |-> s, log |-> l]
  BY DEF RootsInv
<1>2. t = [addr |-> w.addr, wots |-> o, stored |-> [s EXCEPT ![k + 1] = w.out],
           log |-> l \union w.log]
  BY <1>1 DEF Stored
<1>3. c.wots = o /\ c.stored = s /\ c.log = l
  BY <1>1
<1>4. [s EXCEPT ![k + 1] = w.out] = [j \in 1 .. n |-> IF j = k + 1 THEN w.out ELSE f[j]]
  BY <1>3
<1> QED
  BY <1>2, <1>3, <1>4 DEF StoredOn

\* The tree of layer k has changed: the root of the new one is signed.
LEMMA NewRoot ==
  ASSUME NEW i \in 0 .. Last, i + 1 \in 0 .. Last, NEW k \in 0 .. Layers - 2,
         Low(i + 1, (k + 1) * TreeHeight) = 0, NEW addr, IsAddr(addr), addr[3] = OTS,
         NEW new, new = set_tree_addr(set_layer_addr(NewAddr, k), TreeOf(i + 1, k)),
         NEW t, t = treehash(new, 0, k, TreeOf(i + 1, k)),
         NEW who, who = <<k + 1, TreeOf(i + 1, k + 1), LeafOf(i + 1, k + 1)>>,
         NEW r, r = RootSigned(ParentAddr(addr, i, k), t, who)
  PROVE  IsAddr(r.addr) /\ r.addr[3] = OTS /\ r.out = WotsAt(i + 1, k + 1) /\ r.log \subseteq AllCalls
<1> DEFINE n     == i + 1
           up    == k + 1
           below == TreeOf(n, k)
           tree  == TreeOf(n, up)
           leaf  == LeafOf(n, up)
           b     == set_tree_addr(set_layer_addr(addr, up), tree)
           msg   == RootOf(Words(k, below))
<1>1. /\ k \in 0 .. Layers - 1 /\ up \in 0 .. Layers - 1 /\ up - 1 = k /\ up # 0 /\ n \in 0 .. Last
      /\ i \in Nat
  BY Sizes, IndexAt
<1>2. /\ <<k, below>> \in AllTrees /\ <<up, tree>> \in AllTrees /\ leaf \in 0 .. 2^TreeHeight - 1
  BY <1>1, IndexAt
<1>3. msg = MessageAt(n, up)
  BY <1>1 DEF MessageAt, SubtreeAt
<1>4. Number(msg) \in Nat
  BY <1>1, <1>3, MessageNumber
<1>5. leaf = Low(Shr(i, (k + 1) * TreeHeight) + 1, TreeHeight)
  <2>1. (k + 1) * TreeHeight \in 0 .. Bits
    BY <1>1, LayerBits
  <2>2. Shr(i + 1, (k + 1) * TreeHeight) = Shr(i, (k + 1) * TreeHeight) + 1
    BY <1>1, <2>1, ShrNext
  <2> QED
    BY <2>2 DEF LeafOf
<1>6. ParentAddr(addr, i, k) = set_ots_addr(b, leaf)
  BY <1>5 DEF ParentAddr
<1>7. who = <<up, tree, leaf>> /\ t = treehash(new, 0, k, below) /\ WotsAt(i + 1, k + 1) = WotsAt(n, up)
  OBVIOUS
<1>8. InTree(new, Words(k, below), OTS, 0)
  <2>1. IsAddr(NewAddr) /\ NewAddr[3] = OTS /\ NewAddr[4] = 0
    BY NewAddrIs
  <2>2. new = set_tree_addr(set_layer_addr(NewAddr, k), below)
    OBVIOUS
  <2> HIDE DEF below
  <2>3. InTree(new, Words(k, below), NewAddr[3], NewAddr[4])
    BY <2>1, <2>2, PlaceSet
  <2> QED
    BY <2>1, <2>3
<1>9. InTree(b, Words(up, tree), OTS, addr[4])
  <2> HIDE DEF tree, up
  <2>1. InTree(b, Words(up, tree), addr[3], addr[4])
    BY PlaceSet
  <2> QED
    BY <2>1
<1> DEFINE ots == set_ots_addr(b, leaf)
<1>10. InTree(ots, Words(up, tree), OTS, leaf)
  <2> HIDE DEF b, leaf, tree, up
  <2> QED
    BY <1>9, LastWordsSet
<1>11. r = RootSigned(ots, t, who)
  BY <1>6
<1>12. WotsAt(n, up) = WotsSignature(Words(up, tree), leaf, msg)
  BY <1>3 DEF WotsAt, SubtreeAt
<1>13. msg = RootOf(Words(k, below))
  OBVIOUS
<1> HIDE DEF n, up, below, tree, leaf, msg, ots
<1>14. TreeFound(t, k, below, 0)
  <2>1. Within(new, Words(k, below))
    BY <1>8 DEF InTree, Within
  <2> QED
    BY <1>7, <2>1, TreehashIs, ZeroIn
<1>15. RootMade(r, up, tree, leaf, msg)
  <2>1. RootMade(RootSigned(ots, t, who), up, tree, leaf, msg)
    BY <1>2, <1>4, <1>7, <1>10, <1>13, <1>14, RootSignedIs
  <2> QED
    BY <1>11, <2>1
<1> QED
  BY <1>7, <1>12, <1>15 DEF RootMade, InTree

\* A layer whose tree stays or changes.
LEMMA RootsKeeps ==
  ASSUME NEW p, p[1] \in 0 .. Last, p[1] + 1 \in 0 .. Last,
         NEW c, NEW k \in 0 .. (Layers - 1) - 1, RootsInv(p, c, k)
  PROVE  RootsInv(p, RootsTurn(p, c, k), k + 1)
<1> DEFINE i    == p[1]
           f    == [j \in 1 .. Layers - 1 |-> IF j <= k THEN WotsAt(i + 1, j) ELSE WotsAt(i, j)]
           new  == set_tree_addr(set_layer_addr(NewAddr, k), TreeOf(i + 1, k))
           t    == treehash(new, 0, k, TreeOf(i + 1, k))
           who  == <<k + 1, TreeOf(i + 1, k + 1), LeafOf(i + 1, k + 1)>>
           r    == RootSigned(ParentAddr(c.addr, i, k), t, who)
           u    == RootsTurn(p, c, k)
<1>1. /\ k \in 0 .. Layers - 2 /\ k \in 0 .. Layers - 1 /\ k \in Nat /\ Layers - 1 \in Nat
      /\ (Layers - 1) - 1 = Layers - 2
  BY Sizes
<1>2. i \in Nat /\ i + 1 \in Nat
  BY <1>1, IndexAt
<1>3. /\ c = [addr |-> c.addr, wots |-> c.wots, stored |-> c.stored, log |-> c.log]
      /\ IsAddr(c.addr) /\ c.addr[3] = OTS
      /\ c.wots = WotsAt(i, 0) /\ c.log \subseteq AllCalls /\ c.stored = f
  BY DEF RootsInv
<1>4. \A j \in 1 .. Layers - 1 : /\ j <= k + 1 <=> (j <= k \/ j = k + 1)
                                 /\ ~ (j = k + 1 /\ j <= k)
  BY <1>1
<1>5. CASE Low(i + 1, (k + 1) * TreeHeight) # 0
  <2>1. u = c
    BY <1>5 DEF RootsTurn
  <2>2. TreeOf(i + 1, k) = TreeOf(i, k)
    <3>1. (k + 1) * TreeHeight \in 0 .. Bits
      BY <1>1, LayerBits
    <3> QED
      BY <1>2, <1>5, <3>1, ShrNext DEF TreeOf
  <2>3. WotsAt(i + 1, k + 1) = WotsAt(i, k + 1)
    BY <1>1, <1>2, <2>2, SameAbove
  <2>4. f = [j \in 1 .. Layers - 1 |->
               IF j <= k + 1 THEN WotsAt(i + 1, j) ELSE WotsAt(i, j)]
    BY <1>4, <2>3
  <2> HIDE DEF f, u
  <2> QED
    BY <1>3, <2>1, <2>4 DEF RootsInv, u
<1>6. CASE Low(i + 1, (k + 1) * TreeHeight) = 0
  <2>1. u = Stored(c, k, r)
    BY <1>6 DEF RootsTurn
  <2>2. /\ new = set_tree_addr(set_layer_addr(NewAddr, k), TreeOf(i + 1, k))
        /\ t = treehash(new, 0, k, TreeOf(i + 1, k))
        /\ who = <<k + 1, TreeOf(i + 1, k + 1), LeafOf(i + 1, k + 1)>>
        /\ r = RootSigned(ParentAddr(c.addr, i, k), t, who)
    OBVIOUS
  <2> HIDE DEF new, t, who, r, u
  <2>3. /\ IsAddr(r.addr) /\ r.addr[3] = OTS /\ r.out = WotsAt(i + 1, k + 1)
        /\ r.log \subseteq AllCalls
    <3>1. IsAddr(c.addr) /\ c.addr[3] = OTS
      BY <1>3
    <3> QED
      BY <1>1, <1>6, <2>2, <3>1, NewRoot
  <2>4. /\ u = [addr |-> u.addr, wots |-> u.wots, stored |-> u.stored, log |-> u.log]
        /\ u.addr = r.addr /\ u.wots = c.wots /\ u.log = c.log \union r.log
        /\ u.stored = [j \in 1 .. Layers - 1 |-> IF j = k + 1 THEN r.out ELSE f[j]]
    <3>1. c.stored = [j \in 1 .. Layers - 1 |-> f[j]] /\ k \in 0 .. (Layers - 1) - 1
      BY <1>3
    <3> HIDE DEF f
    <3>2. StoredOn(u, c, k, r, Layers - 1, f)
      BY <1>1, <2>1, <3>1, StoredIs
    <3> QED
      BY <3>2 DEF StoredOn
  <2>5. u.stored = [j \in 1 .. Layers - 1 |->
                      IF j <= k + 1 THEN WotsAt(i + 1, j) ELSE WotsAt(i, j)]
    BY <1>4, <2>3, <2>4
  <2>6. u.log \subseteq AllCalls /\ u.wots = WotsAt(i, 0) /\ IsAddr(u.addr) /\ u.addr[3] = OTS
    BY <1>3, <2>3, <2>4
  <2>7. u = [addr |-> u.addr, wots |-> u.wots, stored |-> u.stored, log |-> u.log]
    BY <2>4
  <2>8. RootsInv(p, u, k + 1)
    BY <2>5, <2>6, <2>7 DEF RootsInv
  <2> QED
    BY <2>8 DEF u
<1> QED
  BY <1>5, <1>6

\* What a call signs, and what it stores for the next.
FastDone(r, i) ==
  /\ r.wots = WotsAt(i, 0) /\ r.stored = StoredFor(i + 1) /\ r.log \subseteq AllCalls

LEMMA RootsSignedIs ==
  ASSUME NEW i \in 0 .. Last, i + 1 \in 0 .. Last, stored = StoredFor(i), NEW low,
         Signs(low, 0, TreeOf(i, 0), LeafOf(i, 0), Digest(i))
  PROVE  FastDone(RootsSigned(i, low), i)
<1> DEFINE p    == <<i>>
           zero == [addr |-> low.addr, wots |-> low.out, stored |-> stored, log |-> low.log]
           done == Rooting!TheFor(p, Layers - 1, zero)
<1>1. p[1] = i
  OBVIOUS
<1>2. Layers - 1 \in Nat /\ 0 \in 0 .. Layers - 1
  BY Sizes
<1> HIDE DEF p
<1>3. RootsSigned(i, low) = done
  <2>1. RootsSigned(p[1], low) = done
    BY DEF RootsSigned, RootsTurn, For, Rooting!TheFor, Rooting!For
  <2> QED
    BY <1>1, <2>1
<1>4. RootsInv(p, zero, 0)
  <2>1. IsAddr(low.addr) /\ low.addr[3] = OTS
    BY DEF Signs, InTree
  <2>2. low.out = WotsAt(i, 0)
    BY DEF Signs, WotsAt, SubtreeAt, MessageAt
  <2>3. low.log \subseteq AllCalls
    BY <1>2, IndexAt, SignIn
  <2>4. \A j \in 1 .. Layers - 1 : ~ (j <= 0)
    OBVIOUS
  <2>5. stored = [j \in 1 .. Layers - 1 |-> IF j <= 0 THEN WotsAt(i + 1, j) ELSE WotsAt(i, j)]
    BY <2>4 DEF StoredFor
  <2>6. /\ zero.addr = low.addr /\ zero.wots = low.out /\ zero.stored = stored /\ zero.log = low.log
        /\ zero = [addr |-> zero.addr, wots |-> zero.wots, stored |-> zero.stored, log |-> zero.log]
    OBVIOUS
  <2> HIDE DEF zero
  <2> QED
    BY <1>1, <2>1, <2>2, <2>3, <2>5, <2>6 DEF RootsInv
<1> HIDE DEF zero
<1>5. RootsInv(p, done, Layers - 1)
  <2>1. ASSUME NEW c, NEW k \in 0 .. (Layers - 1) - 1, RootsInv(p, c, k)
        PROVE  RootsInv(p, RootsTurn(p, c, k), k + 1)
    BY <1>1, <2>1, RootsKeeps
  <2> QED
    BY <1>2, <1>4, <2>1, Rooting!ForRule
<1> HIDE DEF done
<1>6. done.stored = StoredFor(i + 1)
  <2>1. done.stored = [j \in 1 .. Layers - 1 |->
                         IF j <= Layers - 1 THEN WotsAt(i + 1, j) ELSE WotsAt(i, j)]
    BY <1>1, <1>5 DEF RootsInv
  <2>2. \A j \in 1 .. Layers - 1 : j <= Layers - 1
    BY <1>2
  <2> QED
    BY <2>1, <2>2 DEF StoredFor
<1> QED
  BY <1>1, <1>3, <1>5, <1>6 DEF RootsInv, FastDone

\* A call of the fast implementation before the last.
LEMMA FastCallIs ==
  ASSUME NEW i \in 0 .. Last, i + 1 \in 0 .. Last, stored = StoredFor(i)
  PROVE  FastDone(FastCall(i), i)
<1> DEFINE tree == TreeOf(i, 0)
           leaf == LeafOf(i, 0)
           a    == set_type(NewAddr, OTS)
           b    == set_tree_addr(set_layer_addr(a, 0), tree)
           ots  == set_ots_addr(b, leaf)
           who  == <<0, tree, leaf>>
           low  == wots_sign(ots, Digest(i), who)
<1>1. FastCall(i) = RootsSigned(i, low)
  BY DEF FastCall
<1>2. IsAddr(a) /\ a[3] = OTS
  BY NewAddrIs
<1>3. 0 \in 0 .. Layers - 1
  BY Sizes
<1>4. Number(Digest(i)) \in Nat
  <2>1. Digest(i) = MessageAt(i, 0)
    BY DEF MessageAt
  <2> QED
    BY <1>3, <2>1, MessageNumber
<1>5. b = set_tree_addr(set_layer_addr(a, 0), tree) /\ who = <<0, tree, leaf>>
  OBVIOUS
<1> HIDE DEF a, b, who
<1>6. InTree(b, Words(0, tree), OTS, a[4])
  <2> HIDE DEF tree
  <2>1. InTree(b, Words(0, tree), a[3], a[4])
    BY <1>2, <1>5, PlaceSet
  <2> QED
    BY <1>2, <2>1
<1>7. InTree(ots, Words(0, tree), OTS, leaf)
  <2> HIDE DEF tree, leaf
  <2> QED
    BY <1>6, LastWordsSet
<1>8. Signs(low, 0, tree, leaf, Digest(i))
  <2> HIDE DEF tree, leaf, ots
  <2> QED
    BY <1>4, <1>5, <1>7, SignIs
<1> HIDE DEF low
<1>9. FastDone(RootsSigned(i, low), i)
  BY <1>8, RootsSignedIs
<1> QED
  BY <1>1, <1>9

-----------------------------------------------------------------------------
(* The verifier.                                                           *)

OpenTurn(p, c, layer) ==
  LET Moved(addr) == set_tree_addr(set_layer_addr(addr, layer), TreeOf(p[1], layer))
      leaf == LeafOf(p[1], layer)
  IN  WithLeaf(c,
        wots_pk_from_sig(set_ots_addr(Moved(c.ots), leaf), p[2][layer + 1].wots, c.msg),
        set_ltree_addr(Moved(c.ltree), leaf), Moved(c.node), leaf, p[2][layer + 1].auth)

OpenInv(p, c, n) ==
  /\ IsAddr(c.ots) /\ c.ots[3] = OTS /\ IsAddr(c.ltree) /\ c.ltree[3] = LTREE
  /\ IsAddr(c.node) /\ c.node[3] = HASHTREE /\ c.node[4] = 0
  /\ c.msg = MessageAt(p[1], n)
  /\ \A call \in c.log : \E layer \in 0 .. Layers - 1 : call \in PublicCalls(SubtreeAt(p[1], layer))

Opening == INSTANCE LoopRules WITH Body <- OpenTurn, Inv <- OpenInv

\* The verifier passes a layer.
LEMMA OpenKeeps ==
  ASSUME NEW p, p[1] \in 0 .. Last, p[2] = SignatureAt(p[1]),
         NEW c, NEW layer \in 0 .. Layers - 1, OpenInv(p, c, layer)
  PROVE  OpenInv(p, OpenTurn(p, c, layer), layer + 1)
<1> DEFINE i     == p[1]
           tree  == TreeOf(i, layer)
           leaf  == LeafOf(i, layer)
           s     == Words(layer, tree)
           b     == set_tree_addr(set_layer_addr(c.ots, layer), tree)
           l     == set_tree_addr(set_layer_addr(c.ltree, layer), tree)
           node  == set_tree_addr(set_layer_addr(c.node, layer), tree)
           ots   == set_ots_addr(b, leaf)
           ltree == set_ltree_addr(l, leaf)
           from  == p[2][layer + 1].wots
           auth  == p[2][layer + 1].auth
           pk    == wots_pk_from_sig(ots, from, c.msg)
           top   == l_tree(ltree, pk.out)
           r     == compute_root(node, top.out, leaf, auth)
           t     == OpenTurn(p, c, layer)
<1>1. /\ i \in Nat /\ layer \in Nat /\ leaf \in 0 .. 2^TreeHeight - 1
      /\ <<layer, tree>> \in AllTrees
  BY IndexAt
<1>2. s = SubtreeAt(i, layer)
  BY DEF SubtreeAt
<1>3. /\ t.ots = pk.addr /\ t.ltree = top.addr /\ t.node = r.addr /\ t.msg = r.out
      /\ t.log = c.log \union pk.log \union top.log \union r.log
  BY DEF OpenTurn, WithLeaf, WithRoot, LayerOpened
<1>4. from = WotsAt(i, layer) /\ auth = AuthPath(s, leaf)
  <2>1. layer + 1 \in 1 .. Layers /\ (layer + 1) - 1 = layer
    BY <1>1, Sizes
  <2>2. p[2][layer + 1] = [wots |-> WotsAt(i, layer), auth |-> AuthPath(SubtreeAt(i, layer), LeafOf(i, layer))]
    BY <2>1 DEF SignatureAt
  <2> QED
    BY <1>2, <2>2
<1>5. c.msg = MessageAt(i, layer)
  BY DEF OpenInv
<1>6. Number(c.msg) \in Nat
  BY <1>5, MessageNumber
<1>7. from = WotsSignature(s, leaf, c.msg)
  BY <1>2, <1>4, <1>5 DEF WotsAt
<1>8. /\ pk = wots_pk_from_sig(ots, from, c.msg) /\ top = l_tree(ltree, pk.out)
      /\ r = compute_root(node, top.out, leaf, auth)
      /\ b = set_tree_addr(set_layer_addr(c.ots, layer), tree)
      /\ l = set_tree_addr(set_layer_addr(c.ltree, layer), tree)
      /\ node = set_tree_addr(set_layer_addr(c.node, layer), tree)
  OBVIOUS
<1>14. s = Words(layer, tree)
  OBVIOUS
<1> HIDE DEF s, from, auth, pk, top, r, t, b, l, node, leaf, tree
<1>9. /\ InTree(b, s, OTS, c.ots[4]) /\ InTree(l, s, LTREE, c.ltree[4])
      /\ InTree(node, s, HASHTREE, 0)
  <2>1. /\ InTree(b, s, c.ots[3], c.ots[4]) /\ InTree(l, s, c.ltree[3], c.ltree[4])
        /\ InTree(node, s, c.node[3], c.node[4])
    BY <1>8, <1>14, PlaceSet DEF OpenInv
  <2> QED
    BY <2>1 DEF OpenInv
<1>10. InTree(ots, s, OTS, leaf) /\ InTree(ltree, s, LTREE, leaf)
  BY <1>9, LastWordsSet, SameSetters
<1> HIDE DEF ots, ltree
<1>11. KeyFound(pk, s, leaf)
  BY <1>6, <1>7, <1>8, <1>10, FromSigIs
<1>12. TopFound(top, s, leaf)
  BY <1>8, <1>10, <1>11, LTreeIs DEF KeyFound
<1>13. Climbed(r, s)
  <2>1. top.out = NodeValue(s, 0, leaf)
    BY <1>12 DEF TopFound
  <2> QED
    BY <1>1, <1>4, <1>8, <1>9, <2>1, ComputeRootIs
<1>15. /\ IsAddr(t.ots) /\ t.ots[3] = OTS /\ IsAddr(t.ltree) /\ t.ltree[3] = LTREE
       /\ IsAddr(t.node) /\ t.node[3] = HASHTREE /\ t.node[4] = 0
  BY <1>3, <1>11, <1>12, <1>13 DEF KeyFound, TopFound, Climbed, InTree
<1>16. t.msg = MessageAt(i, layer + 1)
  <2>1. layer + 1 # 0 /\ (layer + 1) - 1 = layer
    BY <1>1
  <2> QED
    BY <1>2, <1>3, <1>13, <2>1 DEF MessageAt, Climbed
<1>17. pk.log \union top.log \union r.log \subseteq PublicCalls(SubtreeAt(i, layer))
  <2> DEFINE q == <<layer, tree>>
  <2>1. q \in AllTrees /\ q[1] = layer /\ q[2] = tree
    BY <1>1
  <2> HIDE DEF q
  <2>2. NodeCalls(s) \union LeafCalls(s, leaf) \subseteq PublicCalls(s)
    BY <1>1, <1>14, <2>1, CallsIn
  <2> QED
    BY <1>2, <1>11, <1>12, <1>13, <2>2 DEF KeyFound, TopFound, Climbed, LeafCalls
<1>18. ASSUME NEW call \in t.log
       PROVE  \E y \in 0 .. Layers - 1 : call \in PublicCalls(SubtreeAt(i, y))
  <2>1. CASE call \in c.log
    BY <2>1 DEF OpenInv
  <2>2. CASE call \notin c.log
    BY <1>3, <1>17, <2>2
  <2> QED
    BY <2>1, <2>2
<1>19. OpenInv(p, t, layer + 1)
  BY <1>15, <1>16, <1>18 DEF OpenInv
<1> QED
  BY <1>19 DEF t

\* The verifier finds the root on top, and makes calls of the trees on the way.
Opened(r, i) ==
  /\ r.msg = RootOf(Words(Layers - 1, 0))
  /\ \A call \in r.log : \E layer \in 0 .. Layers - 1 : call \in PublicCalls(SubtreeAt(i, layer))

LEMMA SignOpenIs ==
  ASSUME NEW i \in 0 .. Last, NEW s, s = SignatureAt(i)
  PROVE  Opened(sign_open(i, s), i)
<1> DEFINE p    == <<i, s>>
           zero == [ots |-> set_type(NewAddr, OTS), ltree |-> set_type(NewAddr, LTREE),
                    node |-> set_type(NewAddr, HASHTREE), msg |-> Digest(i), log |-> {}]
           done == Opening!TheFor(p, Layers, zero)
<1>1. p[1] = i /\ p[2] = s
  OBVIOUS
<1>2. Layers \in Nat /\ Layers # 0 /\ Layers - 1 \in 0 .. Layers - 1
  BY Sizes
<1> HIDE DEF p
<1>3. sign_open(i, s) = done
  <2>1. sign_open(p[1], p[2]) = done
    BY <1>1 DEF sign_open, OpenTurn, For, Opening!TheFor, Opening!For
  <2> QED
    BY <1>1, <2>1
<1>4. OpenInv(p, zero, 0)
  <2>1. /\ IsAddr(zero.ots) /\ zero.ots[3] = OTS /\ IsAddr(zero.ltree) /\ zero.ltree[3] = LTREE
        /\ IsAddr(zero.node) /\ zero.node[3] = HASHTREE
    BY NewAddrIs
  <2>2. zero.node[4] = 0
    BY DEF set_type, NewAddr
  <2>3. zero.msg = MessageAt(p[1], 0) /\ zero.log = {}
    BY <1>1 DEF MessageAt
  <2> HIDE DEF zero
  <2> QED
    BY <2>1, <2>2, <2>3 DEF OpenInv
<1> HIDE DEF zero
<1>5. OpenInv(p, done, Layers)
  <2>1. ASSUME NEW c, NEW layer \in 0 .. Layers - 1, OpenInv(p, c, layer)
        PROVE  OpenInv(p, OpenTurn(p, c, layer), layer + 1)
    BY <1>1, <2>1, OpenKeeps
  <2> QED
    BY <1>2, <1>4, <2>1, Opening!ForRule
<1> HIDE DEF done
<1>6. MessageAt(i, Layers) = RootOf(Words(Layers - 1, 0))
  BY <1>2, IndexAt DEF MessageAt, SubtreeAt
<1> QED
  BY <1>1, <1>3, <1>5, <1>6 DEF OpenInv, Opened

-----------------------------------------------------------------------------
(* There are finitely many calls, and each is the one use of its address.  *)

\* T has only values that f takes on S.
Covers(f, S, T) == \A t \in T : \E x \in S : t = f[x]

\* The values of a function on a finite set are finitely many.
LEMMA FiniteValues ==
  ASSUME NEW S, IsFiniteSet(S), NEW f, NEW T, Covers(f, S, T)
  PROVE  IsFiniteSet(T)
<1> DEFINE g == [x \in S |-> f[x]]
           R == {f[x] : x \in S}
<1>1. g \in Surjection(S, R)
  BY DEF Surjection
<1>2. T \in SUBSET R
  BY DEF Covers
<1> HIDE DEF g, R
<1>3. IsFiniteSet(R)
  BY <1>1, FS_Surjection
<1> QED
  BY <1>2, <1>3, FS_Subset

\* There are that many trees.
LEMMA TreesInt == Trees \in Int
<1> DEFINE n == TreeHeight * (Layers - 1)
<1>1. n \in Nat /\ n <= Bits /\ Bits \in Nat
  <2>1. TreeHeight \in Nat /\ Layers \in Nat \ {0} /\ n = TreeHeight * Layers - TreeHeight
    BY Sizes
  <2> QED
    BY <2>1 DEF Bits
<1> HIDE DEF n
<1>2. n \in 0 .. Bits
  BY <1>1
<1>3. 2^n \in Nat
  BY <1>2, BitPowers
<1>4. Trees = 2^n
  BY DEF Trees, n
<1> QED
  BY <1>3, <1>4

\* The sets that places are taken from.
LEMMA FiniteRanges ==
  /\ IsFiniteSet(0 .. WotsLen - 1) /\ IsFiniteSet(0 .. WotsW - 2)
  /\ IsFiniteSet(0 .. 2^TreeHeight - 1) /\ IsFiniteSet(0 .. TreeHeight - 1)
  /\ IsFiniteSet(AllTrees)
<1>1. /\ WotsLen - 1 \in Int /\ WotsW - 2 \in Int /\ TreeHeight - 1 \in Int /\ Layers - 1 \in Int
      /\ 0 \in Int
  BY Sizes
<1>2. 2^TreeHeight - 1 \in Int
  <2>1. TreeHeight \in 0 .. TreeHeight + 1
    BY Sizes
  <2>2. 2^TreeHeight \in Nat
    BY <2>1, CoreAssumed, Core!Powers
  <2> QED
    BY <2>2
<1>3. Trees - 1 \in Int
  BY TreesInt
<1> DEFINE n == 2^TreeHeight - 1
<1>4. n \in Int
  BY <1>2
<1> HIDE DEF n
<1>5. /\ IsFiniteSet(0 .. WotsLen - 1) /\ IsFiniteSet(0 .. WotsW - 2)
      /\ IsFiniteSet(0 .. TreeHeight - 1) /\ IsFiniteSet(0 .. n)
      /\ IsFiniteSet(0 .. Layers - 1) /\ IsFiniteSet(0 .. Trees - 1)
  BY <1>1, <1>3, <1>4, FS_Interval
<1>6. IsFiniteSet(AllTrees)
  BY <1>5, FS_Product DEF AllTrees
<1> QED
  BY <1>5, <1>6 DEF n

\* The calls in one tree.
LEMMA TreeCallsFinite ==
  ASSUME NEW layer, NEW tree
  PROVE  IsFiniteSet(TreeCalls(layer, tree))
<1> DEFINE s      == Words(layer, tree)
           leaves == 0 .. 2^TreeHeight - 1
<1>1. ASSUME NEW leaf
      PROVE  IsFiniteSet(SecretCalls(layer, tree, leaf))
  <2> DEFINE f == [i \in 0 .. WotsLen - 1 |->
                     [at  |-> Secret(At(Words(layer, tree), OTS, leaf, i, 0)),
                      use |-> <<"secret", <<layer, tree, leaf>>, i>>]]
  <2>1. Covers(f, 0 .. WotsLen - 1, SecretCalls(layer, tree, leaf))
    BY DEF SecretCalls, Covers
  <2> HIDE DEF f
  <2> QED
    BY <2>1, FiniteRanges, FiniteValues
<1>2. ASSUME NEW leaf
      PROVE  IsFiniteSet(ChainCalls(s, leaf))
  <2> DEFINE S == (0 .. WotsLen - 1) \X (0 .. WotsW - 2)
             f == [q \in S |-> Call(Public(At(s, OTS, leaf, q[1], q[2])))]
  <2>1. Covers(f, S, ChainCalls(s, leaf))
    <3> SUFFICES ASSUME NEW c \in ChainCalls(s, leaf)
                 PROVE  \E q \in S : c = f[q]
      BY DEF Covers
    <3>1. PICK i \in 0 .. WotsLen - 1, k \in 0 .. WotsW - 2 :
            c = Call(Public(At(s, OTS, leaf, i, k)))
      BY DEF ChainCalls
    <3>2. <<i, k>> \in S /\ f[<<i, k>>] = Call(Public(At(s, OTS, leaf, i, k)))
      OBVIOUS
    <3> QED
      BY <3>1, <3>2
  <2>2. IsFiniteSet(S)
    BY FiniteRanges, FS_Product
  <2> HIDE DEF f, S
  <2> QED
    BY <2>1, <2>2, FiniteValues
<1>3. ASSUME NEW leaf
      PROVE  IsFiniteSet(RowCalls(s, leaf))
  <2> DEFINE f == [q \in RowPlaces(s, leaf) |-> Call(Public(At(s, LTREE, leaf, q[1], q[2])))]
  <2>1. Covers(f, RowPlaces(s, leaf), RowCalls(s, leaf))
    BY DEF RowCalls, Covers
  <2>2. IsFiniteSet(RowPlaces(s, leaf))
    <3>1. IsFiniteSet((0 .. WotsLen - 1) \X (0 .. WotsLen - 1))
      BY FiniteRanges, FS_Product
    <3>2. RowPlaces(s, leaf) \in SUBSET ((0 .. WotsLen - 1) \X (0 .. WotsLen - 1))
      BY DEF RowPlaces
    <3> QED
      BY <3>1, <3>2, FS_Subset
  <2> HIDE DEF f
  <2> QED
    BY <2>1, <2>2, FiniteValues
<1>4. IsFiniteSet(NodeCalls(s))
  <2> DEFINE f == [q \in NodePlaces |-> Call(Public(At(s, HASHTREE, 0, q[1], q[2])))]
  <2>1. Covers(f, NodePlaces, NodeCalls(s))
    BY DEF NodeCalls, Covers
  <2>2. IsFiniteSet(NodePlaces)
    <3>1. IsFiniteSet((0 .. TreeHeight - 1) \X leaves)
      BY FiniteRanges, FS_Product
    <3>2. NodePlaces \in SUBSET ((0 .. TreeHeight - 1) \X leaves)
      BY DEF NodePlaces
    <3> QED
      BY <3>1, <3>2, FS_Subset
  <2> HIDE DEF f
  <2> QED
    BY <2>1, <2>2, FiniteValues
<1>5. ASSUME NEW leaf
      PROVE  IsFiniteSet(LeafCalls(s, leaf))
  BY <1>2, <1>3, FS_Union DEF LeafCalls
<1>6. IsFiniteSet(UNION {LeafCalls(s, leaf) : leaf \in leaves})
  <2> DEFINE f == [leaf \in leaves |-> LeafCalls(s, leaf)]
             T == {LeafCalls(s, leaf) : leaf \in leaves}
  <2>1. Covers(f, leaves, T)
    BY DEF Covers
  <2>2. IsFiniteSet(leaves) /\ \A X \in T : IsFiniteSet(X)
    BY <1>5, FiniteRanges
  <2> HIDE DEF f, T, leaves
  <2>3. IsFiniteSet(T)
    BY <2>1, <2>2, FiniteValues
  <2>4. IsFiniteSet(UNION T)
    BY <2>2, <2>3, FS_UNION
  <2> QED
    BY <2>4 DEF T
<1>7. IsFiniteSet(UNION {SecretCalls(layer, tree, leaf) : leaf \in leaves})
  <2> DEFINE f == [leaf \in leaves |-> SecretCalls(layer, tree, leaf)]
             T == {SecretCalls(layer, tree, leaf) : leaf \in leaves}
  <2>1. Covers(f, leaves, T)
    BY DEF Covers
  <2>2. IsFiniteSet(leaves) /\ \A X \in T : IsFiniteSet(X)
    BY <1>1, FiniteRanges
  <2> HIDE DEF f, T, leaves
  <2>3. IsFiniteSet(T)
    BY <2>1, <2>2, FiniteValues
  <2>4. IsFiniteSet(UNION T)
    BY <2>2, <2>3, FS_UNION
  <2> QED
    BY <2>4 DEF T
<1>8. IsFiniteSet(PublicCalls(s))
  BY <1>4, <1>6, FS_Union DEF PublicCalls
<1>9. TreeCalls(layer, tree) =
        PublicCalls(s) \union UNION {SecretCalls(layer, tree, leaf) : leaf \in leaves}
  BY DEF TreeCalls
<1> HIDE DEF s, leaves
<1> QED
  BY <1>7, <1>8, <1>9, FS_Union

\* The calls in all trees.
LEMMA AllCallsFinite == IsFiniteSet(AllCalls)
<1> DEFINE f == [q \in AllTrees |-> TreeCalls(q[1], q[2])]
           T == {TreeCalls(q[1], q[2]) : q \in AllTrees}
<1>1. Covers(f, AllTrees, T)
  BY DEF Covers
<1>2. \A X \in T : IsFiniteSet(X)
  BY TreeCallsFinite
<1>3. AllCalls = UNION T
  BY DEF AllCalls
<1> HIDE DEF f, T
<1>4. IsFiniteSet(T)
  BY <1>1, FiniteRanges, FiniteValues
<1> QED
  BY <1>2, <1>3, <1>4, FS_UNION

\* The two words of a tree number give it back if there are not too many.
LEMMA TreeWords ==
  ASSUME NEW tree \in Nat, tree < Word * Word
  PROVE  ((tree \div Word) % Word) * Word + (tree % Word) = tree
<1> DEFINE q == tree \div Word
<1>1. Word \in Nat \ {0}
  BY Sizes
<1>2. q \in Nat /\ tree % Word \in 0 .. Word - 1 /\ tree = q * Word + (tree % Word)
  <2>1. tree \in Int
    OBVIOUS
  <2>2. q \in Nat
    BY <1>1
  <2> QED
    BY <1>1, <2>1, <2>2, Chain!DivMod
<1> HIDE DEF q
<1>3. q < Word
  <2>1. q * Word < Word * Word
    BY <1>1, <1>2
  <2> QED
    BY <1>1, <1>2, <2>1
<1>4. q % Word = q
  <2>1. q \in Int /\ 0 \in Int /\ 0 * Word <= q /\ q < (0 + 1) * Word /\ q - 0 * Word = q
    BY <1>1, <1>2, <1>3
  <2> QED
    BY <1>1, <2>1, Chain!DivUnique
<1> QED
  BY <1>2, <1>4 DEF q

\* Every call there is is the one use of its address, which tells the use of
\* a secret only if the words of the address tell the trees apart.
LEMMA CallOfAddress ==
  ASSUME TreesFit, NEW c \in AllCalls
  PROVE  c = Call(c.at)
<1>0. \A at : Call(at).at = at
  BY DEF Call
<1>1. PICK layer \in 0 .. Layers - 1, tree \in 0 .. Trees - 1 : c \in TreeCalls(layer, tree)
  BY DEF AllCalls, AllTrees
<1>2. CASE c \in PublicCalls(Words(layer, tree))
  <2> DEFINE s == Words(layer, tree)
  <2>1. \E at : c = Call(at)
    <3>1. CASE c \in NodeCalls(s)
      BY <3>1 DEF NodeCalls
    <3>2. CASE c \notin NodeCalls(s)
      <4>1. PICK leaf : c \in LeafCalls(s, leaf)
        BY <1>2, <3>2 DEF PublicCalls
      <4>2. CASE c \in ChainCalls(s, leaf)
        BY <4>2 DEF ChainCalls
      <4>3. CASE c \in RowCalls(s, leaf)
        BY <4>3 DEF RowCalls
      <4> QED
        BY <4>1, <4>2, <4>3 DEF LeafCalls
    <3> QED
      BY <3>1, <3>2
  <2> QED
    BY <1>0, <2>1
<1>3. CASE c \notin PublicCalls(Words(layer, tree))
  <2>1. PICK leaf : c \in SecretCalls(layer, tree, leaf)
    BY <1>1, <1>3 DEF TreeCalls
  <2>2. PICK i : c = [at  |-> Secret(At(Words(layer, tree), OTS, leaf, i, 0)),
                      use |-> <<"secret", <<layer, tree, leaf>>, i>>]
    BY <2>1 DEF SecretCalls
  <2> DEFINE a == At(Words(layer, tree), OTS, leaf, i, 0)
  <2>3. /\ a[0] = layer /\ a[1] = (tree \div Word) % Word /\ a[2] = tree % Word
        /\ a[4] = leaf /\ a[5] = i
    BY AtWords DEF Words
  <2>4. c.at = Secret(a) /\ c = [at |-> Secret(a), use |-> <<"secret", <<layer, tree, leaf>>, i>>]
    BY <2>2
  <2> HIDE DEF a
  <2>5. Secret(a)[1] = "sk_seed" /\ Secret(a)[2] = a
    BY DEF Secret
  <2>6. a[1] * Word + a[2] = tree
    <3>1. tree \in Nat /\ tree < Word * Word
      <4>1. tree \in 0 .. Trees - 1 /\ Trees <= Word * Word /\ Word * Word \in Nat
        BY Sizes DEF TreesFit
      <4>2. Trees \in Int
        BY TreesInt
      <4> QED
        BY <4>1, <4>2
    <3> QED
      BY <2>3, <3>1, TreeWords
  <2>7. Use(Secret(a)) = <<"secret", <<layer, tree, leaf>>, i>>
    BY <2>3, <2>5, <2>6 DEF Use
  <2> QED
    BY <2>4, <2>7 DEF Call
<1> QED
  BY <1>2, <1>3

\* Among such calls every address has one use.
LEMMA OneUse ==
  ASSUME TreesFit, NEW S, S \subseteq AllCalls
  PROVE  Cardinality({c.at : c \in S}) = Cardinality(S)
<1> DEFINE T == {c.at : c \in S}
           f == [c \in S |-> c.at]
<1>1. IsFiniteSet(S)
  BY AllCallsFinite, FS_Subset
<1>2. \A c, d \in S : c.at = d.at => c = d
  <2>1. \A c \in S : c = Call(c.at)
    BY CallOfAddress
  <2> QED
    BY <2>1
<1>3. f \in Bijection(S, T)
  <2>1. f \in [S -> T] /\ \A t \in T : \E c \in S : f[c] = t
    OBVIOUS
  <2>2. \A c, d \in S : f[c] = f[d] => c = d
    BY <1>2
  <2>3. f \in Injection(S, T)
    <3> HIDE DEF f, T
    <3> QED
      BY <2>1, <2>2 DEF Injection, IsInjective
  <2> HIDE DEF f, T
  <2> QED
    BY <2>1, <2>3 DEF Bijection, Surjection
<1> HIDE DEF f, T
<1>4. Cardinality(T) = Cardinality(S)
  BY <1>1, <1>3, FS_Bijection DEF ExistsBijection
<1> QED
  BY <1>4 DEF T

-----------------------------------------------------------------------------
(* The life of a key.                                                      *)

\* What HashingInv says, with names.
LEMMA HashingInvIs ==
  HashingInv <=>
    /\ idx \in 0 .. Last /\ root = RootOf(Words(Layers - 1, 0)) /\ stored = StoredFor(idx)
    /\ log \subseteq AllCalls
    /\ IF idx = 0 THEN sig = [core |-> << >>, fast |-> << >>] ELSE Signed
    /\ VerifierFindsRoot
  BY DEF HashingInv, StoredFor

\* Key generation makes the root of the tree on top and the first signatures.
LEMMA HashingInit == Init => HashingInv
<1> SUFFICES ASSUME Init PROVE HashingInv
  OBVIOUS
<1> DEFINE a   == set_layer_addr(NewAddr, Layers - 1)
           top == treehash(a, 0, Layers - 1, 0)
<1>1. /\ idx = 0 /\ root = top.stack[1] /\ stored = FirstSignatures.out
      /\ sig = [core |-> << >>, fast |-> << >>] /\ opened = NotOpened
      /\ log = top.log \union FirstSignatures.log
  BY DEF Init
<1>2. top = treehash(a, 0, Layers - 1, 0)
  OBVIOUS
<1>3. Layers - 1 \in 0 .. Layers - 1
  BY Sizes
<1>4. InTree(a, Words(Layers - 1, 0), OTS, 0)
  BY ZeroAddrIs, LayerSet
<1> HIDE DEF a, top
<1>5. TreeFound(top, Layers - 1, 0, 0)
  <2>1. Within(a, Words(Layers - 1, 0))
    BY <1>4 DEF InTree, Within
  <2> QED
    BY <1>2, <2>1, TreehashIs, ZeroIn
<1>6. top.log \subseteq AllCalls
  <2>1. <<Layers - 1, 0>> \in AllTrees
    <3>1. <<Layers - 1, TreeOf(0, Layers - 1)>> \in AllTrees /\ TreeOf(0, Layers - 1) = 0
      BY <1>3, IndexAt, ZeroIn
    <3> QED
      BY <3>1
  <2> DEFINE q == <<Layers - 1, 0>>
  <2>2. q \in AllTrees /\ q[1] = Layers - 1 /\ q[2] = 0
    BY <2>1
  <2> HIDE DEF q
  <2>3. TreeCalls(Layers - 1, 0) \subseteq AllCalls
    BY <2>2, CallsIn, ZeroIn
  <2> QED
    BY <1>5, <2>3 DEF TreeFound
<1>7. VerifierFindsRoot
  BY <1>1 DEF VerifierFindsRoot
<1> QED
  BY <1>1, <1>5, <1>6, <1>7, ZeroIn, FirstSignaturesAre, HashingInvIs DEF TreeFound

\* The signature on the digest and the stored ones are all there are.
LEMMA AllSigned ==
  ASSUME NEW i
  PROVE  << WotsAt(i, 0) >> \o StoredFor(i) = [j \in 1 .. Layers |-> WotsAt(i, j - 1)]
<1> DEFINE n == Layers - 1
           e == WotsAt(i, 0)
           f == StoredFor(i)
           S == {WotsAt(i, j) : j \in 0 .. n}
           g == << e >> \o f
<1>1. n \in Nat /\ n + 1 = Layers /\ 0 \in 0 .. n
  BY Sizes
<1>2. << e >> \in Seq(S) /\ f \in Seq(S) /\ Len(<< e >>) = 1 /\ Len(f) = n
  <2>1. \A j \in 1 .. n : j \in 0 .. n
    OBVIOUS
  <2>2. f \in [1 .. n -> S]
    BY <2>1 DEF StoredFor
  <2>3. DOMAIN f = 1 .. n
    BY DEF StoredFor
  <2>4. e \in S
    BY <1>1
  <2> HIDE DEF e, f, n, S
  <2> QED
    BY <1>1, <2>2, <2>3, <2>4
<1>3. \A j \in 1 .. n : f[j] = WotsAt(i, j)
  BY DEF StoredFor
<1> HIDE DEF e, f, S, n
<1>4. /\ g \in Seq(S) /\ Len(g) = 1 + n
      /\ \A j \in 1 .. 1 + n : g[j] = IF j <= 1 THEN << e >>[j] ELSE f[j - 1]
  BY <1>2, ConcatProperties
<1> HIDE DEF g
<1>5. g = [j \in 1 .. 1 + n |-> g[j]]
  BY <1>1, <1>4, LenProperties
<1>6. ASSUME NEW j \in 1 .. 1 + n
      PROVE  g[j] = WotsAt(i, j - 1)
  <2>1. CASE j = 1
    <3>1. g[j] = e /\ j - 1 = 0
      BY <1>4, <2>1
    <3> QED
      BY <3>1 DEF e
  <2>2. CASE j # 1
    <3>1. j - 1 \in 1 .. n /\ ~ (j <= 1)
      BY <1>1, <2>2
    <3> QED
      BY <1>3, <1>4, <3>1
  <2> QED
    BY <2>1, <2>2
<1>7. 1 + n = Layers
  BY <1>1
<1> QED
  BY <1>5, <1>6, <1>7 DEF g, e, f

\* A signature of both implementations.
LEMMA SignKeeps ==
  ASSUME HashingInv, Sign
  PROVE  HashingInv'
<1> DEFINE core == Signature(idx)
           fast == FastCall(idx)
<1>1. /\ sig' = [core |-> core.out, fast |-> << fast.wots >> \o stored]
      /\ stored' = fast.stored /\ log' = log \union core.log \union fast.log
      /\ idx' = idx + 1 /\ opened' = NotOpened /\ root' = root /\ idx < Last
  BY DEF Sign
<1>2. /\ idx \in 0 .. Last /\ root = RootOf(Words(Layers - 1, 0)) /\ stored = StoredFor(idx)
      /\ log \subseteq AllCalls
  BY HashingInvIs
<1>3. idx + 1 \in 0 .. Last /\ idx + 1 # 0 /\ (idx + 1) - 1 = idx
  <2>1. 2^Bits \in Nat
    <3>1. Bits \in 0 .. Bits
      BY BitPowers
    <3> QED
      BY <3>1, BitPowers
  <2>2. Last \in Int
    BY <2>1 DEF Last, Bits
  <2> QED
    BY <1>1, <1>2, <2>2
<1>4. CoreSigned(core, idx)
  BY <1>2, SignatureIs
<1>5. FastDone(fast, idx)
  BY <1>2, <1>3, FastCallIs
<1> HIDE DEF core, fast
<1>6. stored' = StoredFor(idx') /\ log' \subseteq AllCalls
  BY <1>1, <1>2, <1>4, <1>5 DEF CoreSigned, FastDone
<1>7. sig'.core = SignatureAt(idx)
  BY <1>1, <1>4 DEF CoreSigned
<1>8. sig'.fast = [j \in 1 .. Layers |-> WotsAt(idx, j - 1)]
  <2>1. sig'.fast = << WotsAt(idx, 0) >> \o StoredFor(idx)
    BY <1>1, <1>2, <1>5 DEF FastDone
  <2> QED
    BY <2>1, AllSigned
<1>9. \A layer \in 0 .. Layers - 1 : PublicCalls(SubtreeAt(idx, layer)) \subseteq log'
  BY <1>1, <1>4 DEF CoreSigned
<1>10. Signed'
  BY <1>1, <1>3, <1>7, <1>8, <1>9 DEF Signed
<1>11. VerifierFindsRoot'
  BY <1>1 DEF VerifierFindsRoot, NotOpened
<1>12. /\ idx' \in 0 .. Last /\ idx' # 0 /\ root' = RootOf(Words(Layers - 1, 0))
  BY <1>1, <1>2, <1>3
<1> QED
  BY <1>6, <1>10, <1>11, <1>12 DEF HashingInv, StoredFor

\* A signature is verified.
LEMMA OpenKeepsInv ==
  ASSUME HashingInv, Open
  PROVE  HashingInv'
<1> DEFINE done == sign_open(idx - 1, sig.core)
<1>1. /\ opened' = [root |-> done.msg, new |-> done.log \ log]
      /\ log' = log \union done.log
      /\ idx' = idx /\ root' = root /\ stored' = stored /\ sig' = sig /\ idx > 0
  BY DEF Open
<1>2. /\ idx \in 0 .. Last /\ root = RootOf(Words(Layers - 1, 0)) /\ stored = StoredFor(idx)
      /\ log \subseteq AllCalls
  BY HashingInvIs
<1>3. idx - 1 \in 0 .. Last /\ idx # 0
  <2>1. 2^Bits \in Nat
    <3>1. Bits \in 0 .. Bits
      BY BitPowers
    <3> QED
      BY <3>1, BitPowers
  <2>2. Last \in Int
    BY <2>1 DEF Last, Bits
  <2> QED
    BY <1>1, <1>2, <2>2
<1>4. Signed
  BY <1>3 DEF HashingInv
<1>5. Opened(done, idx - 1)
  BY <1>3, <1>4, SignOpenIs DEF Signed
<1> HIDE DEF done
<1>6. done.log \subseteq log
  BY <1>4, <1>5 DEF Signed, Opened
<1>7. log' = log /\ opened' = [root |-> root, new |-> {}]
  BY <1>1, <1>2, <1>5, <1>6 DEF Opened
<1>8. VerifierFindsRoot'
  BY <1>1, <1>7 DEF VerifierFindsRoot
<1>9. Signed'
  BY <1>1, <1>4, <1>7 DEF Signed
<1> QED
  BY <1>1, <1>2, <1>3, <1>7, <1>8, <1>9 DEF HashingInv, StoredFor

\* No step breaks HashingInv.
LEMMA HashingNext == HashingInv /\ [Next]_vars => HashingInv'
<1> SUFFICES ASSUME HashingInv, [Next]_vars PROVE HashingInv'
  OBVIOUS
<1>1. CASE Sign
  BY <1>1, SignKeeps
<1>2. CASE Open
  BY <1>2, OpenKeepsInv
<1>3. CASE UNCHANGED vars
  BY <1>3 DEF vars, HashingInv, Signed, VerifierFindsRoot
<1> QED
  BY <1>1, <1>2, <1>3 DEF Next

(***************************************************************************)
(* What is in the state at all times, for every height, number of layers   *)
(* and length of chains: the root, the signatures of both implementations  *)
(* down to every chain value and address, and a log that holds calls of    *)
(* the trees only.  All the loops of hash_address, hash.c, wots.c,         *)
(* xmss_commons.c and the two cores are behind it.                         *)
(***************************************************************************)
THEOREM HashingInvHolds == Spec => []HashingInv
  BY HashingInit, HashingNext, PTL DEF Spec

(***************************************************************************)
(* No address is used for two things over the life of a key, if the two    *)
(* words of an address that number the trees can tell all of them apart.   *)
(***************************************************************************)
THEOREM AddressUsedOnceHolds == TreesFit /\ Spec => []AddressUsedOnce
<1>1. CASE TreesFit
  <2>1. HashingInv => AddressUsedOnce
    BY <1>1, OneUse DEF HashingInv, AddressUsedOnce
  <2> QED
    BY <2>1, HashingInvHolds, PTL
<1>2. CASE ~ TreesFit
  BY <1>2
<1> QED
  BY <1>1, <1>2

(***************************************************************************)
(* Every signature of the reference implementation leads the verifier to   *)
(* the root in the public key, by calls that have been made before.        *)
(***************************************************************************)
THEOREM VerifierFindsRootHolds == Spec => []VerifierFindsRoot
<1>1. HashingInv => VerifierFindsRoot
  BY DEF HashingInv
<1> QED
  BY <1>1, HashingInvHolds, PTL

(***************************************************************************)
(* The one-time signatures of the fast implementation, those made ahead of *)
(* time among them, are the ones of the reference implementation.          *)
(***************************************************************************)
THEOREM SameWotsHolds == Spec => []SameWots
<1>1. HashingInv => SameWots
  <2> SUFFICES ASSUME HashingInv PROVE SameWots
    OBVIOUS
  <2>1. CASE idx = 0
    <3>1. sig.core = << >>
      BY <2>1 DEF HashingInv
    <3> QED
      BY <3>1 DEF SameWots
  <2>2. CASE idx # 0
    <3>1. sig.core = SignatureAt(idx - 1) /\ sig.fast = [j \in 1 .. Layers |-> WotsAt(idx - 1, j - 1)]
      BY <2>2 DEF HashingInv, Signed
    <3> QED
      BY <3>1 DEF SameWots, SignatureAt
  <2> QED
    BY <2>1, <2>2
<1> QED
  BY <1>1, HashingInvHolds, PTL
=============================================================================
