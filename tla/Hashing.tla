------------------------------ MODULE Hashing ------------------------------
(***************************************************************************)
(* Everything that hashes, at the level of the address words: the setters  *)
(* of hash_address.c, thash_f and thash_h of hash.c, the chains of wots.c, *)
(* L-tree, root and verifier of xmss_commons.c, tree and signature of      *)
(* xmss_core.c, and what xmss_core_fast.c signs roots with.                *)
(*                                                                         *)
(* The address arrays are passed from function to function, each sets some *)
(* of the words and trusts that the others are right.  The scheme is only  *)
(* as good as that: every call has to have an address of its own.  Here a  *)
(* value is the seed and address it came out under, and every call is      *)
(* logged with its inputs.  The names are unambiguous exactly if no address*)
(* occurs in the log with two different uses.                              *)
(*                                                                         *)
(* Functions that change an address or hash are operators to records of    *)
(* addr, the array afterwards, out, the result, and log, the calls made.   *)
(***************************************************************************)
EXTENDS Loops, FiniteSets

CONSTANTS
  TreeHeight,   \* params->tree_height
  Layers,       \* params->d
  WotsLen,      \* params->wots_len
  WotsW,        \* params->wots_w
  Word          \* values of an address word; stands for 2^32

ASSUME HashingAssumption ==
  /\ TreeHeight \in Nat \ {0}
  /\ Layers \in Nat \ {0}
  /\ WotsLen \in Nat \ {0}
  /\ WotsW \in Nat /\ WotsW >= 2
  /\ Word \in Nat /\ Word >= 2

\* A law of arithmetic that the provers lack; it holds for all values.
ASSUME PowersAssumption == PowersOfTwo(TreeHeight * Layers)

VARIABLES
  idx,          \* the index in the secret key
  root,         \* the root in the public key
  stored,       \* the signatures on roots in the fast implementation's key
  sig,          \* the last signature, of each implementation
  opened,       \* what the verifier made of it: the root it came to, and the
                \* calls of its own that nobody had made before
  log           \* history: all calls of hash functions

vars == <<idx, root, stored, sig, opened, log>>

-----------------------------------------------------------------------------
(* hash_address.c                                                          *)

OTS == 0
LTREE == 1
HASHTREE == 2

NewAddr == [w \in 0 .. 7 |-> 0]

set_layer_addr(addr, layer) == [addr EXCEPT ![0] = layer]

\* Mutant: only the low word of the tree number is set.
set_tree_addrLow(addr, tree) == [addr EXCEPT ![2] = tree % Word]

set_tree_addr(addr, tree) ==
  [addr EXCEPT ![1] = (tree \div Word) % Word, ![2] = tree % Word]
set_type(addr, type) == [addr EXCEPT ![3] = type]
set_key_and_mask(addr, km) == [addr EXCEPT ![7] = km]

\* Mutant: the whole address is copied.
copy_all_addr(out, in) == in

copy_subtree_addr(out, in) ==
  [out EXCEPT ![0] = in[0], ![1] = in[1], ![2] = in[2]]

set_ots_addr(addr, ots) == [addr EXCEPT ![4] = ots]
set_chain_addr(addr, chain) == [addr EXCEPT ![5] = chain]
set_hash_addr(addr, hash) == [addr EXCEPT ![6] = hash]
set_ltree_addr(addr, ltree) == [addr EXCEPT ![4] = ltree]
set_tree_height(addr, height) == [addr EXCEPT ![5] = height]
set_tree_index(addr, index) == [addr EXCEPT ![6] = index]

-----------------------------------------------------------------------------
(* hash.c.  The key of a call is made under key_and_mask 0, the masks under*)
(* 1 and 2 of the same address; the call is logged under the first.        *)

Secret(addr) == <<"sk_seed", addr>>
Public(addr) == <<"pub_seed", addr>>

\* The calls of h after those of c, and h's result, alone or behind c's.
Logged(c, h) == [h EXCEPT !.log = @ \union c.log]
Appended(c, h) ==
  [addr |-> h.addr, out |-> Append(c.out, h.out), log |-> c.log \union h.log]

\* A call with its key made under keyed; km is the last mask.
Keyed(keyed, km, use) ==
  [addr |-> set_key_and_mask(keyed, km),
   out  |-> Public(keyed),
   log  |-> {[at |-> Public(keyed), use |-> use]}]

thash_f(addr, in) == Keyed(set_key_and_mask(addr, 0), 1, <<"F", in>>)

thash_h(addr, left, right) ==
  Keyed(set_key_and_mask(addr, 0), 2, <<"H", left, right>>)

-----------------------------------------------------------------------------
(* wots.c.  who is the one-time key meant: layer, tree and leaf.           *)

gen_chain(addr, in, start, steps) ==
  For(IF start + steps < WotsW THEN steps ELSE WotsW - start,
      LAMBDA c, k : Logged(c, thash_f(set_hash_addr(c.addr, start + k), c.out)),
      [addr |-> addr, out |-> in, log |-> {}])

\* The secret of a chain, used for chain i of one-time key who.
prf_keygen(addr, who, i) ==
  [addr |-> addr, out |-> Secret(addr),
   log  |-> {[at |-> Secret(addr), use |-> <<"secret", who, i>>]}]

expand_seed(addr, who) ==
  For(WotsLen,
      LAMBDA c, i : Appended(c, prf_keygen(set_chain_addr(c.addr, i), who, i)),
      [addr |-> set_key_and_mask(set_hash_addr(addr, 0), 0),
       out |-> << >>, log |-> {}])

\* All chains from the values in.out, each from its start for its steps.
Chains(in, Start(_), Steps(_)) ==
  For(WotsLen,
      LAMBDA c, i :
        Appended(c, gen_chain(set_chain_addr(c.addr, i), in.out[i + 1],
                              Start(i), Steps(i))),
      [in EXCEPT !.out = << >>])

wots_pkgen(addr, who) ==
  Chains(expand_seed(addr, who), LAMBDA i : 0, LAMBDA i : WotsW - 1)

\* A message is a digest or a root.  Any digits will do that depend on the
\* message only; those of the code are in Wots.
Digest(i) == <<"digest", i>>
Number(msg) == IF msg[1] = "digest" THEN msg[2] ELSE msg[2][0] + msg[2][2]
chain_lengths(msg, i) == (Number(msg) + i) % WotsW

wots_sign(addr, msg, who) ==
  Chains(expand_seed(addr, who), LAMBDA i : 0, LAMBDA i : chain_lengths(msg, i))

wots_pk_from_sig(addr, from, msg) ==
  Chains([addr |-> addr, out |-> from, log |-> {}],
         LAMBDA i : chain_lengths(msg, i),
         LAMBDA i : WotsW - 1 - chain_lengths(msg, i))

-----------------------------------------------------------------------------
(* xmss_commons.c                                                          *)

\* The odd node at the end of a row goes into the next row as it is.
PulledUp(t) ==
  IF t.l % 2 = 1
  THEN [t EXCEPT !.pk[(t.l \div 2) + 1] = t.pk[t.l], !.l = (t.l \div 2) + 1]
  ELSE [t EXCEPT !.l = t.l \div 2]

\* Node i of a row is the result of h; pk is overwritten from the left.
HashedTo(r, i, h) ==
  [r EXCEPT !.addr = h.addr, !.pk[i + 1] = h.out, !.log = @ \union h.log]

NextRow(t) ==
  [t EXCEPT !.height = @ + 1, !.addr = set_tree_height(@, t.height + 1)]

LTreeRow(t) ==
  NextRow(PulledUp(For(t.l \div 2,
    LAMBDA r, i :
      HashedTo(r, i, thash_h(set_tree_index(r.addr, i),
                             r.pk[2 * i + 1], r.pk[2 * i + 2])),
    t)))

\* What l_tree hands back of its state.
TopOf(t) == [addr |-> t.addr, out |-> t.pk[1], log |-> t.log]

l_tree(addr, wots_pk) ==
  TopOf(While(WotsLen, LAMBDA t : t.l > 1, LTreeRow,
              [addr |-> set_tree_height(addr, 0), pk |-> wots_pk,
               l |-> WotsLen, height |-> 0, log |-> {}]))

LeafFrom(pk, l) ==
  [ots |-> pk.addr, ltree |-> l.addr, out |-> l.out, log |-> pk.log \union l.log]

LeafOfKey(ltree_addr, pk) == LeafFrom(pk, l_tree(ltree_addr, pk.out))

gen_leaf_wots(ltree_addr, ots_addr, who) ==
  LeafOfKey(ltree_addr, wots_pkgen(ots_addr, who))

\* The root that leaf and path lead to; auth[h] is the node of height h.
compute_root(addr, leaf, leafidx, auth) ==
  For(TreeHeight,
      LAMBDA c, h :
        LET a == set_tree_index(set_tree_height(c.addr, h), Shr(leafidx, h + 1))
        IN  Logged(c, IF Bit(leafidx, h) = 1 THEN thash_h(a, auth[h], c.out)
                                             ELSE thash_h(a, c.out, auth[h])),
      [addr |-> addr, out |-> leaf, log |-> {}])

-----------------------------------------------------------------------------
(* xmss_core.c                                                             *)

\* The node on top of the stack is copied if it is on the path of leaf_idx.
OnPath(w, leaf_idx, i) ==
  LET h == w.heights[Len(w.heights)]
      wanted == IF Bit(leaf_idx, h) = 1 THEN Shr(leaf_idx, h) - 1
                                        ELSE Shr(leaf_idx, h) + 1
  IN  IF wanted = Shr(i, h)
      THEN [w EXCEPT !.auth = [@ EXCEPT ![h] = w.stack[Len(w.stack)]]]
      ELSE w

\* The n nodes on top of the stack give way to out, at height h.
Pushed(w, n, out, h) ==
  [w EXCEPT !.stack = Append(SubSeq(@, 1, Len(@) - n), out),
            !.heights = Append(SubSeq(@, 1, Len(@) - n), h)]

PushedLeaf(w, leaf) ==
  [Pushed(w, 0, leaf.out, 0) EXCEPT
     !.ots = leaf.ots, !.ltree = leaf.ltree, !.log = @ \union leaf.log]

PushedNode(w, h, up) ==
  [Pushed(w, 2, up.out, h + 1) EXCEPT !.node = up.addr, !.log = @ \union up.log]

\* The two nodes on top of the stack, both of height h, are hashed together.
Hashed(w, h, i) ==
  PushedNode(w, h,
    thash_h(set_tree_index(set_tree_height(w.node, h), Shr(i, h + 1)),
            w.stack[Len(w.stack) - 1], w.stack[Len(w.stack)]))

\* The root of a tree and the path of one of its leaves.  layer and tree say
\* which tree is meant, subtree_addr which tree it is.
treehash(subtree_addr, leaf_idx, layer, tree) ==
  LET Pair(w) == /\ Len(w.stack) >= 2
                 /\ w.heights[Len(w.stack)] = w.heights[Len(w.stack) - 1]
      Up(w, i) == OnPath(Hashed(w, w.heights[Len(w.stack)], i), leaf_idx, i)
      Leaf(w, i) ==
        While(TreeHeight, Pair, LAMBDA t : Up(t, i),
              OnPath(PushedLeaf(w, gen_leaf_wots(set_ltree_addr(w.ltree, i),
                                                 set_ots_addr(w.ots, i),
                                                 <<layer, tree, i>>)),
                     leaf_idx, i))
      Typed(type) == set_type(copy_subtree_addr(NewAddr, subtree_addr), type)
  IN  For(2^TreeHeight, Leaf,
          [ots |-> Typed(OTS), ltree |-> Typed(LTREE), node |-> Typed(HASHTREE),
           stack |-> << >>, heights |-> << >>,
           auth |-> [h \in 0 .. TreeHeight - 1 |-> << >>], log |-> {}])

Last == 2^(TreeHeight * Layers) - 1
LeafOf(i, layer) == Low(Shr(i, layer * TreeHeight), TreeHeight)
TreeOf(i, layer) == Shr(i, (layer + 1) * TreeHeight)

\* What one layer puts into a signature: the one-time signature w, made with
\* the ots_addr that then is t's subtree_addr, and path and root of t.
LayerSigned(c, w, t) ==
  [addr |-> w.addr, msg |-> t.stack[1],
   out  |-> Append(c.out, [wots |-> w.out, auth |-> t.auth]),
   log  |-> c.log \union w.log \union t.log]

WithTree(c, w, layer, leaf, tree) ==
  LayerSigned(c, w, treehash(w.addr, leaf, layer, tree))

\* xmssmt_core_sign: one ots_addr for all layers, which is changed on the way
\* and serves as subtree_addr as well.
Signature(i) ==
  For(Layers,
      LAMBDA c, layer :
        LET tree == TreeOf(i, layer)
            leaf == LeafOf(i, layer)
            ots  == set_ots_addr(set_tree_addr(
                      set_layer_addr(c.addr, layer), tree), leaf)
        IN  WithTree(c, wots_sign(ots, c.msg, <<layer, tree, leaf>>),
                     layer, leaf, tree),
      [addr |-> set_type(NewAddr, OTS), msg |-> Digest(i), out |-> << >>,
       log |-> {}])

-----------------------------------------------------------------------------
(* xmss_core_fast.c: the roots that are signed once and stored.            *)

\* The root of t is signed by the one-time key who.
RootSigned(addr, t, who) ==
  Logged(t, wots_sign(addr, t.stack[1], who))

\* Key generation: the first trees from the lowest, one addr for all.  Only
\* the layer is ever set in it.
FirstSignatures ==
  For(Layers - 1,
      LAMBDA c, i :
        Appended(c, RootSigned(set_layer_addr(c.addr, i + 1),
                               treehash(c.addr, 0, i, 0), <<i + 1, 0, 0>>)),
      [addr |-> set_layer_addr(NewAddr, 0), out |-> << >>, log |-> {}])

\* Mutant: the tree number of the signature before the root is needed.
ParentAddrStale(addr, i, k) ==
  set_ots_addr(set_tree_addr(set_layer_addr(addr, k + 1), TreeOf(i, k + 1)),
               Low(Shr(i, (k + 1) * TreeHeight) + 1, TreeHeight))

\* The one-time key above layer k that signs the root of its next tree.
ParentAddr(addr, i, k) ==
  set_ots_addr(set_tree_addr(set_layer_addr(addr, k + 1), TreeOf(i + 1, k + 1)),
               Low(Shr(i, (k + 1) * TreeHeight) + 1, TreeHeight))

\* The signature w takes its place above layer k.
Stored(c, k, w) ==
  [c EXCEPT !.addr = w.addr, !.stored[k + 1] = w.out, !.log = @ \union w.log]

\* For the layers whose tree ends with index i the root of the next tree is
\* signed, with the ots_addr that the signature low of the digest has left.
RootsSigned(i, low) ==
  For(Layers - 1,
      LAMBDA c, k :
        IF Low(i + 1, (k + 1) * TreeHeight) # 0 THEN c
        ELSE Stored(c, k,
               RootSigned(ParentAddr(c.addr, i, k),
                 treehash(set_tree_addr(set_layer_addr(NewAddr, k),
                                        TreeOf(i + 1, k)),
                          0, k, TreeOf(i + 1, k)),
                 <<k + 1, TreeOf(i + 1, k + 1), LeafOf(i + 1, k + 1)>>)),
      [addr |-> low.addr, wots |-> low.out, stored |-> stored, log |-> low.log])

FastCall(i) ==
  RootsSigned(i,
    wots_sign(set_ots_addr(set_tree_addr(set_layer_addr(
                set_type(NewAddr, OTS), 0), TreeOf(i, 0)), LeafOf(i, 0)),
              Digest(i), <<0, TreeOf(i, 0), LeafOf(i, 0)>>))

-----------------------------------------------------------------------------
(* The verifier, with an address of each type for all layers.              *)

LayerOpened(c, pk, l, top) ==
  [ots |-> pk.addr, ltree |-> l.addr, node |-> top.addr, msg |-> top.out,
   log |-> c.log \union pk.log \union l.log \union top.log]

WithRoot(c, pk, l, node, leaf, auth) ==
  LayerOpened(c, pk, l, compute_root(node, l.out, leaf, auth))

WithLeaf(c, pk, ltree, node, leaf, auth) ==
  WithRoot(c, pk, l_tree(ltree, pk.out), node, leaf, auth)

sign_open(i, s) ==
  For(Layers,
      LAMBDA c, layer :
        LET At(addr) == set_tree_addr(set_layer_addr(addr, layer), TreeOf(i, layer))
            leaf == LeafOf(i, layer)
        IN  WithLeaf(c,
              wots_pk_from_sig(set_ots_addr(At(c.ots), leaf),
                               s[layer + 1].wots, c.msg),
              set_ltree_addr(At(c.ltree), leaf), At(c.node),
              leaf, s[layer + 1].auth),
      [ots |-> set_type(NewAddr, OTS), ltree |-> set_type(NewAddr, LTREE),
       node |-> set_type(NewAddr, HASHTREE), msg |-> Digest(i), log |-> {}])

-----------------------------------------------------------------------------

NotOpened == [root |-> << >>, new |-> {}]

Init ==
  \E top \in {treehash(set_layer_addr(NewAddr, Layers - 1), 0, Layers - 1, 0)},
     first \in {FirstSignatures} :
    /\ idx = 0
    /\ root = top.stack[1]
    /\ stored = first.out
    /\ sig = [core |-> << >>, fast |-> << >>]
    /\ opened = NotOpened
    /\ log = top.log \union first.log

\* Both implementations sign at the same index, when the signature before
\* has been verified; signing and verifying share nothing but the log.  What
\* is done at the last index, with zeros for seeds, is left out.
Sign ==
  /\ idx < Last
  /\ idx > 0 => opened # NotOpened
  /\ \E core \in {Signature(idx)}, fast \in {FastCall(idx)} :
       /\ sig' = [core |-> core.out, fast |-> << fast.wots >> \o stored]
       /\ stored' = fast.stored
       /\ log' = log \union core.log \union fast.log
  /\ idx' = idx + 1
  /\ opened' = NotOpened
  /\ UNCHANGED root

Open ==
  /\ idx > 0 /\ opened = NotOpened
  /\ \E done \in {sign_open(idx - 1, sig.core)} :
       /\ opened' = [root |-> done.msg, new |-> done.log \ log]
       /\ log' = log \union done.log
  /\ UNCHANGED <<idx, root, stored, sig>>

Next == Sign \/ Open

Spec == Init /\ [][Next]_vars

-----------------------------------------------------------------------------

(***************************************************************************)
(* Under one seed no address is used for two things: two functions, two    *)
(* inputs, or the secrets of two one-time keys.  It holds over the life of *)
(* a key and for signing and verifying together, so a verifier that hashed *)
(* something else at the address of a node would be found out too.         *)
(***************************************************************************)
AddressUsedOnce == Cardinality({c.at : c \in log}) = Cardinality(log)

(***************************************************************************)
(* The verifier makes only calls that signer and key generation have made, *)
(* the same inputs at the same addresses, chain by chain and row by row,   *)
(* and comes to the root in the public key.                                *)
(***************************************************************************)
VerifierFindsRoot ==
  opened # NotOpened => opened.root = root /\ opened.new = {}

(***************************************************************************)
(* The signatures that the fast implementation makes ahead of time, with   *)
(* addresses put together in other places, are those of the reference.     *)
(***************************************************************************)
SameWots ==
  \A i \in DOMAIN sig.core : sig.core[i].wots = sig.fast[i]
=============================================================================
