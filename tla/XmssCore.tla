------------------------------ MODULE XmssCore ------------------------------
(***************************************************************************)
(* The reference implementation, xmss_core.c: the secret key is an index   *)
(* and the seeds, and every signature computes the whole tree of every     *)
(* layer anew.  XMSS is the case of one layer.                             *)
(***************************************************************************)
EXTENDS Merkle

CONSTANTS
  TreeHeight,   \* params->tree_height
  Layers,       \* params->d
  IndexSpace    \* what the index field can hold; stands for 256^index_bytes

ASSUME XmssCoreAssumption ==
  /\ TreeHeight \in Nat \ {0}
  /\ Layers \in Nat \ {0}
  /\ IndexSpace \in Nat /\ IndexSpace >= 2^(TreeHeight * Layers)

\* A law of arithmetic that the provers lack; it holds for all values.
ASSUME PowersAssumption == PowersOfTwo(TreeHeight * Layers)

VARIABLES
  sk,           \* the secret key: idx, seed, root
  pk,           \* the public key: seed, root
  out           \* what the last call of xmssmt_core_sign returned

vars == <<sk, pk, out>>

params == [tree_height |-> TreeHeight, bds_k |-> 0, d |-> Layers]
Leaves == 2^(TreeHeight * Layers)

LastIndex == Leaves - 1
NoSig == [idx |-> 0]     \* sm was not written

-----------------------------------------------------------------------------

\* Mutant: the node is saved before the two on top are hashed.
SavedEarly(w, leaf_idx, idx) ==
  LET h == w.heights[w.offset - 1] IN
  IF Sibling(Shr(leaf_idx, h)) = Shr(idx, h + 1)
  THEN [w EXCEPT !.auth_path[h] = w.stack[w.offset - 1]]
  ELSE w

\* The node on top of the stack is copied if it is on the wanted path.
Saved(w, leaf_idx, idx) ==
  LET h == w.heights[w.offset - 1] IN
  IF Sibling(Shr(leaf_idx, h)) = Shr(idx, h)
  THEN [w EXCEPT !.auth_path[h] = w.stack[w.offset - 1]]
  ELSE w

\* The two topmost nodes of the stack replaced by their parent.
Hashed(w, seed, addr, idx) ==
  LET top == w.offset - 1
      h   == w.heights[top]
  IN  [w EXCEPT
         !.stack[top - 1] = thash_h(w.stack[top - 1], w.stack[top], seed, addr,
                                    h, Shr(idx, h + 1)),
         !.heights[top - 1] = h + 1,
         !.offset = top]

\* A leaf pushed on the stack.
Pushed(w, seed, addr, idx) ==
  [w EXCEPT !.stack[w.offset] = gen_leaf_wots(seed, addr, idx),
            !.heights[w.offset] = 0,
            !.offset = @ + 1]

\* The two topmost nodes are of one height.
Pair(w) == /\ w.offset >= 2
           /\ w.heights[w.offset - 1] = w.heights[w.offset - 2]

\* One turn of treehash: a leaf, and the nodes that are complete with it.
LeafAdded(w, seed, addr, leaf_idx, idx) ==
  While(TreeHeight, Pair,
        LAMBDA t : Saved(Hashed(t, seed, addr, idx), leaf_idx, idx),
        Saved(Pushed(w, seed, addr, idx), leaf_idx, idx))

NoLeaves == [stack     |-> [i \in 0 .. TreeHeight |-> Junk],
             heights   |-> [i \in 0 .. TreeHeight |-> 0],
             offset    |-> 0,
             auth_path |-> [i \in 0 .. TreeHeight - 1 |-> Junk]]

\* The root of a tree and the authentication path of one of its leaves.
treehash(seed, addr, leaf_idx) ==
  LET done == ForLeaves(TreeHeight,
                LAMBDA w, idx : LeafAdded(w, seed, addr, leaf_idx, idx),
                NoLeaves)
  IN  [root |-> done.stack[0], auth_path |-> done.auth_path]

Init ==
  LET root == treehash(RealSeed, [layer |-> Layers - 1, tree |-> 0], 0).root IN
  /\ sk = [idx |-> 0, seed |-> RealSeed, root |-> root]
  /\ pk = [seed |-> RealSeed, root |-> root]
  /\ out = [ret |-> "none", sm |-> NoSig]

\* One layer of a signature: the root below signed, and the path from there.
LayerSigned(key, idx, w, i) ==
  LET addr == [layer |-> i, tree |-> Shr(idx, (i + 1) * TreeHeight)]
      leaf == Low(Shr(idx, i * TreeHeight), TreeHeight)
      tree == treehash(key.seed, addr, leaf)
  IN  [root   |-> tree.root,
       layers |-> [w.layers EXCEPT ![i] =
                     [sig  |-> wots_sign(w.root, key.seed, addr, leaf),
                      auth |-> tree.auth_path]]]

(***************************************************************************)
(* The signature at index idx: the layers from the lowest, each signing    *)
(* the root that the tree below came out with.  The header is what the     *)
(* index bytes of the key hold when they are copied.                       *)
(***************************************************************************)
Signature(key, idx) ==
  LET unsigned == [root   |-> hash_message(key.root, idx),
                   layers |-> [i \in 0 .. Layers - 1 |-> Junk]]
      done     == For(Layers, LAMBDA w, i : LayerSigned(key, idx, w, i), unsigned)
  IN  [idx |-> key.idx, layers |-> done.layers]

\* Mutant: the index in the key is not advanced.
SignStuck ==
  /\ sk.idx < LastIndex
  /\ out' = [ret |-> "ok", sm |-> Signature(sk, sk.idx)]
  /\ UNCHANGED <<sk, pk>>

Sign ==
  /\ sk.idx < LastIndex
  /\ sk' = [sk EXCEPT !.idx = (@ + 1) % IndexSpace]
  /\ out' = [ret |-> "ok", sm |-> Signature(sk, sk.idx)]
  /\ UNCHANGED pk

Wiped == [idx |-> IndexSpace - 1, seed |-> ZeroSeed, root |-> ZeroNode]

\* The last index: the key is wiped, then read for header, seeds and root.
SignLast ==
  /\ sk.idx = LastIndex
  /\ sk' = [Wiped EXCEPT !.idx = (sk.idx + 1) % IndexSpace]
  /\ out' = [ret |-> "ok", sm |-> Signature(Wiped, sk.idx)]
  /\ UNCHANGED pk

Refuse ==
  /\ sk.idx > LastIndex
  /\ sk' = Wiped
  /\ out' = [ret |-> "spent", sm |-> NoSig]
  /\ UNCHANGED pk

Next == Sign \/ SignLast \/ Refuse

Spec == Init /\ [][Next]_vars

-----------------------------------------------------------------------------

(***************************************************************************)
(* Every signature of a key that has not been wiped verifies: root and     *)
(* path of each tree come out of one pass over its leaves.                 *)
(***************************************************************************)
SignaturesVerify ==
  out.ret = "ok" /\ sk.seed = RealSeed => sign_open(params, out.sm, pk)

Promise == INSTANCE Signer WITH
  next <- IF sk.seed = RealSeed THEN sk.idx ELSE Leaves,
  out  <- [ret |-> out.ret,
           key |-> IF out.ret = "ok" /\ out.sm.layers[0].sig.seed = RealSeed
                   THEN out.sm.idx ELSE Leaves]

\* The lowest one-time keys are used in order, none twice, then never again.
ImplementsSigner == Promise!Spec
=============================================================================
