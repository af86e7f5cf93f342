------------------------------- MODULE Merkle -------------------------------
(***************************************************************************)
(* Hash trees, one-time signatures and verification, symbolically.         *)
(*                                                                         *)
(* A node value is the tuple <<seed, layer, tree, height, index>> that     *)
(* says which node of which tree of which key it is.  Hashing the two      *)
(* right children at the right address gives the parent; hashing anything  *)
(* else gives Junk, a value equal to no node (collisions and the chance    *)
(* that uninitialised memory holds a hash are ignored).  A one-time        *)
(* signature is a record of the key that made it and what it signs.        *)
(*                                                                         *)
(* params is a record with tree_height, bds_k and d, as in params.h, and   *)
(* addr a record with the layer and tree words of the C address arrays;    *)
(* type, OTS, L-tree, height and index words are arguments.  A tree's sk   *)
(* and public seeds are one value, since they are set and wiped together.  *)
(***************************************************************************)
EXTENDS Loops, SequencesExt

Sibling(x) == IF x % 2 = 0 THEN x + 1 ELSE x - 1    \* x ^ 1

-----------------------------------------------------------------------------

RealSeed == "key"        \* seeds drawn by randombytes
ZeroSeed == "zero"       \* seeds read after the secret key was wiped

Junk == <<>>             \* any value that is not the hash it should be
ZeroNode == <<"zero">>   \* n zero bytes

Node(seed, addr, h, i) == <<seed, addr.layer, addr.tree, h, i>>

\* The leaf of the one-time key i of a tree: wots_pkgen, then l_tree.
gen_leaf_wots(seed, addr, i) == Node(seed, addr, 0, i)

\* Parent i of height h + 1; the address names the children's height h.
thash_h(left, right, seed, addr, h, i) ==
  IF /\ left = Node(seed, addr, h, 2 * i)
     /\ right = Node(seed, addr, h, 2 * i + 1)
  THEN Node(seed, addr, h + 1, i)
  ELSE Junk

\* The message hash depends on the root and the index given to it; the
\* verifier reads R from the signature, so R never makes a difference.
hash_message(root, idx) == <<"digest", root, idx>>

wots_sign(msg, seed, addr, leaf) ==
  [seed |-> seed, layer |-> addr.layer, tree |-> addr.tree, leaf |-> leaf,
   msg |-> msg]

\* The zero bytes that are left of a stored signature after the wipe.
ZeroSig == wots_sign(ZeroNode, ZeroSeed, [layer |-> 0, tree |-> 0], 0)

\* wots_pk_from_sig and l_tree: the leaf that a signature leads to.
LeafFromSig(sig, msg, seed, addr, leaf) ==
  IF sig = wots_sign(msg, seed, addr, leaf)
  THEN gen_leaf_wots(seed, addr, leaf)
  ELSE Junk

-----------------------------------------------------------------------------

\* One turn of compute_root: the node with its sibling from the path.
ParentOnPath(node, h, leafidx, auth_path, seed, addr) ==
  IF Bit(leafidx, h) = 1
  THEN thash_h(auth_path[h], node, seed, addr, h, Shr(leafidx, h + 1))
  ELSE thash_h(node, auth_path[h], seed, addr, h, Shr(leafidx, h + 1))

\* The root that a leaf and an authentication path lead to.
compute_root(params, leaf, leafidx, auth_path, seed, addr) ==
  For(params.tree_height,
      LAMBDA node, h : ParentOnPath(node, h, leafidx, auth_path, seed, addr),
      leaf)

\* One layer of the verifier: root is what the one-time key must have signed.
LayerRoot(params, sm, pk, root, i) ==
  LET th   == params.tree_height
      addr == [layer |-> i, tree |-> Shr(sm.idx, (i + 1) * th)]
      leaf == Low(Shr(sm.idx, i * th), th)
  IN  compute_root(params,
        LeafFromSig(sm.layers[i].sig, root, pk.seed, addr, leaf),
        leaf, sm.layers[i].auth, pk.seed, addr)

(***************************************************************************)
(* The verifier: from the message hash up, layer by layer, the one-time    *)
(* signature gives a leaf, the leaf a root, the root is what the next      *)
(* layer has signed.  TRUE stands for the return code 0, FALSE for -1.     *)
(***************************************************************************)
sign_open(params, sm, pk) ==
  For(params.d, LAMBDA root, i : LayerRoot(params, sm, pk, root, i),
      hash_message(pk.root, sm.idx)) = pk.root
=============================================================================
