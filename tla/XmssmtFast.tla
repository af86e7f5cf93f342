----------------------------- MODULE XmssmtFast -----------------------------
(***************************************************************************)
(* The hypertree XMSS^MT as xmss_core_fast.c implements it.  Layer i has   *)
(* the tree in use, states[i], and below the top layer the tree that will  *)
(* replace it, states[d + i] (NEXT_i), built a leaf at a time from what    *)
(* the calls have to spare.  When a tree has made its last signature the   *)
(* two are swapped and the layer above signs the new root.                 *)
(***************************************************************************)
EXTENDS BDS

CONSTANTS
  TreeHeight,   \* params->tree_height, the same in every layer
  Layers,       \* params->d
  BdsKs,        \* the values of params->bds_k to start from
  IndexSpace,   \* what the index field can hold; stands for 256^index_bytes
  Garbage       \* numbers that uninitialised memory may hold

ASSUME XmssmtFastAssumption ==
  /\ TreeHeight \in Nat \ {0}
  /\ Layers \in Nat \ {0, 1}
  /\ BdsKs \subseteq 0 .. TreeHeight
  /\ IndexSpace \in Nat /\ IndexSpace >= 2^(TreeHeight * Layers)
  /\ Garbage \subseteq 0 .. 255

\* A law of arithmetic that the provers lack; it holds whatever the constants.
ASSUME PowersAssumption == PowersOfTwo(TreeHeight * Layers)

VARIABLES
  params,       \* the parameter set, fixed once the key exists
  sk,           \* the secret key: idx, seed, root, states, wots_sigs
  pk,           \* the public key: seed, root
  out,          \* what the last call of xmssmt_core_sign returned
  ots           \* history: per layer the last one-time key used, numbered
                \* from the left over the whole layer, and what it signed

vars == <<params, sk, pk, out, ots>>

Leaves == 2^(TreeHeight * Layers)
LastIndex == Leaves - 1
NoSig == [idx |-> 0]     \* sm was not written

\* Where layer i stands at an index: which tree, and which leaf of it.
LeafAt(idx, i) == Low(Shr(idx, i * TreeHeight), TreeHeight)
TreeAt(idx, i) == Shr(idx, (i + 1) * TreeHeight)
AddrAt(idx, i) == [layer |-> i, tree |-> TreeAt(idx, i)]

-----------------------------------------------------------------------------

\* xmssmt_core_keypair, into a buffer whose numbers all hold g: all first
\* trees, and the signatures of their roots but the topmost.
KeyPair(par, g) ==
  LET raw   == [Uninitialised(par, g) EXCEPT !.stackoffset = 0, !.next_leaf = 0]
      built == [i \in 0 .. Layers - 1 |->
                  treehash_init(par, raw, RealSeed, AddrAt(0, i))]
  IN  [idx       |-> 0,
       seed      |-> RealSeed,
       root      |-> built[Layers - 1].root,
       states    |-> [i \in 0 .. 2 * Layers - 2 |->
                        Serialized(IF i < Layers THEN built[i].state ELSE raw)],
       wots_sigs |-> [i \in 0 .. Layers - 2 |->
                        wots_sign(built[i].root, RealSeed, AddrAt(0, i + 1), 0)]]

Init ==
  \E k \in BdsKs, g \in Garbage :
    /\ params = [tree_height |-> TreeHeight, bds_k |-> k, d |-> Layers]
    /\ sk = KeyPair(params, g)
    /\ pk = [seed |-> RealSeed, root |-> sk.root]
    /\ out = [ret |-> "none", sm |-> NoSig]
    /\ ots = [i \in 0 .. Layers - 1 |->
                IF i = 0 THEN [key |-> -1, msg |-> Junk]
                         ELSE [key |-> 0, msg |-> sk.wots_sigs[i - 1].msg]]

\* The signature assembled from a key, whose seeds may have been wiped.
Signature(key) ==
  LET lowest == wots_sign(hash_message(key.root, key.idx), key.seed,
                          AddrAt(key.idx, 0), LeafAt(key.idx, 0))
  IN  [idx    |-> key.idx,
       layers |-> [i \in 0 .. Layers - 1 |->
                     [sig  |-> IF i = 0 THEN lowest ELSE key.wots_sigs[i - 1],
                      auth |-> key.states[i].auth]]]

-----------------------------------------------------------------------------

(***************************************************************************)
(* The work that follows a signature, on a record w of the local variables *)
(* of xmssmt_core_sign: states, wots_sigs, updates, needswap_upto.         *)
(***************************************************************************)
AtTreeEnd(idx, i) == Low(idx + 1, (i + 1) * TreeHeight) = 0

\* There is a tree to the right of the one in use on layer i.  (The test is
\* made on the leaf number 2^tree_height further on.)
HasNext(idx, i) ==
  (1 + TreeAt(idx, i)) * 2^TreeHeight + LeafAt(idx, i)
    < 2^(TreeHeight * (Layers - i))

NextAddr(idx, i) == [layer |-> i, tree |-> TreeAt(idx, i) + 1]

\* NEXT_0 gets a leaf from every signature.
FeedLowest(w, idx, seed) ==
  IF HasNext(idx, 0)
  THEN [w EXCEPT !.states[Layers] =
          bds_state_update(params, @, seed, NextAddr(idx, 0))]
  ELSE w

\* Mutant: NEXT_i is built in front of the tree in use.
AdvanceLayerNextFirst(w, i, idx, seed) ==
  LET addr  == AddrAt(idx, i)
      feeds == i > 0 /\ HasNext(idx, i) /\ w.updates > 0
      left  == IF feeds THEN w.updates - 1 ELSE w.updates
      round == IF i = w.needswap_upto + 1
               THEN bds_round(params, w.states[i], LeafAt(idx, i), seed, addr)
               ELSE w.states[i]
      spent == bds_treehash_update(params, round, left, seed, addr)
      fed   == [w EXCEPT !.states[i] = spent.state, !.updates = spent.updates]
  IN  IF feeds
      THEN [fed EXCEPT !.states[Layers + i] =
              bds_state_update(params, @, seed, NextAddr(idx, i))]
      ELSE fed

\* Mutant: NEXT_i gets a leaf with every call, an update left or not.
AdvanceLayerFree(w, i, idx, seed) ==
  LET addr  == AddrAt(idx, i)
      round == IF i = w.needswap_upto + 1
               THEN bds_round(params, w.states[i], LeafAt(idx, i), seed, addr)
               ELSE w.states[i]
      spent == bds_treehash_update(params, round, w.updates, seed, addr)
      after == [w EXCEPT !.states[i] = spent.state, !.updates = spent.updates]
  IN  IF HasNext(idx, i) /\ i > 0
      THEN [after EXCEPT !.states[Layers + i] =
              bds_state_update(params, @, seed, NextAddr(idx, i))]
      ELSE after

(***************************************************************************)
(* The tree of layer i goes on: a new path if everything below was         *)
(* swapped, updates for its instances, and if one is left over, a leaf for *)
(* NEXT_i.  An update given to a NEXT_i that is complete is spent all the  *)
(* same: the limit tested is full_height's, not tree_height's.             *)
(***************************************************************************)
AdvanceLayer(w, i, idx, seed) ==
  LET addr  == AddrAt(idx, i)
      round == IF i = w.needswap_upto + 1
               THEN bds_round(params, w.states[i], LeafAt(idx, i), seed, addr)
               ELSE w.states[i]
      spent == bds_treehash_update(params, round, w.updates, seed, addr)
      after == [w EXCEPT !.states[i] = spent.state, !.updates = spent.updates]
  IN  IF /\ HasNext(idx, i)
         /\ i > 0 /\ spent.updates > 0
         /\ w.states[Layers + i].next_leaf < Leaves
      THEN [after EXCEPT
              !.states[Layers + i] =
                 bds_state_update(params, @, seed, NextAddr(idx, i)),
              !.updates = @ - 1]
      ELSE after

\* Mutant: the tree number of the index before, not of the one to come.
ParentAddrStale(idx, i) ==
  [layer |-> i + 1, tree |-> Shr(idx, (i + 2) * TreeHeight)]

\* The one-time key above layer i that signs the root of the tree after
\* the one that idx ends.
ParentAddr(idx, i) ==
  [layer |-> i + 1, tree |-> Shr(idx + 1, (i + 2) * TreeHeight)]
ParentLeaf(idx, i) ==
  Low(Shr(idx, (i + 1) * TreeHeight) + 1, TreeHeight)

\* Mutant: the tree that is swapped out keeps its stack and its leaf count.
SwapLayerDirty(w, i, idx, seed) ==
  LET used == w.states[i]
      new  == w.states[Layers + i]
  IN  [w EXCEPT
        !.states[i] = [new EXCEPT !.treehash =
                         [j \in DOMAIN @ |-> [@[j] EXCEPT !.completed = 1]]],
        !.states[Layers + i] = [used EXCEPT !.next_leaf = 0],
        !.wots_sigs[i] = wots_sign(new.stack[0], seed, ParentAddr(idx, i),
                                   ParentLeaf(idx, i)),
        !.updates = Unsigned(@ - 1),
        !.needswap_upto = i]

(***************************************************************************)
(* The tree of layer i has made its last signature: NEXT_i takes its place *)
(* with its root (at the bottom of its stack) signed by the layer above.   *)
(* That costs one update, which below zero wraps to a very large number.   *)
(***************************************************************************)
SwapLayer(w, i, idx, seed) ==
  LET used == w.states[i]
      new  == w.states[Layers + i]
  IN  [w EXCEPT
        !.states[i] = [new EXCEPT !.treehash =
                         [j \in DOMAIN @ |-> [@[j] EXCEPT !.completed = 1]]],
        !.states[Layers + i] = [used EXCEPT !.stackoffset = 0, !.next_leaf = 0],
        !.wots_sigs[i] = wots_sign(new.stack[0], seed, ParentAddr(idx, i),
                                   ParentLeaf(idx, i)),
        !.updates = Unsigned(@ - 1),
        !.needswap_upto = i]

Advanced(key) ==
  LET start == [states |-> key.states, wots_sigs |-> key.wots_sigs,
                updates |-> Shr(Instances(params), 1), needswap_upto |-> -1]
      Layer(w, i) ==
        IF ~ AtTreeEnd(key.idx, i) THEN AdvanceLayer(w, i, key.idx, key.seed)
        ELSE IF key.idx < LastIndex THEN SwapLayer(w, i, key.idx, key.seed)
        ELSE w
  IN  For(Layers, Layer, FeedLowest(start, key.idx, key.seed))

\* sk after a call that read idx: key as it is in memory, idx + 1 in front.
Written(key) ==
  LET done == Advanced(key)
  IN  [key EXCEPT
         !.idx = (@ + 1) % IndexSpace,
         !.states = [i \in DOMAIN @ |-> Serialized(done.states[i])],
         !.wots_sigs = done.wots_sigs]

\* The history after a call: the lowest layer's key of the message, and the
\* keys above that signed a new root.
Used(key, written) ==
  LET next == key.idx + 1 IN
  [i \in 0 .. Layers - 1 |->
     IF key.seed # RealSeed THEN ots[i]
     ELSE IF i = 0
     THEN [key |-> key.idx, msg |-> hash_message(key.root, key.idx)]
     ELSE IF AtTreeEnd(key.idx, i - 1)
     THEN LET sig == written.wots_sigs[i - 1]
          IN  [key |-> sig.tree * 2^TreeHeight + sig.leaf, msg |-> sig.msg]
     ELSE ots[i]]

-----------------------------------------------------------------------------

\* Mutant: the index is not advanced.
SignStuck ==
  /\ sk.idx < LastIndex
  /\ sk' = [Written(sk) EXCEPT !.idx = sk.idx]
  /\ out' = [ret |-> "ok", sm |-> Signature(sk)]
  /\ ots' = Used(sk, sk')
  /\ UNCHANGED <<params, pk>>

Sign ==
  /\ sk.idx < LastIndex
  /\ sk' = Written(sk)
  /\ out' = [ret |-> "ok", sm |-> Signature(sk)]
  /\ ots' = Used(sk, sk')
  /\ UNCHANGED <<params, pk>>

\* The key after memset at the last index; idx is in a local variable.
WipedKey(key) ==
  [key EXCEPT !.seed = ZeroSeed, !.root = ZeroNode,
              !.states = [i \in DOMAIN @ |-> Wiped(@[i])],
              !.wots_sigs = [i \in DOMAIN @ |-> ZeroSig]]

(***************************************************************************)
(* The last index: the key is wiped first, and what follows reads seeds,   *)
(* root, signatures and paths out of the wiped key.                        *)
(***************************************************************************)
SignLast ==
  /\ sk.idx = LastIndex
  /\ sk' = Written(WipedKey(sk))
  /\ out' = [ret |-> "ok", sm |-> Signature(WipedKey(sk))]
  /\ ots' = Used(WipedKey(sk), sk')
  /\ UNCHANGED <<params, pk>>

Refuse ==
  /\ sk.idx > LastIndex
  /\ sk' = [WipedKey(sk) EXCEPT !.idx = IndexSpace - 1,
                                !.states = [i \in DOMAIN @ |-> Erased(@[i])]]
  /\ out' = [ret |-> "spent", sm |-> NoSig]
  /\ UNCHANGED <<params, pk, ots>>

Next == Sign \/ SignLast \/ Refuse

Spec == Init /\ [][Next]_vars

-----------------------------------------------------------------------------

(***************************************************************************)
(* Every signature before the last index verifies under the public key.    *)
(* In every layer the path must be that of the leaf in use and the         *)
(* signature of the layer above must be on the true root, so every NEXT_i  *)
(* must be complete when it is swapped in.                                 *)
(***************************************************************************)
SignaturesVerify ==
  out.ret = "ok" /\ out.sm.idx < LastIndex => sign_open(params, out.sm, pk)

(***************************************************************************)
(* No one-time key of any layer signs two messages: keys are used from     *)
(* left to right, and one used again signs the same root again.            *)
(***************************************************************************)
OneMessagePerKey ==
  [][\A i \in 0 .. Layers - 1 :
       /\ ots'[i].key >= ots[i].key
       /\ ots'[i].key = ots[i].key => ots'[i].msg = ots[i].msg]_vars

Running(s) == {i \in DOMAIN s.treehash : s.treehash[i].completed = 0}

(***************************************************************************)
(* The stack of the tree in use holds the tail nodes of its running        *)
(* instances, above the root that a swap leaves at the bottom; that of a   *)
(* NEXT tree holds one node per one bit of its leaf count.                 *)
(***************************************************************************)
StackContents ==
  sk.seed = RealSeed =>
    \A i \in 0 .. Layers - 1 :
      /\ sk.states[i].stackoffset =
           (IF TreeAt(sk.idx, i) > 0 THEN 1 ELSE 0)
             + MapThenSumSet(LAMBDA j : sk.states[i].treehash[j].stackusage,
                             Running(sk.states[i]))
      /\ i < Layers - 1 =>
           LET next == sk.states[Layers + i]
           IN  next.stackoffset =
                 Cardinality({b \in 0 .. TreeHeight : Bit(next.next_leaf, b) = 1})

\* No array in the secret key is written outside its bounds.
InBounds ==
  \A i \in DOMAIN sk.states : StateInBounds(params, sk.states[i])

-----------------------------------------------------------------------------

Promise == INSTANCE Signer WITH
  next <- IF sk.seed = RealSeed THEN sk.idx ELSE Leaves,
  out  <- [ret |-> out.ret,
           key |-> IF out.ret = "ok" /\ out.sm.layers[0].sig.seed = RealSeed
                   THEN out.sm.idx ELSE Leaves]

\* The lowest one-time keys are used in order, none twice, then never again.
ImplementsSigner == Promise!Spec

\* What a call may spend, which leaf each layer signs with next, and how many
\* leaves the NEXT tree of each layer has.
UpdatesPerCall == Shr(Instances(params), 1)
LeavesUsed ==
  [i \in 0 .. Layers - 1 |->
     IF sk.seed = RealSeed THEN LeafAt(sk.idx, i) ELSE 2^TreeHeight - 1]
LeavesReady ==
  [i \in 0 .. Layers - 2 |->
     IF sk.seed = RealSeed THEN sk.states[Layers + i].next_leaf ELSE 0]

Spending == INSTANCE Budget WITH
  Width   <- 2^TreeHeight,
  updates <- UpdatesPerCall,
  pos     <- LeavesUsed,
  ready   <- LeavesReady

(***************************************************************************)
(* However the trees spend them, the NEXT trees get their leaves as the    *)
(* budget of updates says: no leaf more, and none less than the layers     *)
(* below leave over.                                                       *)
(***************************************************************************)
ImplementsBudget == Spending!Spec
=============================================================================
