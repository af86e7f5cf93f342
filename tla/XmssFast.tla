------------------------------ MODULE XmssFast ------------------------------
(***************************************************************************)
(* Single-tree XMSS as xmss_core_fast.c implements it: a key pair is       *)
(* generated with a BDS state, and every signature is read off the state,  *)
(* which is then moved on to the next leaf.                                *)
(***************************************************************************)
EXTENDS BDS

CONSTANTS
  TreeHeight,   \* params->tree_height, equal to full_height
  BdsKs,        \* the values of params->bds_k to start from
  IndexSpace,   \* what the index field can hold; stands for 256^index_bytes
  Garbage       \* numbers that uninitialised memory may hold

ASSUME XmssFastAssumption ==
  /\ TreeHeight \in Nat \ {0}
  /\ BdsKs \subseteq 0 .. TreeHeight
  /\ IndexSpace \in Nat /\ IndexSpace >= 2^TreeHeight
  /\ Garbage \subseteq 0 .. 255

\* What powers of two are, as far as the proofs need it.
ASSUME PowersAssumption == PowersOfTwo(TreeHeight)

VARIABLES
  params,       \* the parameter set, fixed once the key exists
  sk,           \* the secret key: idx, seed, root, state
  pk,           \* the public key: seed, root
  out           \* what the last call of xmss_core_sign returned

vars == <<params, sk, pk, out>>

Leaves == 2^TreeHeight
LastIndex == Leaves - 1
TheTree == [layer |-> 0, tree |-> 0]
NoSig == [idx |-> 0]     \* sm was not written

-----------------------------------------------------------------------------

\* xmss_core_keypair, into a buffer whose numbers all hold g.
KeyPair(par, g) ==
  LET raw   == [Uninitialised(par, g) EXCEPT !.stackoffset = 0, !.next_leaf = 0]
      built == treehash_init(par, raw, RealSeed, TheTree)
  IN  [idx |-> 0, seed |-> RealSeed, root |-> built.root,
       state |-> Serialized(built.state)]

Init ==
  \E k \in BdsKs, g \in Garbage :
    /\ params = [tree_height |-> TreeHeight, bds_k |-> k, d |-> 1]
    /\ sk = KeyPair(params, g)
    /\ pk = [seed |-> RealSeed, root |-> sk.root]
    /\ out = [ret |-> "none", sm |-> NoSig]

\* The signature assembled from a key, whose seeds may have been wiped.
Signature(key) ==
  [idx    |-> key.idx,
   layers |-> [i \in {0} |->
     [sig  |-> wots_sign(hash_message(key.root, key.idx), key.seed, TheTree,
                         key.idx),
      auth |-> key.state.auth]]]

\* Mutant: a new path, and no updates for the instances.
AdvancedIdle(key) ==
  bds_round(params, key.state, key.idx, key.seed, TheTree)

\* bds_round and the updates that follow every signature but the last.
Advanced(key) ==
  LET round == bds_round(params, key.state, key.idx, key.seed, TheTree)
  IN  bds_treehash_update(params, round, Shr(Instances(params), 1), key.seed,
                          TheTree).state

\* Mutant: the index is not advanced.
SignStuck ==
  /\ sk.idx < LastIndex
  /\ sk' = [sk EXCEPT !.state = Serialized(Advanced(sk))]
  /\ out' = [ret |-> "ok", sm |-> Signature(sk)]
  /\ UNCHANGED <<params, pk>>

Sign ==
  /\ sk.idx < LastIndex
  /\ sk' = [sk EXCEPT !.idx = (@ + 1) % IndexSpace,
                      !.state = Serialized(Advanced(sk))]
  /\ out' = [ret |-> "ok", sm |-> Signature(sk)]
  /\ UNCHANGED <<params, pk>>

\* The key after memset at the last index; idx is in a local variable.
WipedKey(key) ==
  [key EXCEPT !.seed = ZeroSeed, !.root = ZeroNode, !.state = Wiped(@)]

(***************************************************************************)
(* The last index: the key is wiped first, and what follows reads the      *)
(* seeds, the root and the authentication path out of the wiped key.       *)
(***************************************************************************)
SignLast ==
  /\ sk.idx = LastIndex
  /\ sk' = [WipedKey(sk) EXCEPT !.idx = (@ + 1) % IndexSpace,
                                !.state = Serialized(@)]
  /\ out' = [ret |-> "ok", sm |-> Signature(WipedKey(sk))]
  /\ UNCHANGED <<params, pk>>

Refuse ==
  /\ sk.idx > LastIndex
  /\ sk' = [idx |-> IndexSpace - 1, seed |-> ZeroSeed, root |-> ZeroNode,
            state |-> Erased(sk.state)]
  /\ out' = [ret |-> "spent", sm |-> NoSig]
  /\ UNCHANGED <<params, pk>>

Next == Sign \/ SignLast \/ Refuse

Spec == Init /\ [][Next]_vars

-----------------------------------------------------------------------------

Verifies(sm) == sign_open(params, sm, pk)

(***************************************************************************)
(* Every signature before the last index verifies under the public key,    *)
(* which takes the right one-time key and the right authentication path:   *)
(* each bds_round must find every node it copies, kept or finished in time *)
(* by the updates of earlier calls.                                        *)
(***************************************************************************)
SignaturesVerify ==
  out.ret = "ok" /\ out.sm.idx < LastIndex => Verifies(out.sm)

\* Every signature returned with 0 verifies, as test/xmss.c:71-74 expects.
EverySignatureVerifies == out.ret = "ok" => Verifies(out.sm)

Running == {i \in DOMAIN sk.state.treehash : sk.state.treehash[i].completed = 0}

(***************************************************************************)
(* The instances share one stack, and it holds the tail nodes of those     *)
(* still running and nothing else: no instance is restarted before it has  *)
(* finished (its tail nodes would stay behind for ever and be taken for    *)
(* another's), and one that completes has none left, as the comment in     *)
(* treehash_update says.                                                   *)
(***************************************************************************)
StackIsTailNodes ==
  sk.seed = RealSeed =>
    /\ sk.state.stackoffset =
         MapThenSumSet(LAMBDA i : sk.state.treehash[i].stackusage, Running)
    /\ \A i \in DOMAIN sk.state.treehash \ Running :
         sk.state.treehash[i].stackusage = 0

\* No array in the secret key is written outside its bounds.
InBounds == StateInBounds(params, sk.state)

-----------------------------------------------------------------------------

Promise == INSTANCE Signer WITH
  next <- IF sk.seed = RealSeed THEN sk.idx ELSE Leaves,
  out  <- [ret |-> out.ret,
           key |-> IF out.ret = "ok" /\ out.sm.layers[0].sig.seed = RealSeed
                   THEN out.sm.layers[0].sig.leaf ELSE Leaves]

\* The one-time keys are used in order, none twice, and then never again.
ImplementsSigner == Promise!Spec
=============================================================================
