----------------------------- MODULE SecretKey -----------------------------
(***************************************************************************)
(* The secret key as bytes.  First idx, SK_SEED, SK_PRF, root, PUB_SEED;   *)
(* in the fast implementation then 2d - 1 serialised BDS states and d - 1  *)
(* WOTS+ signatures.  How long it is comes from a formula, where things    *)
(* are from three other places: the offsets of key generation and signing, *)
(* and the pointers that serialising and deserialising move along.         *)
(*                                                                         *)
(* p is a parameter record of ParamSets.  A walk is a sequence of fields   *)
(* <<name, bytes>>, one for each step of the pointer.                      *)
(***************************************************************************)
EXTENDS Integers, Sequences, TLC

Half(x) == x \div 2     \* x >> 1

\* xmss_xmssmt_core_sk_bytes of xmss_core.c.
core_sk_bytes(p) == p.index_bytes + 4 * p.n

\* Mutant: a treehash instance without the byte for completed.
fast_sk_bytesShort(p) ==
  LET state == (p.tree_height + 1) * p.n + 4 + p.tree_height + 1
                 + p.tree_height * p.n + Half(p.tree_height) * p.n
                 + (p.tree_height - p.bds_k) * (6 + p.n)
                 + (2^p.bds_k - p.bds_k - 1) * p.n + 4
  IN  p.index_bytes + 4 * p.n + (2 * p.d - 1) * state
        + (p.d - 1) * p.wots_sig_bytes

\* xmss_xmssmt_core_sk_bytes of xmss_core_fast.c.
fast_sk_bytes(p) ==
  LET state == (p.tree_height + 1) * p.n + 4 + p.tree_height + 1
                 + p.tree_height * p.n + Half(p.tree_height) * p.n
                 + (p.tree_height - p.bds_k) * (7 + p.n)
                 + (2^p.bds_k - p.bds_k - 1) * p.n + 4
  IN  p.index_bytes + 4 * p.n + (2 * p.d - 1) * state
        + (p.d - 1) * p.wots_sig_bytes

-----------------------------------------------------------------------------

Repeat(n, walk) ==
  [j \in 1 .. n * Len(walk) |-> walk[1 + ((j - 1) % Len(walk))]]

\* One state, as xmssmt_serialize_state goes over it; it writes the numbers
\* and leaves alone what states[i] points to in the key itself.
SerializeWalk(p) ==
  << <<"stack", (p.tree_height + 1) * p.n>>, <<"stackoffset", 4>>,
     <<"stacklevels", p.tree_height + 1>>, <<"auth", p.tree_height * p.n>>,
     <<"keep", Half(p.tree_height) * p.n>> >>
  \o Repeat(p.tree_height - p.bds_k,
       << <<"h", 1>>, <<"next_idx", 4>>, <<"stackusage", 1>>,
          <<"completed", 1>>, <<"node", p.n>> >>)
  \o << <<"retain", (2^p.bds_k - p.bds_k - 1) * p.n>>, <<"next_leaf", 4>> >>

\* One state, as xmssmt_deserialize_state reads numbers and sets pointers.
DeserializeWalk(p) ==
  << <<"stack", (p.tree_height + 1) * p.n>>, <<"stackoffset", 4>>,
     <<"stacklevels", p.tree_height + 1>>, <<"auth", p.tree_height * p.n>>,
     <<"keep", Half(p.tree_height) * p.n>> >>
  \o Repeat(p.tree_height - p.bds_k,
       << <<"h", 1>>, <<"next_idx", 4>>, <<"stackusage", 1>>,
          <<"completed", 1>>, <<"node", p.n>> >>)
  \o << <<"retain", (2^p.bds_k - p.bds_k - 1) * p.n>>, <<"next_leaf", 4>> >>

\* The buffer in which deep_state_swap keeps one field of a state.
SwapBuffer(p) ==
  LET stack  == p.tree_height + 1
      retain == 2^p.bds_k - p.bds_k - 1
  IN  (IF stack > retain THEN stack ELSE retain) * p.n

Bytes(walk) ==
  LET upTo[j \in 0 .. Len(walk)] ==
        IF j = 0 THEN 0 ELSE upTo[j - 1] + walk[j][2]
  IN  upTo[Len(walk)]

\* Where a walk over the states that sets out behind PUB_SEED ends.
StatesEnd(p, walk) == p.index_bytes + 4 * p.n + (2 * p.d - 1) * Bytes(walk)

-----------------------------------------------------------------------------

\* Offsets of the first fields, from the beginning of the key without OID.
SkSeedAt(p)  == p.index_bytes
SkPrfAt(p)   == p.index_bytes + p.n
RootAt(p)    == p.index_bytes + 2 * p.n
PubSeedAt(p) == p.index_bytes + 3 * p.n

\* A signature as xmss*_core_sign and the verifier step through it: index,
\* R, then for each layer a WOTS+ signature and a path.
SignatureWalk(p) ==
  << <<"idx", p.index_bytes>>, <<"R", p.n>> >>
  \o Repeat(p.d, << <<"wots_sig", p.wots_sig_bytes>>,
                    <<"auth", p.tree_height * p.n>> >>)

\* What hash_message puts in front of the message, where the signature goes.
HashPrefix(p) == p.padding_len + 3 * p.n
=============================================================================
