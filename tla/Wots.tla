-------------------------------- MODULE Wots --------------------------------
(***************************************************************************)
(* The one-time signature scheme WOTS+ (wots.c): a digest becomes a list   *)
(* of chain lengths, its digits in base w followed by those of a checksum, *)
(* and a signature holds the value at that position of every chain.        *)
(*                                                                         *)
(* A chain value is its position: thash_f is right only at the address of  *)
(* the position it starts from, and gives Junk anywhere else.              *)
(***************************************************************************)
EXTENDS Integers, FiniteSetsExt

CONSTANTS
  N,            \* params->n, bytes in a digest
  Ws,           \* the values of params->wots_w to start from
  Bytes,        \* what the first two bytes of a digest may be
  Fills         \* what all others may be

ASSUME WotsAssumption ==
  /\ N \in Nat /\ N >= 2
  /\ Ws \subseteq {4, 16, 256}
  /\ Bytes \subseteq 0 .. 255
  /\ Fills \subseteq 0 .. 255

VARIABLES
  params,       \* wots_w and what xmss_xmssmt_initialize_params makes of it
  digest,       \* the n bytes signed, or NoDigest
  sig           \* position of the value of every chain

vars == <<params, digest, sig>>

NoDigest == <<>>
Junk == -1
Digests ==
  {[i \in 0 .. N - 1 |-> IF i = 0 THEN a ELSE IF i = 1 THEN b ELSE f] :
     a \in Bytes, b \in Bytes, f \in Fills}

Params(w) ==
  LET log_w == CASE w = 4 -> 2 [] w = 16 -> 4 [] w = 256 -> 8
      len2  == CASE w = 4 -> 5 [] w = 16 -> 3 [] w = 256 -> 2
  IN  [w |-> w, log_w |-> log_w, len1 |-> (8 * N) \div log_w, len2 |-> len2]

Chains(par) == 0 .. par.len1 + par.len2 - 1

-----------------------------------------------------------------------------

\* Mutant: the digits of a byte are taken in the wrong order.
base_wReversed(par, out_len, input) ==
  [k \in 0 .. out_len - 1 |->
     (input[(k * par.log_w) \div 8] \div 2^((k * par.log_w) % 8)) % par.w]

\* Digit k in base w of an array of bytes, the most significant bits first.
base_w(par, out_len, input) ==
  [k \in 0 .. out_len - 1 |->
     (input[(k * par.log_w) \div 8]
        \div 2^(8 - par.log_w - ((k * par.log_w) % 8))) % par.w]

\* Mutant: the checksum grows with the digits it is to balance.
ChecksumRising(par, msg) == MapThenSumSet(LAMBDA i : msg[i], DOMAIN msg)

\* What the digits of a digest lack to their maximum, in all.
Checksum(par, msg) == MapThenSumSet(LAMBDA i : par.w - 1 - msg[i], DOMAIN msg)

\* The checksum, shifted to the left end of its bytes, in base w.
wots_checksum(par, msg) ==
  LET size  == (par.len2 * par.log_w + 7) \div 8
      csum  == Checksum(par, msg) * 2^(8 - ((par.len2 * par.log_w) % 8))
  IN  base_w(par, par.len2,
             [i \in 0 .. size - 1 |-> (csum \div 256^(size - 1 - i)) % 256])

chain_lengths(par, msg) ==
  LET digits == base_w(par, par.len1, msg)
      check  == wots_checksum(par, digits)
  IN  [i \in Chains(par) |->
         IF i < par.len1 THEN digits[i] ELSE check[i - par.len1]]

\* The value reached from in after steps hashes, the first at address start.
gen_chain(par, in, start, steps) ==
  LET end == Min({start + steps, par.w}) IN
  IF end <= start THEN in ELSE IF in = start THEN end ELSE Junk

wots_pkgen(par) == [i \in Chains(par) |-> gen_chain(par, 0, 0, par.w - 1)]

wots_sign(par, msg) ==
  LET lengths == chain_lengths(par, msg)
  IN  [i \in Chains(par) |-> gen_chain(par, 0, 0, lengths[i])]

\* Mutant: the steps already made by the signer are not taken off.
FromSigFull(par, signature, lengths) ==
  [i \in Chains(par) |->
     gen_chain(par, signature[i], lengths[i], par.w - 1)]

FromSig(par, signature, lengths) ==
  [i \in Chains(par) |->
     gen_chain(par, signature[i], lengths[i], par.w - 1 - lengths[i])]

wots_pk_from_sig(par, signature, msg) ==
  FromSig(par, signature, chain_lengths(par, msg))

-----------------------------------------------------------------------------

Init ==
  /\ \E w \in Ws : params = Params(w)
  /\ digest = NoDigest
  /\ sig = [i \in Chains(params) |-> 0]

\* A one-time key signs one digest; that it signs no more is KeyIndex's part.
Sign ==
  /\ digest = NoDigest
  /\ digest' \in Digests
  /\ sig' = wots_sign(params, digest')
  /\ UNCHANGED params

Next == Sign

Spec == Init /\ [][Next]_vars

-----------------------------------------------------------------------------

Signed == digest # NoDigest

(***************************************************************************)
(* Signing and verifying meet: from a signature the verifier reaches the   *)
(* public key with the digest that was signed and with no other one.       *)
(***************************************************************************)
FitsItsDigestOnly ==
  Signed => \A d \in Digests :
    wots_pk_from_sig(params, sig, d) = wots_pkgen(params) <=> d = digest

(***************************************************************************)
(* The digits of the checksum, read as a number in base w, are the         *)
(* checksum: no significant digit is lost in the shift, the conversion to  *)
(* bytes or the number of digits, however large the sum is.                *)
(***************************************************************************)
ChecksumKept ==
  Signed =>
    LET digits == base_w(params, params.len1, digest)
        check  == wots_checksum(params, digits)
    IN  MapThenSumSet(LAMBDA i : check[i] * params.w^(params.len2 - 1 - i),
                      DOMAIN check)
        = MapThenSumSet(LAMBDA i : params.w - 1 - digits[i], DOMAIN digits)

(***************************************************************************)
(* The signatures of two digests are never one ahead of the other: in some *)
(* chain each of them is behind, which is what the checksum is for.        *)
(***************************************************************************)
DigestsIncomparable ==
  Signed => \A d \in Digests \ {digest} :
    LET other == chain_lengths(params, d)
    IN  \E i \in Chains(params) : sig[i] < other[i]
=============================================================================
