------------------------------ MODULE KeyTools ------------------------------
(***************************************************************************)
(* The three command line programs with the wrappers of xmss.c between     *)
(* them and the library: ui/keypair.c makes a file of public and secret    *)
(* key, ui/sign.c signs with it and puts it back, ui/open.c verifies.      *)
(* Nothing but the file connects them: each finds out the parameter set    *)
(* from an OID in it and goes to places in it by adding up sizes.          *)
(*                                                                         *)
(* Programs run to the end here, one after the other; what happens when    *)
(* one is killed or two overlap is in SignTool.  Contents are symbols, but *)
(* offsets and lengths are the real ones.  Signature files hold no message *)
(* of their own: two signatures differ in index and key.                   *)
(***************************************************************************)
EXTENDS ParamSets, RandomBytes

CONSTANTS
  Leaves,    \* how many one-time keys a key has; stands for 2^full_height
  MaxKeys    \* bound: how many key pairs are made

ASSUME KeyToolsAssumption ==
  /\ Leaves \in Nat /\ Leaves >= 2
  /\ MaxKeys \in Nat

VARIABLES
  build,     \* how the programs were compiled: mt for XMSSMT, fast for the
             \* implementation they are linked with
  name,      \* the parameter string given to keypair
  step,      \* where keypair is: "none", "seeds", "pubSeed"
  drawn,     \* the random values it has so far
  file,      \* the key file: at which offset what begins, and its length
  sigs,      \* the signature files
  verdict,   \* the last run of open: the signature file and the return code
  keys,      \* history: the number of key pairs made
  signed     \* history: signatures made with this key, up to Leaves + 1

toolVars == <<build, name, step, drawn, file, sigs, verdict, keys, signed>>
vars == <<toolVars, randomVars>>

OID_LEN == 4    \* XMSS_OID_LEN

\* The params that a program with this build has after parsing an OID.
TheParams(oid) == ParamsOf(build.mt, build.fast, oid)

\* What is in memory or in a file.
Old      == [old |-> TRUE]                    \* not written since allocated
Zero     == [zero |-> TRUE]                   \* n zero bytes
Torn     == [torn |-> TRUE]                   \* parts of different fields
Seed(k, j) == [key |-> k, seed |-> j]         \* what randombytes delivers
Root(skSeed, pubSeed) == [skSeed |-> skSeed, pubSeed |-> pubSeed]
JunkSig  == [junk |-> TRUE]                   \* a buffer that never was signed

-----------------------------------------------------------------------------
(* The library.                                                            *)

SkPlaces(p) == {SkSeedAt(p), SkPrfAt(p), RootAt(p), PubSeedAt(p)}

\* Mutant: root and PUB_SEED the other way round.
NewKeySwapped(p, seeds) ==
  LET root == Root(seeds[1], seeds[3]) IN
  [sk |-> [idx |-> 0,
           at  |-> [o \in SkPlaces(p) |->
                     CASE o = SkSeedAt(p)  -> seeds[1]
                       [] o = SkPrfAt(p)   -> seeds[2]
                       [] o = PubSeedAt(p) -> root
                       [] o = RootAt(p)    -> seeds[3]]],
   pk |-> [o \in {0, p.n} |-> IF o = 0 THEN root ELSE seeds[3]]]

\* Key generation from SK_SEED, SK_PRF and PUB_SEED.
NewKey(p, seeds) ==
  LET root == Root(seeds[1], seeds[3]) IN
  [sk |-> [idx |-> 0,
           at  |-> [o \in SkPlaces(p) |->
                     CASE o = SkSeedAt(p)  -> seeds[1]
                       [] o = SkPrfAt(p)   -> seeds[2]
                       [] o = PubSeedAt(p) -> seeds[3]
                       [] o = RootAt(p)    -> root]],
   pk |-> [o \in {0, p.n} |-> IF o = 0 THEN root ELSE seeds[3]]]

\* A field of 8 * index_bytes bits is full for heights of 40; all others have
\* a number to spare, which stands for all that say "spent".
IndexSpace(p) == IF p.full_height = 8 * p.index_bytes THEN Leaves ELSE Leaves + 1

WipedKey(p, sk) ==
  [idx |-> IndexSpace(p) - 1, at |-> [o \in DOMAIN sk.at |-> Zero]]

(***************************************************************************)
(* xmss_core_sign, xmssmt_core_sign: from the last index on the key is     *)
(* wiped, and at the last one the signature is made of what is left of it. *)
(* On refusal sm holds no signature.                                       *)
(***************************************************************************)
Signed(p, sk) ==
  LET last == Leaves - 1
      key  == IF sk.idx >= last THEN WipedKey(p, sk) ELSE sk
  IN  IF sk.idx > last
      THEN [ret |-> -2, sk |-> key, sm |-> JunkSig]
      ELSE [ret |-> 0,
            sk  |-> [key EXCEPT !.idx = (sk.idx + 1) % IndexSpace(p)],
            sm  |-> [idx     |-> IF build.fast THEN sk.idx ELSE key.idx,
                     skSeed  |-> key.at[SkSeedAt(p)],
                     pubSeed |-> key.at[PubSeedAt(p)],
                     root    |-> key.at[RootAt(p)]]]

\* The verifier hashes the message with the root in pk and arrives at a root
\* with the public seed in pk.
Verified(p, sm, pk) ==
  /\ sm # JunkSig
  /\ sm.root = pk[0]
  /\ sm.pubSeed = pk[p.n]
  /\ Root(sm.skSeed, sm.pubSeed) = pk[0]

-----------------------------------------------------------------------------
(* The file.                                                               *)

Entry(len, val) == [len |-> len, val |-> val]

\* What a read of len bytes at an offset delivers.
Field(f, offset, len) ==
  IF offset \in DOMAIN f /\ f[offset].len = len THEN f[offset].val ELSE Torn

OidAt(f, offset) ==
  LET val == Field(f, offset, OID_LEN)
  IN  IF "oid" \in DOMAIN val THEN val.oid ELSE NoOid

\* The file after len bytes were written at an offset.
Overwritten(f, offset, len, val) ==
  LET kept == {o \in DOMAIN f : o + f[o].len <= offset \/ offset + len <= o}
  IN  [o \in kept \union {offset} |-> IF o = offset THEN Entry(len, val) ELSE f[o]]

\* What keypair puts out: OID and public key, OID and secret key.
KeyFile(p, oid, key) ==
  LET skAt == OID_LEN + p.pk_bytes IN
  [o \in {0, OID_LEN, skAt, skAt + OID_LEN} |->
     CASE o \in {0, skAt}     -> Entry(OID_LEN, [oid |-> oid])
       [] o = OID_LEN         -> Entry(p.pk_bytes, key.pk)
       [] o = skAt + OID_LEN  -> Entry(p.sk_bytes, key.sk)]

NoFile == << >>

-----------------------------------------------------------------------------
(* ui/keypair.c                                                            *)

Oid == OidOf(build.mt, name)

\* A name without OID: 0 is no OID either, and the program gives up.
KeypairRefused ==
  /\ step = "none"
  /\ ~ KnownOid(build.mt, Oid)
  /\ UNCHANGED vars

\* xmss_core.c asks for all seeds at once, xmss_core_fast.c first for two.
Keypair ==
  /\ step = "none" /\ keys < MaxKeys
  /\ KnownOid(build.mt, Oid)
  /\ Call(IF build.fast THEN 2 ELSE 3)
  /\ step' = "seeds" /\ drawn' = << >>
  /\ UNCHANGED <<build, name, file, sigs, verdict, keys, signed>>

\* The values now in the buffer that randombytes was given.
Drawn ==
  [j \in 1 .. wanted |->
     IF j - 1 \in filled THEN Seed(keys + 1, Len(drawn) + j) ELSE Old]

KeypairPubSeed ==
  /\ step = "seeds" /\ at = "idle" /\ build.fast
  /\ drawn' = Drawn
  /\ Call(1)
  /\ step' = "pubSeed"
  /\ UNCHANGED <<build, name, file, sigs, verdict, keys, signed>>

KeypairDone ==
  /\ at = "idle"
  /\ step = (IF build.fast THEN "pubSeed" ELSE "seeds")
  /\ \E p \in {TheParams(Oid)} : file' = KeyFile(p, Oid, NewKey(p, drawn \o Drawn))
  /\ step' = "none" /\ drawn' = << >>
  /\ keys' = keys + 1 /\ signed' = 0
  /\ fd' = -1 /\ filled' = {} /\ wanted' = 0 /\ x' = 0    \* the process exits
  /\ UNCHANGED <<build, name, sigs, verdict, xlen, at>>

-----------------------------------------------------------------------------
(* ui/sign.c and ui/open.c                                                 *)

\* Mutant: the program seeks back over the OID as well, as it did before.
WriteBackAtOid(f, p, end, sk) ==
  Overwritten(f, end - OID_LEN - p.sk_bytes, p.sk_bytes, sk)

\* The secret key goes back to where it was read from; end is the position
\* after that read.
WriteBack(f, p, end, sk) ==
  Overwritten(f, end - p.sk_bytes, p.sk_bytes, sk)

(***************************************************************************)
(* One run of sign.  The public key's OID says how far to seek, the secret *)
(* key's which parameters to use; if one is not known nothing is written.  *)
(* The return code of the signing function is not looked at.  After a      *)
(* refusal xmss_core_fast.c leaves the length of sm uninitialised, so the  *)
(* program writes any number of bytes, or dies in the attempt.             *)
(***************************************************************************)
Sign ==
  /\ step = "none" /\ file # NoFile
  /\ KnownOid(build.mt, OidAt(file, 0))
  /\ \E skAt \in {OID_LEN + TheParams(OidAt(file, 0)).pk_bytes} :
     /\ KnownOid(build.mt, OidAt(file, skAt))
     /\ \E p \in {TheParams(OidAt(file, skAt))} :
        \E done \in {Signed(p, Field(file, skAt + OID_LEN, p.sk_bytes))} :
          \/ /\ file' = WriteBack(file, p, skAt + OID_LEN + p.sk_bytes, done.sk)
             /\ sigs' = sigs \union
                  {[sm |-> done.sm,
                    by |-> IF signed < Leaves - 1 THEN keys ELSE 0]}
          \/ /\ build.fast /\ done.ret = -2
             /\ UNCHANGED <<file, sigs>>
  /\ signed' = IF signed > Leaves THEN signed ELSE signed + 1
  /\ UNCHANGED <<build, name, step, drawn, verdict, keys, randomVars>>

\* One run of open: 0 if the signature verifies, -1 if not.
Open ==
  /\ step = "none" /\ file # NoFile
  /\ KnownOid(build.mt, OidAt(file, 0))
  /\ \E p \in {TheParams(OidAt(file, 0))}, s \in sigs :
       verdict' = [by |-> s.by, under |-> keys,
                   ret |-> IF Verified(p, s.sm, Field(file, OID_LEN, p.pk_bytes))
                           THEN 0 ELSE -1]
  /\ UNCHANGED <<build, name, step, drawn, file, sigs, keys, signed, randomVars>>

-----------------------------------------------------------------------------

Random == RandomStep /\ UNCHANGED toolVars

Next ==
  \/ KeypairRefused \/ Keypair \/ KeypairPubSeed \/ KeypairDone
  \/ Random
  \/ Sign \/ Open

Init ==
  /\ build \in [mt : BOOLEAN, fast : BOOLEAN]
  /\ name \in Names(build.mt) \union {UnknownName}
  /\ step = "none" /\ drawn = << >>
  /\ file = NoFile /\ sigs = {}
  /\ verdict = [by |-> 0, under |-> 0, ret |-> -1]
  /\ keys = 0 /\ signed = 0
  /\ RandomInit

Spec == Init /\ [][Next]_vars

(***************************************************************************)
(* A program that has been started goes on, and /dev/urandom, which may    *)
(* fail to open and to deliver again and again, does not do so for ever.   *)
(* No user has to start a program.                                         *)
(***************************************************************************)
Fairness ==
  /\ WF_vars(KeypairPubSeed) /\ WF_vars(KeypairDone)
  /\ WF_vars(Random)
  /\ SF_vars(Opened /\ UNCHANGED toolVars)
  /\ SF_vars(Delivered /\ UNCHANGED toolVars)

FairSpec == Spec /\ Fairness

-----------------------------------------------------------------------------

(***************************************************************************)
(* The programs work with the parameters that were asked for by name: the  *)
(* table of names and the switches over OIDs were written apart from each  *)
(* other and agree, and the hash function has a branch for each of them.   *)
(***************************************************************************)
ParamsAsNamed ==
  file # NoFile => AsNamed(TheParams(OidAt(file, 0)), name)

(***************************************************************************)
(* The key is as long as the formula says: serialising and deserialising   *)
(* go over the same fields and stop where the stored signatures begin,     *)
(* which end with the key; a signature fills sig_bytes; what the message   *)
(* hash puts in front of the message does not reach index and R.           *)
(***************************************************************************)
LayoutExact ==
  keys = 0 /\ step = "none" /\ KnownOid(build.mt, Oid) =>
    LET p == TheParams(Oid)
        walk == DeserializeWalk(p)
    IN  /\ PubSeedAt(p) + p.n = core_sk_bytes(p)
        /\ SerializeWalk(p) = walk
        /\ StatesEnd(p, walk) + (p.d - 1) * p.wots_sig_bytes = fast_sk_bytes(p)
        /\ \A j \in DOMAIN walk : walk[j][2] <= SwapBuffer(p)
        /\ Bytes(SignatureWalk(p)) = p.sig_bytes
        /\ p.index_bytes + p.n + HashPrefix(p) <= p.sig_bytes

(***************************************************************************)
(* However often it is signed with, a key file keeps its public key, both  *)
(* OIDs and its length: signing seeks forward and back by sizes from three *)
(* places, and one byte off would ruin the key for good.                   *)
(***************************************************************************)
FileInPlace ==
  [][keys' = keys =>
       /\ DOMAIN file' = DOMAIN file
       /\ \A o \in DOMAIN file :
            /\ file'[o].len = file[o].len
            /\ file'[o] = file[o] \/ \A q \in DOMAIN file : q <= o]_vars

(***************************************************************************)
(* open says yes exactly to the signatures that a key pair makes before    *)
(* its last index, under its own public key.  sign itself ends with 0 on   *)
(* refusal too, and its output looks like any other, so this is the only   *)
(* way to find out.                                                        *)
(***************************************************************************)
OpenExact ==
  verdict.ret = 0 <=> verdict.by # 0 /\ verdict.by = verdict.under

\* keypair comes to an end whatever /dev/urandom does for a while.
KeypairEnds == (step # "none") ~> (step = "none")
=============================================================================
