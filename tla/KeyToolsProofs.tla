---------------------------- MODULE KeyToolsProofs ----------------------------
(***************************************************************************)
(* Proofs about KeyTools and RandomBytes, for all parameter sets and       *)
(* builds, any number of one-time keys and key pairs, any limit on one     *)
(* read and any number of failures.                                        *)
(***************************************************************************)
EXTENDS KeyTools, SequenceTheorems, TLAPS


(***************************************************************************)
(* What the loop maintains: the pointer and the rest make up the request,  *)
(* all before the pointer is written, and nothing is read from a closed    *)
(* descriptor.  Only the first two make Filled follow from an empty rest.  *)
(***************************************************************************)
Progress ==
  /\ x + xlen = wanted
  /\ filled = 0 .. x - 1
  /\ at = "idle" => xlen = 0
  /\ at \in {"read", "sleepRead"} => fd = 3

RandomInv == RandomTypeOK /\ Progress

LEMMA RandomInvInit == RandomInit => RandomInv
  BY DEF RandomInit, RandomInv, RandomTypeOK, Progress

LEMMA RandomInvNext == RandomInv /\ [RandomNext]_randomVars => RandomInv'
<1> SUFFICES ASSUME RandomInv, [RandomNext]_randomVars
             PROVE  RandomInv'
  OBVIOUS
<1> USE DEF RandomInv, RandomTypeOK, Progress
<1>1. ASSUME NEW len \in Nat, Call(len) PROVE RandomInv'
  BY <1>1 DEF Call
<1>2. CASE Opened
  BY <1>2 DEF Opened
<1>3. CASE OpenFailed
  BY <1>3 DEF OpenFailed
<1>4. CASE Delivered
  <2>1. PICK i \in 1 .. Request :
          /\ filled' = filled \union x .. x + i - 1
          /\ x' = x + i
          /\ xlen' = xlen - i
    BY <1>4 DEF Delivered
  <2>2. i \in Nat /\ i <= xlen
    BY <2>1, RandomBytesAssumption DEF Request
  <2>3. filled' = 0 .. x' - 1
    BY <2>1, <2>2
  <2> QED BY <1>4, <2>1, <2>2, <2>3 DEF Delivered
<1>5. CASE ReadFailed
  BY <1>5 DEF ReadFailed
<1>6. CASE Awake
  BY <1>6 DEF Awake
<1>7. CASE Return
  BY <1>7 DEF Return
<1>8. CASE UNCHANGED randomVars
  BY <1>8 DEF randomVars
<1> QED
  BY <1>1, <1>2, <1>3, <1>4, <1>5, <1>6, <1>7, <1>8
  DEF RandomNext, RandomStep

(***************************************************************************)
(* Whenever randombytes has returned, the buffer is filled from end to     *)
(* end, and not beyond, whoever calls it.                                  *)
(***************************************************************************)
THEOREM RandomFills == RandomSpec => []Filled
<1>1. RandomInv => Filled
  BY DEF RandomInv, RandomTypeOK, Progress, Filled
<1> QED
  BY RandomInvInit, RandomInvNext, <1>1, PTL DEF RandomSpec


-----------------------------------------------------------------------------

(***************************************************************************)
(* What the proofs need of a parameter set: its sizes are numbers.         *)
(***************************************************************************)
Sized(p) ==
  /\ p.n \in Nat \ {0} /\ p.pk_bytes = 2 * p.n
  /\ p.index_bytes \in Nat
  /\ p.sk_bytes \in Nat \ {0}

\* The OIDs of XMSS and what they stand for,
LEMMA XmssOids ==
  ASSUME NEW oid \in 0 .. 255, xmss_func(oid) # "none"
  PROVE  oid \in 1 .. 21 /\ xmss_n(oid) \in {24, 32, 64} /\ xmss_height(oid) \in {10, 16, 20}
<1>1. oid \in 1 .. 21
  BY DEF xmss_func
<1>2. xmss_n(oid) \in {24, 32, 64}
  BY <1>1 DEF xmss_n
<1>3. xmss_height(oid) \in {10, 16, 20}
  BY <1>1 DEF xmss_height
<1> QED
  BY <1>1, <1>2, <1>3

\* and those of XMSS^MT.
LEMMA XmssmtOids ==
  ASSUME NEW oid \in 0 .. 255, xmssmt_func(oid) # "none"
  PROVE  /\ oid \in 1 .. 56 /\ xmssmt_n(oid) \in {24, 32, 64}
         /\ xmssmt_height(oid) \in {20, 40, 60} /\ xmssmt_d(oid) \in {2, 3, 4, 6, 8, 12}
<1>1. oid \in 1 .. 56
  BY DEF xmssmt_func
<1>2. xmssmt_n(oid) \in {24, 32, 64}
  BY <1>1 DEF xmssmt_n
<1>3. \E g \in 0 .. 6, i \in 1 .. 8 : oid = 8 * g + i
  BY <1>1
<1>4. xmssmt_height(oid) \in {20, 40, 60}
  BY <1>3 DEF xmssmt_height, InGroups
<1>5. xmssmt_d(oid) \in {2, 3, 4, 6, 8, 12}
  BY <1>3 DEF xmssmt_d, InGroups
<1> QED
  BY <1>1, <1>2, <1>4, <1>5

\* The sizes of a secret key of the fast implementation add up.
LEMMA FastSized ==
  ASSUME NEW p, p.n \in Nat, p.tree_height \in Nat, p.bds_k = 0, p.d \in Nat \ {0},
         p.index_bytes \in Nat \ {0}, p.wots_sig_bytes \in Nat
  PROVE  fast_sk_bytes(p) \in Nat \ {0}
<1> DEFINE state == (p.tree_height + 1) * p.n + 4 + p.tree_height + 1
                      + p.tree_height * p.n + Half(p.tree_height) * p.n
                      + (p.tree_height - p.bds_k) * (7 + p.n)
                      + (2^p.bds_k - p.bds_k - 1) * p.n + 4
<1>1. Half(p.tree_height) \in Nat
  BY DEF Half
<1>2. /\ (p.tree_height + 1) * p.n \in Nat /\ p.tree_height * p.n \in Nat
      /\ Half(p.tree_height) * p.n \in Nat /\ (p.tree_height - 0) * (7 + p.n) \in Nat
  BY <1>1
<1>3. (2^p.bds_k - p.bds_k - 1) * p.n = 0
  <2>1. 2^0 - 0 - 1 = 0
    OBVIOUS
  <2> QED
    BY <2>1
<1>4. state \in Nat
  BY <1>2, <1>3
<1> DEFINE states == (2 * p.d - 1) * state
           stored == (p.d - 1) * p.wots_sig_bytes
           head   == p.index_bytes + 4 * p.n
<1>5. states \in Nat /\ stored \in Nat
  <2> HIDE DEF state
  <2>1. 2 * p.d - 1 \in Nat /\ p.d - 1 \in Nat
    OBVIOUS
  <2> QED
    BY <1>4, <2>1
<1>6. fast_sk_bytes(p) = head + states + stored
  BY DEF fast_sk_bytes
<1>7. head \in Nat \ {0}
  OBVIOUS
<1> HIDE DEF states, stored, head
<1> QED
  BY <1>5, <1>6, <1>7

\* xmss_xmssmt_initialize_params gives sizes.
LEMMA ParsedSized ==
  ASSUME NEW fast \in BOOLEAN, NEW func, NEW n \in {24, 32, 64},
         NEW height \in {10, 16, 20, 40, 60}, NEW d \in {1, 2, 3, 4, 6, 8, 12}
  PROVE  Sized(Parsed(fast, func, n, height, d))
<1> DEFINE wots_len == (8 * n) \div 4 + 3
           sizes ==
             [func |-> func, n |-> n, padding_len |-> padding_len(n),
              full_height |-> height, d |-> d, wots_w |-> 16, bds_k |-> 0,
              tree_height |-> height \div d,
              wots_len |-> wots_len, wots_sig_bytes |-> wots_len * n,
              index_bytes |-> IF d = 1 THEN 4 ELSE (height + 7) \div 8,
              sig_bytes |-> (IF d = 1 THEN 4 ELSE (height + 7) \div 8) + n
                              + d * (wots_len * n) + height * n,
              pk_bytes |-> 2 * n, sk_bytes |-> 0]
<1>1. WotsLogW[16] = 4 /\ WotsLen2[16] = 3
  BY DEF WotsLogW, WotsLen2
<1>2. Parsed(fast, func, n, height, d)
        = [sizes EXCEPT !.sk_bytes = IF fast THEN fast_sk_bytes(sizes) ELSE core_sk_bytes(sizes)]
  BY <1>1 DEF Parsed, Initialized
<1>3. /\ sizes.n = n /\ sizes.tree_height = height \div d /\ sizes.bds_k = 0 /\ sizes.d = d
      /\ sizes.index_bytes = (IF d = 1 THEN 4 ELSE (height + 7) \div 8)
      /\ sizes.wots_sig_bytes = wots_len * n /\ sizes.pk_bytes = 2 * n
  OBVIOUS
<1>4. /\ height \div d \in Nat /\ d \in Nat \ {0} /\ wots_len * n \in Nat /\ n \in Nat \ {0}
      /\ (IF d = 1 THEN 4 ELSE (height + 7) \div 8) \in Nat \ {0}
  <2>1. height \div d \in Nat
    OBVIOUS
  <2>2. wots_len * n \in Nat
    OBVIOUS
  <2> QED
    BY <2>1, <2>2
<1>5. sizes = [sizes EXCEPT !.sk_bytes = 0]
  OBVIOUS
<1>6. "sk_bytes" \in DOMAIN sizes
  OBVIOUS
<1> HIDE DEF sizes, wots_len
<1>7. fast_sk_bytes(sizes) \in Nat \ {0}
  BY <1>3, <1>4, FastSized
<1>8. core_sk_bytes(sizes) \in Nat \ {0}
  BY <1>3, <1>4 DEF core_sk_bytes
<1>9. ASSUME NEW s \in Nat \ {0}
      PROVE  Sized([sizes EXCEPT !.sk_bytes = s])
  BY <1>3, <1>4, <1>6 DEF Sized
<1> QED
  BY <1>2, <1>7, <1>8, <1>9

\* So do the programs, for every OID they know.
LEMMA KnownSized ==
  ASSUME build \in [mt : BOOLEAN, fast : BOOLEAN], NEW oid, KnownOid(build.mt, oid)
  PROVE  Sized(TheParams(oid))
<1>1. oid \in 0 .. 255 /\ build.mt \in BOOLEAN /\ build.fast \in BOOLEAN
  BY DEF KnownOid
<1>2. CASE build.mt
  <2>1. xmssmt_func(oid) # "none"
    BY <1>2 DEF KnownOid
  <2>2. TheParams(oid) = Parsed(build.fast, xmssmt_func(oid), xmssmt_n(oid),
                                xmssmt_height(oid), xmssmt_d(oid))
    BY <1>1, <1>2, <2>1 DEF TheParams, ParamsOf, xmssmt_parse_oid
  <2>3. /\ xmssmt_n(oid) \in {24, 32, 64} /\ xmssmt_height(oid) \in {10, 16, 20, 40, 60}
        /\ xmssmt_d(oid) \in {1, 2, 3, 4, 6, 8, 12}
    BY <1>1, <2>1, XmssmtOids
  <2> QED
    BY <1>1, <2>2, <2>3, ParsedSized
<1>3. CASE ~ build.mt
  <2>1. xmss_func(oid) # "none"
    BY <1>3 DEF KnownOid
  <2>2. TheParams(oid) = Parsed(build.fast, xmss_func(oid), xmss_n(oid), xmss_height(oid), 1)
    BY <1>1, <1>3, <2>1 DEF TheParams, ParamsOf, xmss_parse_oid
  <2>3. xmss_n(oid) \in {24, 32, 64} /\ xmss_height(oid) \in {10, 16, 20, 40, 60}
    BY <1>1, <2>1, XmssOids
  <2> QED
    BY <1>1, <2>2, <2>3, ParsedSized
<1> QED
  BY <1>1, <1>2, <1>3

-----------------------------------------------------------------------------

(***************************************************************************)
(* Key number k has the seeds drawn for it; while it is live the index in  *)
(* the file counts the signatures, afterwards there are zeros.             *)
(***************************************************************************)
Drew(k) == <<Seed(k, 1), Seed(k, 2), Seed(k, 3)>>
TheKey(k) == NewKey(TheParams(Oid), Drew(k))

SkIs(sk) ==
  /\ sk = [idx |-> sk.idx, at |-> sk.at]
  /\ IF signed < Leaves THEN sk.idx = signed /\ sk.at = TheKey(keys).sk.at
     ELSE sk.idx \in Nat /\ sk.at = [o \in SkPlaces(TheParams(Oid)) |-> Zero]

FileIs ==
  /\ keys > 0 /\ KnownOid(build.mt, Oid)
  /\ \E sk : /\ SkIs(sk)
             /\ file = KeyFile(TheParams(Oid), Oid, [sk |-> sk, pk |-> TheKey(keys).pk])

\* A signature by key number k comes of its seeds, any other of zeros or of
\* nothing.
SigIs(s) ==
  /\ s.by \in 0 .. keys
  /\ s.by = 0 => s.sm = JunkSig \/ s.sm.root = Zero
  /\ s.by # 0 => /\ s.sm.skSeed = Seed(s.by, 1) /\ s.sm.pubSeed = Seed(s.by, 3)
                 /\ s.sm.root = Root(Seed(s.by, 1), Seed(s.by, 3))
                 /\ s.sm # JunkSig

\* How far keypair is.
Drawing ==
  /\ step \in {"none", "seeds", "pubSeed"}
  /\ step # "none" => KnownOid(build.mt, Oid)
  /\ step = "seeds" => drawn = << >> /\ wanted = (IF build.fast THEN 2 ELSE 3)
  /\ step = "pubSeed" => /\ build.fast /\ wanted = 1
                         /\ drawn = <<Seed(keys + 1, 1), Seed(keys + 1, 2)>>

ToolInv ==
  /\ build \in [mt : BOOLEAN, fast : BOOLEAN]
  /\ RandomInv
  /\ keys \in Nat /\ signed \in Nat
  /\ Drawing
  /\ file # NoFile => FileIs
  /\ \A s \in sigs : SigIs(s)
  /\ OpenExact

\* Before any program ran.
LEMMA ToolInvInit == Init => ToolInv
  BY RandomInvInit DEF Init, ToolInv, Drawing, OpenExact

\* A step of randombytes.
LEMMA RandomKeeps == ToolInv /\ Random => ToolInv'
<1> SUFFICES ASSUME ToolInv, Random
             PROVE  ToolInv'
  OBVIOUS
<1>1. RandomInv'
  BY RandomInvNext DEF ToolInv, Random, RandomNext
<1>2. wanted' = wanted
  BY DEF Random, RandomStep, Opened, OpenFailed, Delivered, ReadFailed, Awake, Return
<1>3. /\ build' = build /\ name' = name /\ step' = step /\ drawn' = drawn /\ file' = file
      /\ sigs' = sigs /\ verdict' = verdict /\ keys' = keys /\ signed' = signed
  BY DEF Random, toolVars
<1>4. TheParams(Oid)' = TheParams(Oid) /\ Oid' = Oid
  BY <1>3 DEF TheParams, Oid
<1>5. FileIs => FileIs'
  BY <1>3, <1>4 DEF FileIs, SkIs, TheKey
<1>6. Drawing'
  BY <1>2, <1>3, <1>4 DEF ToolInv, Drawing
<1>7. OpenExact'
  BY <1>3 DEF ToolInv, OpenExact
<1>8. \A s \in sigs : SigIs(s)'
  BY <1>3 DEF ToolInv, SigIs
<1> QED
  BY <1>1, <1>3, <1>5, <1>6, <1>7, <1>8 DEF ToolInv

\* The places of a key.
LEMMA KeyParts ==
  ASSUME NEW p, Sized(p), NEW seeds
  PROVE  LET key == NewKey(p, seeds) IN
         /\ key = [sk |-> [idx |-> 0, at |-> key.sk.at], pk |-> key.pk]
         /\ DOMAIN key.sk.at = SkPlaces(p)
         /\ key.sk.at[SkSeedAt(p)] = seeds[1]
         /\ key.sk.at[PubSeedAt(p)] = seeds[3]
         /\ key.sk.at[RootAt(p)] = Root(seeds[1], seeds[3])
         /\ key.pk[0] = Root(seeds[1], seeds[3]) /\ key.pk[p.n] = seeds[3]
<1> DEFINE key == NewKey(p, seeds)
           root == Root(seeds[1], seeds[3])
<1>1. /\ p.n \in Nat \ {0} /\ p.index_bytes \in Nat
      /\ p.index_bytes # p.index_bytes + p.n
      /\ p.index_bytes # p.index_bytes + 2 * p.n
      /\ p.index_bytes # p.index_bytes + 3 * p.n
      /\ p.index_bytes + p.n # p.index_bytes + 2 * p.n
      /\ p.index_bytes + p.n # p.index_bytes + 3 * p.n
      /\ p.index_bytes + 2 * p.n # p.index_bytes + 3 * p.n
  BY DEF Sized
<1> HIDE DEF root
<1>2. /\ key = [sk |-> [idx |-> 0, at |-> key.sk.at], pk |-> key.pk]
      /\ key.pk = [o \in {0, p.n} |-> IF o = 0 THEN root ELSE seeds[3]]
      /\ key.sk.at = [o \in SkPlaces(p) |->
                     CASE o = SkSeedAt(p)  -> seeds[1]
                       [] o = SkPrfAt(p)   -> seeds[2]
                       [] o = PubSeedAt(p) -> seeds[3]
                       [] o = RootAt(p)    -> root]
  BY DEF NewKey, root
<1> HIDE DEF key
<1>3. key.pk[0] = root /\ key.pk[p.n] = seeds[3]
  BY <1>1, <1>2
<1>4. /\ SkSeedAt(p) \in SkPlaces(p) /\ PubSeedAt(p) \in SkPlaces(p) /\ RootAt(p) \in SkPlaces(p)
      /\ SkPrfAt(p) \in SkPlaces(p)
      /\ SkSeedAt(p) # SkPrfAt(p) /\ SkSeedAt(p) # PubSeedAt(p) /\ SkSeedAt(p) # RootAt(p)
      /\ SkPrfAt(p) # PubSeedAt(p) /\ SkPrfAt(p) # RootAt(p) /\ PubSeedAt(p) # RootAt(p)
  BY <1>1 DEF SkPlaces, SkSeedAt, SkPrfAt, PubSeedAt, RootAt
<1>5. /\ key.sk.at[SkSeedAt(p)] = seeds[1] /\ key.sk.at[PubSeedAt(p)] = seeds[3]
      /\ key.sk.at[RootAt(p)] = root
  BY <1>2, <1>4
<1>6. DOMAIN key.sk.at = SkPlaces(p)
  BY <1>2
<1> QED
  BY <1>2, <1>3, <1>5, <1>6 DEF key, root

\* What the programs find in a key file,
LEMMA FileParts ==
  ASSUME NEW p, Sized(p), NEW oid, NEW key
  PROVE  LET f    == KeyFile(p, oid, key)
             skAt == OID_LEN + p.pk_bytes
         IN  /\ DOMAIN f = {0, OID_LEN, skAt, skAt + OID_LEN}
             /\ OidAt(f, 0) = oid /\ OidAt(f, skAt) = oid
             /\ Field(f, OID_LEN, p.pk_bytes) = key.pk
             /\ Field(f, skAt + OID_LEN, p.sk_bytes) = key.sk
             /\ f # NoFile
<1> DEFINE f    == KeyFile(p, oid, key)
           skAt == OID_LEN + p.pk_bytes
<1>1. /\ p.pk_bytes \in Nat \ {0} /\ p.sk_bytes \in Nat \ {0} /\ OID_LEN = 4
      /\ skAt = 4 + p.pk_bytes
  BY DEF Sized, OID_LEN
<1>2. f = [o \in {0, OID_LEN, skAt, skAt + OID_LEN} |->
             CASE o \in {0, skAt}     -> Entry(OID_LEN, [oid |-> oid])
               [] o = OID_LEN         -> Entry(p.pk_bytes, key.pk)
               [] o = skAt + OID_LEN  -> Entry(p.sk_bytes, key.sk)]
  BY DEF KeyFile
<1> HIDE DEF f, skAt
<1>3. /\ f[0] = Entry(OID_LEN, [oid |-> oid]) /\ f[skAt] = Entry(OID_LEN, [oid |-> oid])
      /\ f[OID_LEN] = Entry(p.pk_bytes, key.pk) /\ f[skAt + OID_LEN] = Entry(p.sk_bytes, key.sk)
      /\ DOMAIN f = {0, OID_LEN, skAt, skAt + OID_LEN}
  BY <1>1, <1>2
<1>4. OidAt(f, 0) = oid /\ OidAt(f, skAt) = oid
  BY <1>3 DEF OidAt, Field, Entry
<1>5. Field(f, OID_LEN, p.pk_bytes) = key.pk /\ Field(f, skAt + OID_LEN, p.sk_bytes) = key.sk
  BY <1>3 DEF Field, Entry
<1>6. f # NoFile
  <2>1. 0 \in DOMAIN f /\ 0 \notin DOMAIN NoFile
    BY <1>3 DEF NoFile
  <2> QED
    BY <2>1
<1> QED
  BY <1>3, <1>4, <1>5, <1>6 DEF f, skAt

\* and what is in it after the key was written back.
LEMMA WrittenBack ==
  ASSUME NEW p, Sized(p), NEW oid, NEW key, NEW sk
  PROVE  WriteBack(KeyFile(p, oid, key), p, OID_LEN + p.pk_bytes + OID_LEN + p.sk_bytes, sk)
           = KeyFile(p, oid, [sk |-> sk, pk |-> key.pk])
<1> DEFINE f    == KeyFile(p, oid, key)
           g    == KeyFile(p, oid, [sk |-> sk, pk |-> key.pk])
           last == 8 + p.pk_bytes
           kept == {o \in DOMAIN f : o + f[o].len <= last \/ last + p.sk_bytes <= o}
<1>1. /\ p.pk_bytes \in Nat \ {0} /\ p.sk_bytes \in Nat \ {0} /\ OID_LEN = 4
  BY DEF Sized, OID_LEN
<1>2. /\ f = [o \in {0, 4, 4 + p.pk_bytes, last} |->
               CASE o \in {0, 4 + p.pk_bytes} -> Entry(4, [oid |-> oid])
                 [] o = 4    -> Entry(p.pk_bytes, key.pk)
                 [] o = last -> Entry(p.sk_bytes, key.sk)]
      /\ g = [o \in {0, 4, 4 + p.pk_bytes, last} |->
               CASE o \in {0, 4 + p.pk_bytes} -> Entry(4, [oid |-> oid])
                 [] o = 4    -> Entry(p.pk_bytes, key.pk)
                 [] o = last -> Entry(p.sk_bytes, sk)]
  <2>1. OID_LEN + p.pk_bytes + OID_LEN = last
    BY <1>1
  <2> HIDE DEF last
  <2> QED
    BY <1>1, <2>1 DEF KeyFile
<1>3. WriteBack(f, p, OID_LEN + p.pk_bytes + OID_LEN + p.sk_bytes, sk)
        = [o \in kept \union {last} |-> IF o = last THEN Entry(p.sk_bytes, sk) ELSE f[o]]
  <2>1. (OID_LEN + p.pk_bytes + OID_LEN + p.sk_bytes) - p.sk_bytes = last
    BY <1>1
  <2> HIDE DEF f, last
  <2> QED
    BY <2>1 DEF WriteBack, Overwritten
<1> HIDE DEF f, g
<1>4. /\ DOMAIN f = {0, 4, 4 + p.pk_bytes, last}
      /\ f[0].len = 4 /\ f[4].len = p.pk_bytes /\ f[4 + p.pk_bytes].len = 4
      /\ f[last].len = p.sk_bytes
  BY <1>1, <1>2 DEF Entry
<1>5. kept = {0, 4, 4 + p.pk_bytes}
  BY <1>1, <1>4
<1>6. \A o \in {0, 4, 4 + p.pk_bytes, last} :
        g[o] = IF o = last THEN Entry(p.sk_bytes, sk) ELSE f[o]
  BY <1>1, <1>2
<1>7. g = [o \in {0, 4, 4 + p.pk_bytes, last} |-> g[o]]
  BY <1>2
<1> HIDE DEF kept, last
<1>8. [o \in kept \union {last} |-> IF o = last THEN Entry(p.sk_bytes, sk) ELSE f[o]] = g
  BY <1>5, <1>6, <1>7
<1> QED
  BY <1>3, <1>8 DEF f, g

\* A program starts to draw.
LEMMA KeypairKeeps ==
  ASSUME ToolInv, KeypairRefused \/ Keypair \/ KeypairPubSeed
  PROVE  ToolInv'
<1>1. CASE KeypairRefused
  BY <1>1 DEF KeypairRefused, vars, toolVars, randomVars, ToolInv, RandomInv, RandomTypeOK,
              Progress, Drawing, FileIs, SkIs, TheKey, TheParams, Oid, SigIs, OpenExact
<1>2. CASE Keypair \/ KeypairPubSeed
  <2>1. /\ build' = build /\ name' = name /\ file' = file /\ sigs' = sigs
        /\ verdict' = verdict /\ keys' = keys /\ signed' = signed
    BY <1>2 DEF Keypair, KeypairPubSeed
  <2>2. TheParams(Oid)' = TheParams(Oid) /\ Oid' = Oid
    BY <2>1 DEF TheParams, Oid
  <2>3. RandomInv'
    <3>1. \E len \in Nat : Call(len)
      BY <1>2 DEF Keypair, KeypairPubSeed
    <3> QED
      BY <3>1, RandomInvNext DEF RandomNext, ToolInv
  <2>4. FileIs => FileIs'
    BY <2>1, <2>2 DEF FileIs, SkIs, TheKey
  <2>5. OpenExact' /\ \A s \in sigs : SigIs(s)'
    BY <2>1 DEF ToolInv, OpenExact, SigIs
  <2>6. CASE Keypair
    <3>1. Drawing'
      BY <2>1, <2>2, <2>6 DEF Keypair, Call, Drawing
    <3> QED
      BY <2>1, <2>3, <2>4, <2>5, <3>1 DEF ToolInv
  <2>7. CASE KeypairPubSeed
    <3>1. wanted = 2 /\ filled = 0 .. 1 /\ drawn = << >> /\ KnownOid(build.mt, Oid) /\ build.fast
      BY <2>7 DEF ToolInv, Drawing, KeypairPubSeed, RandomInv, RandomTypeOK, Progress
    <3>2. Drawn = <<Seed(keys + 1, 1), Seed(keys + 1, 2)>>
      <4>1. Drawn = [j \in 1 .. 2 |-> IF j - 1 \in 0 .. 1 THEN Seed(keys + 1, Len(drawn) + j) ELSE Old]
        BY <3>1 DEF Drawn
      <4>2. Len(drawn) = 0
        BY <3>1
      <4>3. Drawn = [j \in 1 .. 2 |-> Seed(keys + 1, j)]
        BY <4>1, <4>2
      <4> QED
        BY <4>3
    <3>3. Drawing'
      BY <2>1, <2>2, <2>7, <3>1, <3>2 DEF KeypairPubSeed, Call, Drawing
    <3> QED
      BY <2>1, <2>3, <2>4, <2>5, <3>3 DEF ToolInv
  <2> QED
    BY <1>2, <2>6, <2>7
<1> QED
  BY <1>1, <1>2

\* Two seeds and one seed.
LEMMA TwoAndOne ==
  ASSUME NEW a, NEW b, NEW c
  PROVE  <<a, b>> \o <<c>> = <<a, b, c>>
<1> DEFINE S == {a, b, c}
           s == <<a, b>>
           t == <<c>>
           u == s \o t
<1>1. /\ s \in Seq(S) /\ t \in Seq(S) /\ Len(s) = 2 /\ Len(t) = 1
      /\ s[1] = a /\ s[2] = b /\ t[1] = c
  OBVIOUS
<1>2. /\ u \in Seq(S) /\ Len(u) = Len(s) + Len(t)
      /\ \A i \in 1 .. Len(s) + Len(t) : u[i] = IF i <= Len(s) THEN s[i] ELSE t[i - Len(s)]
  BY <1>1, ConcatProperties
<1> HIDE DEF S, s, t, u
<1>3. Len(u) = 3 /\ u[1] = a /\ u[2] = b /\ u[3] = c
  BY <1>1, <1>2
<1> DEFINE v == <<a, b, c>>
<1>4. v \in Seq(S) /\ Len(v) = 3 /\ v[1] = a /\ v[2] = b /\ v[3] = c
  BY DEF S
<1> HIDE DEF v
<1>5. \A i \in 1 .. Len(u) : u[i] = v[i]
  BY <1>3, <1>4
<1>6. u = v
  BY <1>2, <1>3, <1>4, <1>5, SeqEqual
<1> QED
  BY <1>6 DEF s, t, u, v

\* keypair ends with three seeds of the new key.
LEMMA AllDrawn ==
  ASSUME ToolInv, KeypairDone
  PROVE  drawn \o Drawn = Drew(keys + 1) /\ KnownOid(build.mt, Oid)
<1>1. filled = 0 .. wanted - 1 /\ wanted \in Nat
  BY DEF ToolInv, RandomInv, RandomTypeOK, Progress, KeypairDone
<1>2. Drawn = [j \in 1 .. wanted |-> Seed(keys + 1, Len(drawn) + j)]
  BY <1>1 DEF Drawn
<1>3. CASE build.fast
  <2>1. wanted = 1 /\ drawn = <<Seed(keys + 1, 1), Seed(keys + 1, 2)>> /\ KnownOid(build.mt, Oid)
    BY <1>3 DEF KeypairDone, ToolInv, Drawing
  <2>2. Len(drawn) = 2
    BY <2>1
  <2>3. Drawn = <<Seed(keys + 1, 3)>>
    <3>1. Drawn = [j \in 1 .. 1 |-> Seed(keys + 1, 2 + j)]
      BY <1>2, <2>1, <2>2
    <3> QED
      BY <3>1
  <2> QED
    BY <2>1, <2>3, TwoAndOne DEF Drew
<1>4. CASE ~ build.fast
  <2>1. wanted = 3 /\ drawn = << >> /\ KnownOid(build.mt, Oid)
    BY <1>4 DEF KeypairDone, ToolInv, Drawing
  <2>2. Len(drawn) = 0
    BY <2>1
  <2>3. Drawn = Drew(keys + 1)
    <3>1. Drawn = [j \in 1 .. 3 |-> Seed(keys + 1, 0 + j)]
      BY <1>2, <2>1, <2>2
    <3> QED
      BY <3>1 DEF Drew
  <2> QED
    BY <2>1, <2>3 DEF Drew
<1> QED
  BY <1>3, <1>4

LEMMA KeypairDoneKeeps == ToolInv /\ KeypairDone => ToolInv'
<1> SUFFICES ASSUME ToolInv, KeypairDone
             PROVE  ToolInv'
  OBVIOUS
<1> DEFINE p == TheParams(Oid)
<1>1. /\ build' = build /\ name' = name /\ step' = "none" /\ keys' = keys + 1 /\ signed' = 0
      /\ sigs' = sigs /\ verdict' = verdict
      /\ file' = KeyFile(p, Oid, NewKey(p, drawn \o Drawn))
  BY DEF KeypairDone
<1>2. p' = p /\ Oid' = Oid
  BY <1>1 DEF TheParams, Oid
<1>3. drawn \o Drawn = Drew(keys + 1) /\ KnownOid(build.mt, Oid)
  BY AllDrawn
<1>4. RandomInv'
  <2>1. /\ fd' = -1 /\ filled' = {} /\ wanted' = 0 /\ x' = 0 /\ xlen' = xlen /\ at' = "idle"
        /\ xlen = 0
    BY DEF KeypairDone, ToolInv, RandomInv, Progress
  <2> QED
    BY <2>1 DEF RandomInv, RandomTypeOK, Progress
<1>5. Sized(p)
  BY <1>3, KnownSized DEF ToolInv
<1>6. FileIs'
  <2> DEFINE key == NewKey(p, Drew(keys + 1))
  <2>1. key = [sk |-> [idx |-> 0, at |-> key.sk.at], pk |-> key.pk]
    BY <1>5, KeyParts
  <2>2. TheKey(keys)' = key
    BY <1>1, <1>2 DEF TheKey
  <2>3. file' = KeyFile(p, Oid, key)
    BY <1>1, <1>3
  <2>4. keys' > 0 /\ KnownOid(build.mt, Oid)'
    BY <1>1, <1>2, <1>3 DEF ToolInv
  <2> HIDE DEF p, key
  <2> DEFINE sk == [idx |-> 0, at |-> key.sk.at]
  <2>5. /\ sk = [idx |-> sk.idx, at |-> sk.at]
        /\ signed' < Leaves /\ sk.idx = signed' /\ sk.at = TheKey(keys)'.sk.at
    BY <1>1, <2>2, KeyToolsAssumption
  <2>6. file' = KeyFile(p', Oid', [sk |-> sk, pk |-> TheKey(keys)'.pk])
    BY <1>2, <2>1, <2>2, <2>3
  <2> HIDE DEF sk
  <2> QED
    BY <2>4, <2>5, <2>6 DEF FileIs, SkIs, p
<1>7. \A s \in sigs : SigIs(s)'
  BY <1>1 DEF ToolInv, SigIs
<1>8. Drawing' /\ OpenExact'
  BY <1>1 DEF ToolInv, Drawing, OpenExact
<1> QED
  BY <1>1, <1>4, <1>6, <1>7, <1>8 DEF ToolInv

\* One signature.
LEMMA SignedIs ==
  ASSUME ToolInv, KnownOid(build.mt, Oid), NEW sk, SkIs(sk), keys > 0
  PROVE  LET p    == TheParams(Oid)
             done == Signed(p, sk)
             by   == IF signed < Leaves - 1 THEN keys ELSE 0
             next == IF signed > Leaves THEN signed ELSE signed + 1
         IN  /\ SigIs([sm |-> done.sm, by |-> by])
             /\ done.sk = [idx |-> done.sk.idx, at |-> done.sk.at]
             /\ IF next < Leaves THEN done.sk.idx = next /\ done.sk.at = TheKey(keys).sk.at
                ELSE done.sk.idx \in Nat /\ done.sk.at = [o \in SkPlaces(p) |-> Zero]
             /\ done.ret = -2 => signed >= Leaves
<1> DEFINE p    == TheParams(Oid)
           done == Signed(p, sk)
           key  == TheKey(keys)
<1>1. Sized(p)
  BY KnownSized DEF ToolInv
<1>2. /\ DOMAIN key.sk.at = SkPlaces(p)
      /\ key.sk.at[SkSeedAt(p)] = Seed(keys, 1)
      /\ key.sk.at[PubSeedAt(p)] = Seed(keys, 3)
      /\ key.sk.at[RootAt(p)] = Root(Seed(keys, 1), Seed(keys, 3))
  <2>1. Drew(keys)[1] = Seed(keys, 1) /\ Drew(keys)[3] = Seed(keys, 3)
    BY DEF Drew
  <2> QED
    BY <1>1, <2>1, KeyParts DEF TheKey
<1>3. IndexSpace(p) \in Nat \ {0} /\ IndexSpace(p) >= Leaves
  BY KeyToolsAssumption DEF IndexSpace
<1>4. keys \in Nat /\ signed \in Nat /\ Leaves \in Nat /\ Leaves >= 2
  BY KeyToolsAssumption DEF ToolInv
<1>5. sk = [idx |-> sk.idx, at |-> sk.at]
  BY DEF SkIs
<1>6. RootAt(p) \in SkPlaces(p)
  BY DEF SkPlaces
<1> DEFINE zeros == [o \in SkPlaces(p) |-> Zero]
<1>7. CASE signed < Leaves - 1
  <2>1. sk.idx = signed /\ sk.at = key.sk.at
    BY <1>4, <1>7 DEF SkIs
  <2>2. /\ done.ret = 0
        /\ done.sk = [sk EXCEPT !.idx = (sk.idx + 1) % IndexSpace(p)]
        /\ done.sm = [idx |-> IF build.fast THEN sk.idx ELSE sk.idx,
                      skSeed |-> sk.at[SkSeedAt(p)],
                      pubSeed |-> sk.at[PubSeedAt(p)], root |-> sk.at[RootAt(p)]]
    <3>1. ~ (sk.idx >= Leaves - 1) /\ ~ (sk.idx > Leaves - 1)
      BY <1>4, <1>7, <2>1
    <3> QED
      BY <3>1 DEF Signed
  <2>3. (signed + 1) % IndexSpace(p) = signed + 1
    <3>1. signed + 1 \in 0 .. IndexSpace(p) - 1
      BY <1>3, <1>4, <1>7
    <3> QED
      BY <1>3, <3>1
  <2>4. done.sk = [idx |-> signed + 1, at |-> key.sk.at]
    BY <1>5, <2>1, <2>2, <2>3
  <2>5. SigIs([sm |-> done.sm, by |-> keys])
    <3> HIDE DEF p, done, key
    <3>1. PICK i : done.sm = [idx |-> i, skSeed |-> Seed(keys, 1), pubSeed |-> Seed(keys, 3),
                              root |-> Root(Seed(keys, 1), Seed(keys, 3))]
      BY <1>2, <2>1, <2>2, ZenonT(30)
    <3>2. done.sm # JunkSig
      <4>1. "root" \in DOMAIN done.sm /\ "root" \notin DOMAIN JunkSig
        BY <3>1 DEF JunkSig
      <4> QED
        BY <4>1
    <3> QED
      BY <1>4, <3>1, <3>2 DEF SigIs
  <2> HIDE DEF p, done, key
  <2> QED
    BY <1>4, <1>7, <2>2, <2>4, <2>5 DEF p, done, key
<1>8. CASE signed = Leaves - 1
  <2>1. sk.idx = Leaves - 1 /\ sk.at = key.sk.at
    BY <1>4, <1>8 DEF SkIs
  <2>2. WipedKey(p, sk) = [idx |-> IndexSpace(p) - 1, at |-> zeros]
    BY <1>2, <2>1 DEF WipedKey
  <2>3. /\ done.ret = 0
        /\ done.sk = [idx |-> Leaves % IndexSpace(p), at |-> zeros]
        /\ done.sm.root = zeros[RootAt(p)]
    <3> HIDE DEF zeros
    <3> QED
      BY <1>4, <2>1, <2>2 DEF Signed
  <2>4. done.sm.root = Zero
    BY <1>6, <2>3
  <2>5. SigIs([sm |-> done.sm, by |-> 0])
    BY <1>4, <2>4 DEF SigIs
  <2>6. Leaves % IndexSpace(p) \in Nat
    BY <1>3, <1>4
  <2> HIDE DEF p, done, key, zeros
  <2> QED
    BY <1>4, <1>8, <2>3, <2>5, <2>6 DEF p, done, key, zeros
<1>9. CASE signed >= Leaves
  <2>1. sk.idx \in Nat /\ sk.at = zeros
    BY <1>4, <1>9 DEF SkIs
  <2>2. WipedKey(p, sk) = [idx |-> IndexSpace(p) - 1, at |-> zeros]
    BY <2>1 DEF WipedKey
  <2>3. CASE sk.idx > Leaves - 1
    <3>1. done.sk = [idx |-> IndexSpace(p) - 1, at |-> zeros] /\ done.sm = JunkSig
      <4> HIDE DEF zeros
      <4> QED
        BY <1>4, <2>1, <2>2, <2>3 DEF Signed
    <3>2. SigIs([sm |-> done.sm, by |-> 0])
      BY <1>4, <3>1 DEF SigIs
    <3> HIDE DEF p, done, key, zeros
    <3> QED
      BY <1>3, <1>4, <1>9, <3>1, <3>2 DEF p, done, key, zeros
  <2>4. CASE ~ (sk.idx > Leaves - 1)
    <3>1. /\ done.sk = [idx |-> (sk.idx + 1) % IndexSpace(p), at |-> zeros]
          /\ done.sm.root = zeros[RootAt(p)] /\ done.ret = 0
      <4> HIDE DEF zeros
      <4> QED
        BY <1>4, <1>5, <2>1, <2>2, <2>4 DEF Signed
    <3>2. SigIs([sm |-> done.sm, by |-> 0])
      BY <1>4, <1>6, <3>1 DEF SigIs
    <3>3. (sk.idx + 1) % IndexSpace(p) \in Nat
      BY <1>3, <2>1
    <3> HIDE DEF p, done, key, zeros
    <3> QED
      BY <1>3, <1>4, <1>9, <3>1, <3>2, <3>3 DEF p, done, key, zeros
  <2> QED
    BY <2>3, <2>4
<1> QED
  BY <1>4, <1>7, <1>8, <1>9

\* What a run of sign does to the files.
SignedWith(sk) ==
  LET p    == TheParams(Oid)
      done == Signed(p, sk)
  IN  /\ SkIs(sk)
      /\ file = KeyFile(p, Oid, [sk |-> sk, pk |-> TheKey(keys).pk])
      /\ \/ /\ file' = KeyFile(p, Oid, [sk |-> done.sk, pk |-> TheKey(keys).pk])
            /\ sigs' = sigs \union
                 {[sm |-> done.sm, by |-> IF signed < Leaves - 1 THEN keys ELSE 0]}
         \/ done.ret = -2 /\ file' = file /\ sigs' = sigs

LEMMA SignStep ==
  ASSUME ToolInv, Sign
  PROVE  /\ keys > 0 /\ KnownOid(build.mt, Oid) /\ Sized(TheParams(Oid))
         /\ \E sk : SignedWith(sk)
<1> DEFINE p    == TheParams(Oid)
           key  == TheKey(keys)
           skAt == OID_LEN + p.pk_bytes
           by   == IF signed < Leaves - 1 THEN keys ELSE 0
<1>1. keys > 0 /\ KnownOid(build.mt, Oid) /\ file # NoFile /\ signed \in Nat /\ FileIs
  BY DEF ToolInv, Sign, FileIs
<1>2. PICK sk : SkIs(sk) /\ file = KeyFile(p, Oid, [sk |-> sk, pk |-> key.pk])
  BY <1>1 DEF FileIs
<1> DEFINE done == Signed(p, sk)
<1>3. Sized(p)
  BY <1>1, KnownSized DEF ToolInv
<1>4. /\ OidAt(file, 0) = Oid /\ OidAt(file, skAt) = Oid
      /\ Field(file, skAt + OID_LEN, p.sk_bytes) = sk
  <2> HIDE DEF p, key
  <2> DEFINE k == [sk |-> sk, pk |-> key.pk]
  <2>1. k.sk = sk /\ file = KeyFile(p, Oid, k)
    BY <1>2
  <2> HIDE DEF k
  <2>2. /\ OidAt(KeyFile(p, Oid, k), 0) = Oid /\ OidAt(KeyFile(p, Oid, k), skAt) = Oid
        /\ Field(KeyFile(p, Oid, k), skAt + OID_LEN, p.sk_bytes) = k.sk
    BY <1>3, FileParts
  <2> QED
    BY <2>1, <2>2
<1>5. \/ /\ file' = WriteBack(file, p, skAt + OID_LEN + p.sk_bytes, done.sk)
         /\ sigs' = sigs \union {[sm |-> done.sm, by |-> by]}
      \/ done.ret = -2 /\ file' = file /\ sigs' = sigs
  BY <1>4 DEF Sign
<1>6. WriteBack(file, p, skAt + OID_LEN + p.sk_bytes, done.sk)
        = KeyFile(p, Oid, [sk |-> done.sk, pk |-> key.pk])
  <2> HIDE DEF p, key, done
  <2> DEFINE k == [sk |-> sk, pk |-> key.pk]
  <2>1. k.pk = key.pk
    OBVIOUS
  <2> HIDE DEF k
  <2> QED
    BY <1>2, <1>3, <2>1, WrittenBack DEF k
<1>7. SignedWith(sk)
  BY <1>2, <1>5, <1>6 DEF SignedWith
<1> QED
  BY <1>1, <1>3, <1>7

\* A run of sign.
LEMMA SignKeeps ==
  ASSUME ToolInv, Sign
  PROVE  ToolInv'
<1> DEFINE p    == TheParams(Oid)
           key  == TheKey(keys)
           by   == IF signed < Leaves - 1 THEN keys ELSE 0
           next == IF signed > Leaves THEN signed ELSE signed + 1
<1>1. keys > 0 /\ KnownOid(build.mt, Oid) /\ file # NoFile /\ signed \in Nat
  BY SignStep DEF ToolInv, Sign
<1>2. PICK sk : SignedWith(sk)
  BY SignStep
<1> DEFINE done == Signed(p, sk)
<1>3. SkIs(sk) /\ file = KeyFile(p, Oid, [sk |-> sk, pk |-> key.pk])
  BY <1>2 DEF SignedWith
<1>4. \/ /\ file' = KeyFile(p, Oid, [sk |-> done.sk, pk |-> key.pk])
         /\ sigs' = sigs \union {[sm |-> done.sm, by |-> by]}
      \/ done.ret = -2 /\ file' = file /\ sigs' = sigs
  BY <1>2 DEF SignedWith
<1>5. /\ build' = build /\ name' = name /\ step' = step /\ drawn' = drawn
      /\ verdict' = verdict /\ keys' = keys /\ signed' = next
      /\ fd' = fd /\ filled' = filled /\ wanted' = wanted /\ x' = x /\ xlen' = xlen /\ at' = at
  BY DEF Sign, randomVars
<1>6. p' = p /\ Oid' = Oid /\ TheKey(keys)' = key
  BY <1>5 DEF TheParams, Oid, TheKey
<1>7. /\ SigIs([sm |-> done.sm, by |-> by])
      /\ done.sk = [idx |-> done.sk.idx, at |-> done.sk.at]
      /\ IF next < Leaves THEN done.sk.idx = next /\ done.sk.at = key.sk.at
         ELSE done.sk.idx \in Nat /\ done.sk.at = [o \in SkPlaces(p) |-> Zero]
      /\ done.ret = -2 => signed >= Leaves
  BY <1>1, <1>3, SignedIs
<1>8. RandomInv' /\ OpenExact' /\ Drawing' /\ keys' \in Nat /\ signed' \in Nat
  <2>1. RandomInv'
    BY <1>5 DEF ToolInv, RandomInv, RandomTypeOK, Progress
  <2>2. OpenExact' /\ Drawing'
    BY <1>5, <1>6 DEF ToolInv, OpenExact, Drawing
  <2> QED
    BY <1>1, <1>5, <2>1, <2>2 DEF ToolInv
<1>9. FileIs' /\ \A s \in sigs' : SigIs(s)'
  <2>1. \A s : SigIs(s) => SigIs(s)'
    BY <1>5 DEF SigIs
  <2>2. CASE /\ file' = KeyFile(p, Oid, [sk |-> done.sk, pk |-> key.pk])
             /\ sigs' = sigs \union {[sm |-> done.sm, by |-> by]}
    <3>1. FileIs'
      <4> HIDE DEF done, key, next
      <4> QED
        BY <1>1, <1>5, <1>6, <1>7, <2>2 DEF FileIs, SkIs
    <3>2. \A s \in sigs' : SigIs(s)
      <4> HIDE DEF done, by
      <4> QED
        BY <1>7, <2>2 DEF ToolInv
    <3> QED
      BY <2>1, <3>1, <3>2
  <2>3. CASE done.ret = -2 /\ file' = file /\ sigs' = sigs
    <3>1. signed >= Leaves /\ ~ (next < Leaves) /\ ~ (signed < Leaves)
      BY <1>1, <1>7, <2>3, KeyToolsAssumption
    <3>2. FileIs'
      <4> HIDE DEF done, key, next
      <4> QED
        BY <1>1, <1>3, <1>5, <1>6, <2>3, <3>1 DEF FileIs, SkIs
    <3> QED
      BY <2>1, <2>3, <3>2 DEF ToolInv
  <2> QED
    BY <1>4, <2>2, <2>3
<1> QED
  BY <1>5, <1>8, <1>9 DEF ToolInv

\* A public key verifies just what was signed with its secret key.
LEMMA VerifiedIs ==
  ASSUME NEW p, Sized(p), keys \in Nat \ {0}, NEW s, SigIs(s)
  PROVE  Verified(p, s.sm, NewKey(p, Drew(keys)).pk) <=> s.by = keys
<1> DEFINE pk == NewKey(p, Drew(keys)).pk
<1>1. /\ pk[0] = Root(Seed(keys, 1), Seed(keys, 3)) /\ pk[p.n] = Seed(keys, 3)
  <2>1. Drew(keys)[1] = Seed(keys, 1) /\ Drew(keys)[3] = Seed(keys, 3)
    BY DEF Drew
  <2> QED
    BY <2>1, KeyParts
<1> HIDE DEF pk
<1>2. Root(Seed(keys, 1), Seed(keys, 3)) # Zero
  <2>1. "zero" \in DOMAIN Zero /\ "zero" \notin DOMAIN Root(Seed(keys, 1), Seed(keys, 3))
    BY DEF Zero, Root
  <2> QED
    BY <2>1
<1>3. CASE s.by = 0
  BY <1>1, <1>2, <1>3 DEF SigIs, Verified, pk
<1>4. CASE s.by # 0
  <2>1. /\ s.sm.skSeed = Seed(s.by, 1) /\ s.sm.pubSeed = Seed(s.by, 3)
        /\ s.sm.root = Root(Seed(s.by, 1), Seed(s.by, 3)) /\ s.sm # JunkSig
    BY <1>4 DEF SigIs
  <2>2. Seed(s.by, 3) = Seed(keys, 3) => s.by = keys
    <3>1. Seed(s.by, 3).key = s.by /\ Seed(keys, 3).key = keys
      BY DEF Seed
    <3> QED
      BY <3>1
  <2> QED
    BY <1>1, <2>1, <2>2 DEF Verified, pk
<1> QED
  BY <1>3, <1>4

\* A run of open.
LEMMA OpenKeeps ==
  ASSUME ToolInv, Open
  PROVE  ToolInv'
<1> DEFINE p   == TheParams(Oid)
           key == TheKey(keys)
<1>1. /\ keys > 0 /\ KnownOid(build.mt, Oid) /\ FileIs /\ keys \in Nat \ {0}
  BY DEF ToolInv, Open, FileIs
<1>2. PICK sk : file = KeyFile(p, Oid, [sk |-> sk, pk |-> key.pk])
  BY <1>1 DEF FileIs
<1>3. Sized(p)
  BY <1>1, KnownSized DEF ToolInv
<1>4. OidAt(file, 0) = Oid /\ Field(file, OID_LEN, p.pk_bytes) = key.pk
  <2> HIDE DEF p, key
  <2> DEFINE k == [sk |-> sk, pk |-> key.pk]
  <2>1. k.pk = key.pk /\ file = KeyFile(p, Oid, k)
    BY <1>2
  <2> HIDE DEF k
  <2>2. /\ OidAt(KeyFile(p, Oid, k), 0) = Oid
        /\ Field(KeyFile(p, Oid, k), OID_LEN, p.pk_bytes) = k.pk
    BY <1>3, FileParts
  <2> QED
    BY <2>1, <2>2
<1>5. PICK s \in sigs :
        verdict' = [by |-> s.by, under |-> keys,
                    ret |-> IF Verified(p, s.sm, key.pk) THEN 0 ELSE -1]
  BY <1>4 DEF Open
<1>6. /\ build' = build /\ name' = name /\ step' = step /\ drawn' = drawn /\ file' = file
      /\ sigs' = sigs /\ keys' = keys /\ signed' = signed
      /\ fd' = fd /\ filled' = filled /\ wanted' = wanted /\ x' = x /\ xlen' = xlen /\ at' = at
  BY DEF Open, randomVars
<1>7. p' = p /\ Oid' = Oid /\ key' = key
  BY <1>6 DEF TheParams, Oid, TheKey
<1>8. OpenExact'
  <2>1. Verified(p, s.sm, key.pk) <=> s.by = keys
    BY <1>1, <1>3, VerifiedIs DEF ToolInv, TheKey
  <2> HIDE DEF p, key
  <2> QED
    BY <1>1, <1>5, <2>1 DEF OpenExact
<1>9. RandomInv' /\ Drawing'
  BY <1>6, <1>7 DEF ToolInv, RandomInv, RandomTypeOK, Progress, Drawing
<1>10. FileIs'
  BY <1>1, <1>6, <1>7 DEF FileIs, SkIs, TheKey
<1>11. \A t \in sigs' : SigIs(t)'
  BY <1>6 DEF ToolInv, SigIs
<1> QED
  BY <1>6, <1>8, <1>9, <1>10, <1>11 DEF ToolInv

\* A step of any program.
LEMMA ToolInvNext == ToolInv /\ [Next]_vars => ToolInv'
<1> SUFFICES ASSUME ToolInv, [Next]_vars
             PROVE  ToolInv'
  OBVIOUS
<1>1. CASE UNCHANGED vars
  BY <1>1, SMTT(30) DEF vars, toolVars, randomVars, ToolInv, RandomInv, RandomTypeOK,
              Progress, Drawing, FileIs, SkIs, TheKey, TheParams, Oid, SigIs, OpenExact
<1>2. CASE KeypairRefused \/ Keypair \/ KeypairPubSeed
  BY <1>2, KeypairKeeps
<1>3. CASE KeypairDone
  BY <1>3, KeypairDoneKeeps
<1>4. CASE Random
  BY <1>4, RandomKeeps
<1>5. CASE Sign
  BY <1>5, SignKeeps
<1>6. CASE Open
  BY <1>6, OpenKeeps
<1> QED
  BY <1>1, <1>2, <1>3, <1>4, <1>5, <1>6 DEF Next

-----------------------------------------------------------------------------

(***************************************************************************)
(* Filled in the composition: keypair makes its keys of seeds that         *)
(* randombytes filled from end to end.                                     *)
(***************************************************************************)
THEOREM FilledHolds == Spec => []Filled
<1>1. ToolInv => Filled
  BY DEF ToolInv, RandomInv, RandomTypeOK, Progress, Filled
<1> QED
  BY ToolInvInit, ToolInvNext, <1>1, PTL DEF Spec

(***************************************************************************)
(* open ends with 0 just on what a key pair signed before its last index,  *)
(* run under its own public key.                                           *)
(***************************************************************************)
THEOREM OpenExactHolds == Spec => []OpenExact
<1>1. ToolInv => OpenExact
  BY DEF ToolInv
<1> QED
  BY ToolInvInit, ToolInvNext, <1>1, PTL DEF Spec

\* Two key files for one parameter set and public key differ in the last entry.
LEMMA FilesDiffer ==
  ASSUME NEW p, Sized(p), NEW oid, NEW key, NEW sk
  PROVE  LET f == KeyFile(p, oid, key)
             g == KeyFile(p, oid, [sk |-> sk, pk |-> key.pk])
         IN  /\ DOMAIN g = DOMAIN f
             /\ \A o \in DOMAIN f :
                  /\ g[o].len = f[o].len
                  /\ g[o] = f[o] \/ \A q \in DOMAIN f : q <= o
<1> DEFINE f    == KeyFile(p, oid, key)
           k    == [sk |-> sk, pk |-> key.pk]
           g    == KeyFile(p, oid, k)
           skAt == OID_LEN + p.pk_bytes
           last == skAt + OID_LEN
<1>1. /\ p.pk_bytes \in Nat \ {0} /\ p.sk_bytes \in Nat \ {0} /\ OID_LEN = 4
      /\ k.pk = key.pk
  BY DEF Sized, OID_LEN
<1> HIDE DEF k
<1>2. /\ DOMAIN f = {0, 4, skAt, last} /\ DOMAIN g = {0, 4, skAt, last}
      /\ f[0] = g[0] /\ f[4] = g[4] /\ f[skAt] = g[skAt]
      /\ f[last] = Entry(p.sk_bytes, key.sk) /\ g[last] = Entry(p.sk_bytes, k.sk)
  BY <1>1 DEF KeyFile
<1>3. \A q \in {0, 4, skAt, last} : q <= last
  BY <1>1
<1>4. f[last].len = g[last].len
  BY <1>2 DEF Entry
<1> HIDE DEF f, g, skAt, last
<1> QED
  BY <1>2, <1>3, <1>4 DEF f, g, k

(***************************************************************************)
(* Signing leaves a key file as it is but for the secret key.              *)
(***************************************************************************)
THEOREM FileInPlaceHolds == Spec => FileInPlace
<1> DEFINE Kept == /\ DOMAIN file' = DOMAIN file
                   /\ \A o \in DOMAIN file :
                        /\ file'[o].len = file[o].len
                        /\ file'[o] = file[o] \/ \A q \in DOMAIN file : q <= o
<1>1. ASSUME ToolInv, [Next]_vars, keys' = keys
      PROVE  Kept
  <2>1. CASE file' = file
    BY <2>1
  <2>2. CASE Sign
    <3> DEFINE p  == TheParams(Oid)
               pk == TheKey(keys).pk
    <3>1. PICK sk : SignedWith(sk)
      BY <1>1, <2>2, SignStep
    <3>2. Sized(p)
      BY <1>1, <2>2, SignStep
    <3> DEFINE new == Signed(p, sk).sk
    <3>3. /\ file = KeyFile(p, Oid, [sk |-> sk, pk |-> pk])
          /\ file' = file \/ file' = KeyFile(p, Oid, [sk |-> new, pk |-> pk])
      BY <3>1 DEF SignedWith
    <3> HIDE DEF p, pk, new
    <3> DEFINE k == [sk |-> sk, pk |-> pk]
    <3>4. k.pk = pk
      OBVIOUS
    <3> HIDE DEF k
    <3>5. file' = file \/ /\ file = KeyFile(p, Oid, k)
                          /\ file' = KeyFile(p, Oid, [sk |-> new, pk |-> k.pk])
      BY <3>3, <3>4 DEF k
    <3> QED
      BY <2>1, <3>2, <3>5, FilesDiffer
  <2>3. file' = file \/ Sign
    <3>1. ~ KeypairDone
      BY <1>1 DEF KeypairDone, ToolInv
    <3> QED
      BY <1>1, <3>1 DEF Next, KeypairRefused, Keypair, KeypairPubSeed, Random, Open,
                        vars, toolVars
  <2> QED
    BY <2>1, <2>2, <2>3
<1> QED
  BY ToolInvInit, ToolInvNext, <1>1, PTL DEF Spec, FileInPlace

-----------------------------------------------------------------------------

\* The entry of a name in a table,
LEMMA EntryOf ==
  ASSUME NEW shapes, NEW name_ \in DOMAIN OidsByName(shapes)
  PROVE  \E h \in DOMAIN Hashes, i \in DOMAIN shapes :
           /\ name_ = Name(Hashes[h], shapes[i])
           /\ OidsByName(shapes)[name_] = (h - 1) * Len(shapes) + i
<1> DEFINE places == (DOMAIN Hashes) \X (DOMAIN shapes)
           At_(e) == Name(Hashes[e[1]], shapes[e[2]])
           e0 == CHOOSE e \in places : At_(e) = name_
<1>1. name_ \in {At_(e) : e \in places}
  BY DEF OidsByName
<1>2. e0 \in places /\ At_(e0) = name_
  BY <1>1
<1>3. OidsByName(shapes)[name_] = (e0[1] - 1) * Len(shapes) + e0[2]
  BY <1>1 DEF OidsByName
<1> HIDE DEF e0
<1>4. e0[1] \in DOMAIN Hashes /\ e0[2] \in DOMAIN shapes
  BY <1>2
<1> QED
  BY <1>2, <1>3, <1>4

\* with the hashes there are,
LEMMA HashIs ==
  ASSUME NEW h \in DOMAIN Hashes
  PROVE  /\ h \in 1 .. 7
         /\ Hashes[h].n = IF h \in {5, 7} THEN 24 ELSE IF h \in {2, 4} THEN 64 ELSE 32
         /\ Hashes[h].hash = IF h \in {1, 2, 5} THEN "SHA2"
                             ELSE IF h \in {3, 4} THEN "SHAKE" ELSE "SHAKE256"
<1>1. DOMAIN Hashes = 1 .. 7
  BY DEF Hashes
<1>2. h = 1 \/ h = 2 \/ h = 3 \/ h = 4 \/ h = 5 \/ h = 6 \/ h = 7
  BY <1>1
<1>3. CASE h \in {1, 2, 3, 4}
  BY <1>3 DEF Hashes
<1>4. CASE h \in {5, 6, 7}
  BY <1>4 DEF Hashes
<1> QED
  BY <1>2, <1>3, <1>4

\* and what the hash and n of a name come to in the switches.
FuncOf(h) == IF h \in {1, 2, 5} THEN "XMSS_SHA2"
             ELSE IF h = 3 THEN "XMSS_SHAKE128" ELSE "XMSS_SHAKE256"

\* The switches of XMSS agree with the table of names,
LEMMA XmssNamed ==
  ASSUME NEW h \in 1 .. 7, NEW i \in 1 .. 3, NEW oid, oid = (h - 1) * 3 + i
  PROVE  /\ xmss_func(oid) = FuncOf(h)
         /\ xmss_n(oid) = IF h \in {5, 7} THEN 24 ELSE IF h \in {2, 4} THEN 64 ELSE 32
         /\ xmss_height(oid) = XmssShapes[i][1] /\ XmssShapes[i][2] = 1
<1>1. oid \in 1 .. 21
  OBVIOUS
<1>2. xmss_func(oid) = FuncOf(h)
  BY DEF xmss_func, FuncOf
<1>3. xmss_n(oid) = IF h \in {5, 7} THEN 24 ELSE IF h \in {2, 4} THEN 64 ELSE 32
  BY DEF xmss_n
<1>4. XmssShapes[1] = <<10, 1>> /\ XmssShapes[2] = <<16, 1>> /\ XmssShapes[3] = <<20, 1>>
  BY DEF XmssShapes
<1>5. i = 1 \/ i = 2 \/ i = 3
  OBVIOUS
<1>6. xmss_height(oid) = IF i = 1 THEN 10 ELSE IF i = 2 THEN 16 ELSE 20
  BY DEF xmss_height
<1> QED
  BY <1>2, <1>3, <1>4, <1>5, <1>6

\* and so do those of XMSS^MT.
LEMMA XmssmtNamed ==
  ASSUME NEW h \in 1 .. 7, NEW i \in 1 .. 8, NEW oid, oid = (h - 1) * 8 + i
  PROVE  /\ xmssmt_func(oid) = FuncOf(h)
         /\ xmssmt_n(oid) = IF h \in {5, 7} THEN 24 ELSE IF h \in {2, 4} THEN 64 ELSE 32
         /\ xmssmt_height(oid) = XmssmtShapes[i][1] /\ xmssmt_d(oid) = XmssmtShapes[i][2]
<1>1. \E g \in 0 .. 6 : oid = 8 * g + i
  <2>1. h - 1 \in 0 .. 6 /\ oid = 8 * (h - 1) + i
    OBVIOUS
  <2> QED
    BY <2>1
<1>2. xmssmt_func(oid) = FuncOf(h)
  BY DEF xmssmt_func, FuncOf
<1>3. xmssmt_n(oid) = IF h \in {5, 7} THEN 24 ELSE IF h \in {2, 4} THEN 64 ELSE 32
  BY DEF xmssmt_n
<1>4. /\ XmssmtShapes[1] = <<20, 2>> /\ XmssmtShapes[2] = <<20, 4>>
      /\ XmssmtShapes[3] = <<40, 2>> /\ XmssmtShapes[4] = <<40, 4>>
      /\ XmssmtShapes[5] = <<40, 8>> /\ XmssmtShapes[6] = <<60, 3>>
      /\ XmssmtShapes[7] = <<60, 6>> /\ XmssmtShapes[8] = <<60, 12>>
  BY DEF XmssmtShapes
<1>5. \A places \in SUBSET (1 .. 8) : oid \in InGroups(places) <=> i \in places
  BY <1>1 DEF InGroups
<1>6. /\ oid \in InGroups({1, 2}) <=> i \in {1, 2}
      /\ oid \in InGroups({3, 4, 5}) <=> i \in {3, 4, 5}
      /\ oid \in InGroups({6, 7, 8}) <=> i \in {6, 7, 8}
      /\ oid \in InGroups({1, 3}) <=> i \in {1, 3}
      /\ oid \in InGroups({2, 4}) <=> i \in {2, 4}
      /\ oid \in InGroups({5}) <=> i = 5
      /\ oid \in InGroups({6}) <=> i = 6
      /\ oid \in InGroups({7}) <=> i = 7
      /\ oid \in InGroups({8}) <=> i = 8
  BY <1>5
<1>7. xmssmt_height(oid) = IF i \in {1, 2} THEN 20 ELSE IF i \in {3, 4, 5} THEN 40 ELSE 60
  BY <1>6 DEF xmssmt_height
<1>8. xmssmt_d(oid) = IF i \in {1, 3} THEN 2 ELSE IF i \in {2, 4} THEN 4
                      ELSE IF i = 5 THEN 8 ELSE IF i = 6 THEN 3 ELSE IF i = 7 THEN 6 ELSE 12
  BY <1>6 DEF xmssmt_d
<1>9. i = 1 \/ i = 2 \/ i = 3 \/ i = 4 \/ i = 5 \/ i = 6 \/ i = 7 \/ i = 8
  OBVIOUS
<1> QED
  BY <1>2, <1>3, <1>4, <1>7, <1>8, <1>9

\* Parameters of the hash and shape of a name are as it promises.
LEMMA ParsedNamed ==
  ASSUME NEW fast \in BOOLEAN, NEW h \in DOMAIN Hashes, NEW shape,
         shape \in {<<10, 1>>, <<16, 1>>, <<20, 1>>, <<20, 2>>, <<20, 4>>, <<40, 2>>, <<40, 4>>,
                    <<40, 8>>, <<60, 3>>, <<60, 6>>, <<60, 12>>}
  PROVE  AsNamed(Parsed(fast, FuncOf(h), Hashes[h].n, shape[1], shape[2]),
                 Name(Hashes[h], shape))
<1> DEFINE name_ == Name(Hashes[h], shape)
           p == Parsed(fast, FuncOf(h), Hashes[h].n, shape[1], shape[2])
<1>1. /\ p.func = FuncOf(h) /\ p.n = Hashes[h].n /\ p.full_height = shape[1] /\ p.d = shape[2]
      /\ p.tree_height = shape[1] \div shape[2]
  BY DEF Parsed, Initialized
<1>2. /\ name_.hash = Hashes[h].hash /\ name_.n = Hashes[h].n
      /\ name_.height = shape[1] /\ name_.layers = shape[2]
  BY DEF Name
<1>3. (shape[1] \div shape[2]) * shape[2] = shape[1]
  OBVIOUS
<1> HIDE DEF p, name_
<1>4. p.func = CASE name_.hash = "SHA2" -> "XMSS_SHA2"
                 [] name_.hash = "SHAKE" /\ name_.n = 32 -> "XMSS_SHAKE128"
                 [] OTHER -> "XMSS_SHAKE256"
  BY <1>1, <1>2, HashIs DEF FuncOf
<1>5. core_hash_has(p.n, p.func)
  BY <1>1, HashIs DEF core_hash_has, FuncOf
<1> QED
  BY <1>1, <1>2, <1>3, <1>4, <1>5 DEF AsNamed, p, name_

\* So the parameters of a name's OID are those that it promises.
LEMMA ParamsNamed ==
  ASSUME NEW mt \in BOOLEAN, NEW fast \in BOOLEAN, NEW name_ \in Names(mt)
  PROVE  AsNamed(ParamsOf(mt, fast, OidOf(mt, name_)), name_)
<1> DEFINE oid == OidOf(mt, name_)
<1>1. CASE mt
  <2>1. name_ \in DOMAIN OidsByName(XmssmtShapes) /\ oid = OidsByName(XmssmtShapes)[name_]
    BY <1>1 DEF Names, OidOf, xmssmt_str_to_oid
  <2>2. DOMAIN XmssmtShapes = 1 .. 8 /\ Len(XmssmtShapes) = 8
    BY DEF XmssmtShapes
  <2> HIDE DEF oid
  <2>3. PICK h \in DOMAIN Hashes, i \in 1 .. 8 :
          name_ = Name(Hashes[h], XmssmtShapes[i]) /\ oid = (h - 1) * 8 + i
    <3>1. \E h \in DOMAIN Hashes, i \in DOMAIN XmssmtShapes :
            /\ name_ = Name(Hashes[h], XmssmtShapes[i])
            /\ OidsByName(XmssmtShapes)[name_] = (h - 1) * Len(XmssmtShapes) + i
      BY <2>1, EntryOf
    <3> QED
      BY <2>1, <2>2, <3>1
  <2>4. /\ xmssmt_func(oid) = FuncOf(h) /\ xmssmt_n(oid) = Hashes[h].n
        /\ xmssmt_height(oid) = XmssmtShapes[i][1] /\ xmssmt_d(oid) = XmssmtShapes[i][2]
    BY <2>3, HashIs, XmssmtNamed
  <2>5. oid \in 0 .. 255 /\ xmssmt_func(oid) # "none"
    <3>1. h \in 1 .. 7
      BY HashIs
    <3> QED
      BY <2>3, <2>4, <3>1 DEF FuncOf
  <2>6. ParamsOf(mt, fast, oid)
          = Parsed(fast, FuncOf(h), Hashes[h].n, XmssmtShapes[i][1], XmssmtShapes[i][2])
    BY <1>1, <2>4, <2>5 DEF ParamsOf, xmssmt_parse_oid
  <2>7. XmssmtShapes[i] \in {<<20, 2>>, <<20, 4>>, <<40, 2>>, <<40, 4>>, <<40, 8>>,
                             <<60, 3>>, <<60, 6>>, <<60, 12>>}
    BY DEF XmssmtShapes
  <2> QED
    BY <2>3, <2>6, <2>7, ParsedNamed DEF oid
<1>2. CASE ~ mt
  <2>1. name_ \in DOMAIN OidsByName(XmssShapes) /\ oid = OidsByName(XmssShapes)[name_]
    BY <1>2 DEF Names, OidOf, xmss_str_to_oid
  <2>2. DOMAIN XmssShapes = 1 .. 3 /\ Len(XmssShapes) = 3
    BY DEF XmssShapes
  <2> HIDE DEF oid
  <2>3. PICK h \in DOMAIN Hashes, i \in 1 .. 3 :
          name_ = Name(Hashes[h], XmssShapes[i]) /\ oid = (h - 1) * 3 + i
    <3>1. \E h \in DOMAIN Hashes, i \in DOMAIN XmssShapes :
            /\ name_ = Name(Hashes[h], XmssShapes[i])
            /\ OidsByName(XmssShapes)[name_] = (h - 1) * Len(XmssShapes) + i
      BY <2>1, EntryOf
    <3> QED
      BY <2>1, <2>2, <3>1
  <2>4. /\ xmss_func(oid) = FuncOf(h) /\ xmss_n(oid) = Hashes[h].n
        /\ xmss_height(oid) = XmssShapes[i][1] /\ XmssShapes[i][2] = 1
    BY <2>3, HashIs, XmssNamed
  <2>5. oid \in 0 .. 255 /\ xmss_func(oid) # "none"
    <3>1. h \in 1 .. 7
      BY HashIs
    <3> QED
      BY <2>3, <2>4, <3>1 DEF FuncOf
  <2>6. ParamsOf(mt, fast, oid)
          = Parsed(fast, FuncOf(h), Hashes[h].n, XmssShapes[i][1], XmssShapes[i][2])
    BY <1>2, <2>4, <2>5 DEF ParamsOf, xmss_parse_oid
  <2>7. XmssShapes[i] \in {<<10, 1>>, <<16, 1>>, <<20, 1>>}
    BY DEF XmssShapes
  <2> QED
    BY <2>3, <2>6, <2>7, ParsedNamed DEF oid
<1> QED
  BY <1>1, <1>2

(***************************************************************************)
(* keypair, sign and open work with the parameters that the name given to  *)
(* keypair promises: each finds them from the OID in the file alone.       *)
(***************************************************************************)
THEOREM ParamsAsNamedHolds == Spec => []ParamsAsNamed
<1>1. ASSUME ToolInv, file # NoFile
      PROVE  AsNamed(TheParams(OidAt(file, 0)), name)
  <2>1. KnownOid(build.mt, Oid) /\ Sized(TheParams(Oid))
    BY <1>1, KnownSized DEF ToolInv, FileIs
  <2>2. PICK k : file = KeyFile(TheParams(Oid), Oid, k)
    BY <1>1 DEF ToolInv, FileIs
  <2>3. OidAt(file, 0) = Oid
    BY <2>1, <2>2, FileParts
  <2>4. build.mt \in BOOLEAN /\ build.fast \in BOOLEAN
    BY <1>1 DEF ToolInv
  <2>5. name \in Names(build.mt)
    <3>1. ~ KnownOid(build.mt, NoOid)
      BY <2>4 DEF KnownOid, NoOid, xmss_func, xmssmt_func
    <3> QED
      BY <2>1, <3>1 DEF Oid, OidOf
  <2> QED
    BY <2>3, <2>4, <2>5, ParamsNamed DEF TheParams, Oid
<1>2. ToolInv => ParamsAsNamed
  BY <1>1 DEF ParamsAsNamed
<1> QED
  BY ToolInvInit, ToolInvNext, <1>2, PTL DEF Spec
-----------------------------------------------------------------------------

(***************************************************************************)
(* The walks over the fields of a key or a signature.  up is where the     *)
(* pointer is after each field of a walk, and x where it ends.             *)
(***************************************************************************)
NoTurn(p, t, i) == t
NoInv(p, t, i) == TRUE
Rules == INSTANCE LoopRules WITH Body <- NoTurn, Inv <- NoInv

FieldNames == {"stack", "stackoffset", "stacklevels", "auth", "keep", "h", "next_idx",
               "stackusage", "completed", "node", "retain", "next_leaf", "idx", "R", "wots_sig"}
Walks == Seq(FieldNames \X Int)

Moves(up, walk) ==
  /\ up \in [0 .. Len(walk) -> Int] /\ up[0] = 0
  /\ \A j \in 1 .. Len(walk) : up[j] = up[j - 1] + walk[j][2]

Takes(walk, x_) ==
  /\ walk \in Walks
  /\ \E up : Moves(up, walk) /\ up[Len(walk)] = x_

\* Every field has at most b bytes.
Below(walk, b) == walk \in Walks /\ \A j \in 1 .. Len(walk) : walk[j][2] <= b

\* The equation that defines the recursive function in Bytes.
IsUpTo(f, walk) ==
  f = [j \in 0 .. Len(walk) |-> IF j = 0 THEN 0 ELSE f[j - 1] + walk[j][2]]

\* The fields of a walk have their lengths.
LEMMA FieldBytes ==
  ASSUME NEW walk \in Walks, NEW j \in 1 .. Len(walk)
  PROVE  walk[j] \in FieldNames \X Int /\ walk[j][2] \in Int
<1>1. walk[j] \in FieldNames \X Int
  BY DEF Walks
<1>2. \A f \in FieldNames \X Int : f[2] \in Int
  OBVIOUS
<1> QED
  BY <1>1, <1>2

\* Bytes is where the pointer ends.
LEMMA BytesTakes ==
  ASSUME NEW walk, NEW x_, Takes(walk, x_)
  PROVE  Bytes(walk) = x_
<1> DEFINE f == CHOOSE g : IsUpTo(g, walk)
           n == Len(walk)
<1>1. PICK up : Moves(up, walk) /\ up[n] = x_
  BY DEF Takes
<1>2. n \in Nat
  BY DEF Takes, Walks
<1>3. IsUpTo(up, walk)
  <2>1. up = [j \in 0 .. n |-> up[j]]
    BY <1>1 DEF Moves
  <2>2. \A j \in 0 .. n : up[j] = IF j = 0 THEN 0 ELSE up[j - 1] + walk[j][2]
    BY <1>1, <1>2 DEF Moves
  <2> QED
    BY <2>1, <2>2 DEF IsUpTo
<1>4. IsUpTo(f, walk)
  BY <1>3
<1>5. Bytes(walk) = f[n]
  BY DEF Bytes, IsUpTo
<1> HIDE DEF f
<1> DEFINE S == {j \in Nat : j <= n => f[j] = up[j]}
<1>6. 0 \in S
  BY <1>2, <1>3, <1>4 DEF IsUpTo
<1>7. ASSUME NEW j \in Nat, j \in S
      PROVE  j + 1 \in S
  <2> SUFFICES ASSUME j + 1 <= n
               PROVE  f[j + 1] = up[j + 1]
    OBVIOUS
  <2>1. f[j] = up[j]
    BY <1>2, <1>7
  <2>2. j + 1 \in 0 .. n /\ (j + 1) - 1 = j /\ j + 1 # 0
    BY <1>2
  <2>3. f[j + 1] = f[(j + 1) - 1] + walk[j + 1][2]
    BY <1>4, <2>2 DEF IsUpTo
  <2>4. up[j + 1] = up[(j + 1) - 1] + walk[j + 1][2]
    BY <1>3, <2>2 DEF IsUpTo
  <2> QED
    BY <2>1, <2>2, <2>3, <2>4
<1> HIDE DEF S
<1>8. n \in S
  BY <1>2, <1>6, <1>7, Rules!SetInduction
<1> QED
  BY <1>1, <1>2, <1>5, <1>8 DEF S

\* Two fields,
LEMMA TwoFields ==
  ASSUME NEW s \in FieldNames, NEW t \in FieldNames, NEW a \in Int, NEW b \in Int
  PROVE  /\ Takes(<< <<s, a>>, <<t, b>> >>, a + b)
         /\ Len(<< <<s, a>>, <<t, b>> >>) = 2
         /\ \A m \in Int : a <= m /\ b <= m => Below(<< <<s, a>>, <<t, b>> >>, m)
<1> DEFINE walk == << <<s, a>>, <<t, b>> >>
           up   == [j \in 0 .. 2 |-> IF j = 0 THEN 0 ELSE IF j = 1 THEN a ELSE a + b]
<1>1. Len(walk) = 2 /\ walk[1] = <<s, a>> /\ walk[2] = <<t, b>>
  OBVIOUS
<1>2. walk \in Walks
  <2>1. <<s, a>> \in FieldNames \X Int /\ <<t, b>> \in FieldNames \X Int
    OBVIOUS
  <2> QED
    BY <2>1 DEF Walks
<1>3. walk[1][2] = a /\ walk[2][2] = b
  BY <1>1
<1>4. up \in [0 .. 2 -> Int] /\ up[0] = 0 /\ up[1] = a /\ up[2] = a + b
  OBVIOUS
<1> HIDE DEF walk, up
<1>5. Moves(up, walk)
  <2>1. \A j \in 1 .. 2 : j = 1 \/ j = 2
    OBVIOUS
  <2> QED
    BY <1>1, <1>3, <1>4, <2>1 DEF Moves
<1>6. Takes(walk, a + b)
  BY <1>1, <1>2, <1>4, <1>5 DEF Takes
<1>7. \A m \in Int : a <= m /\ b <= m => Below(walk, m)
  BY <1>1, <1>2, <1>3 DEF Below
<1> QED
  BY <1>1, <1>6, <1>7 DEF walk

\* two walks one after the other,
LEMMA WalksJoin ==
  ASSUME NEW v, NEW w, NEW x_ \in Int, NEW y \in Int, Takes(v, x_), Takes(w, y)
  PROVE  /\ Takes(v \o w, x_ + y)
         /\ Len(v \o w) = Len(v) + Len(w)
         /\ \A m \in Int : Below(v, m) /\ Below(w, m) => Below(v \o w, m)
<1> DEFINE k == Len(v)
           n == Len(w)
           walk == v \o w
<1>1. PICK f : Moves(f, v) /\ f[k] = x_
  BY DEF Takes
<1>2. PICK g : Moves(g, w) /\ g[n] = y
  BY DEF Takes
<1>3. v \in Walks /\ w \in Walks /\ k \in Nat /\ n \in Nat
  BY DEF Takes, Walks
<1>4. /\ walk \in Walks /\ Len(walk) = k + n
      /\ \A j \in 1 .. k : walk[j] = v[j]
      /\ \A j \in k + 1 .. k + n : walk[j] = w[j - k]
  BY <1>3 DEF Walks
<1> DEFINE up == [j \in 0 .. k + n |-> IF j <= k THEN f[j] ELSE x_ + g[j - k]]
<1> HIDE DEF walk, k, n
<1>5. /\ \A j \in 0 .. k : f[j] \in Int
      /\ \A j \in 0 .. n : g[j] \in Int
      /\ f[0] = 0 /\ g[0] = 0
      /\ \A j \in 1 .. k : f[j] = f[j - 1] + v[j][2]
      /\ \A j \in 1 .. n : g[j] = g[j - 1] + w[j][2]
  BY <1>1, <1>2 DEF Moves, k, n
<1>6. up \in [0 .. k + n -> Int] /\ up[0] = 0 /\ up[k + n] = x_ + y
  <2>1. \A j \in 0 .. k + n : (IF j <= k THEN f[j] ELSE x_ + g[j - k]) \in Int
    BY <1>3, <1>5
  <2>2. up[0] = 0
    BY <1>3, <1>5
  <2>3. up[k + n] = x_ + y
    <3>1. up[k + n] = IF k + n <= k THEN f[k + n] ELSE x_ + g[(k + n) - k]
      BY <1>3
    <3>2. (k + n) - k = n /\ (k + n <= k <=> n = 0)
      BY <1>3
    <3>3. CASE n = 0
      <4>1. y = 0 /\ k + n = k
        BY <1>2, <1>3, <1>5, <3>3
      <4> QED
        BY <1>1, <3>1, <3>2, <3>3, <4>1
    <3>4. CASE n # 0
      BY <1>2, <3>1, <3>2, <3>4
    <3> QED
      BY <3>3, <3>4
  <2> QED
    BY <2>1, <2>2, <2>3
<1>7. ASSUME NEW j \in 1 .. k + n
      PROVE  up[j] = up[j - 1] + walk[j][2]
  <2>1. CASE j <= k
    <3>1. up[j] = f[j] /\ up[j - 1] = f[j - 1] /\ walk[j] = v[j] /\ f[j] = f[j - 1] + v[j][2]
      BY <1>3, <1>4, <1>5, <2>1
    <3> QED
      BY <3>1
  <2>2. CASE j > k
    <3>1. /\ up[j] = x_ + g[j - k] /\ walk[j] = w[j - k] /\ j - k \in 1 .. n
          /\ g[j - k] = g[(j - k) - 1] + w[j - k][2]
      <4>1. j - k \in 1 .. n /\ j \in k + 1 .. k + n /\ ~ (j <= k)
        BY <1>3, <2>2
      <4>2. up[j] = x_ + g[j - k]
        BY <1>3, <4>1
      <4> QED
        BY <1>4, <1>5, <4>1, <4>2
    <3>2. up[j - 1] = x_ + g[(j - k) - 1]
      <4>1. CASE j = k + 1
        BY <1>1, <1>3, <1>5, <4>1
      <4>2. CASE j > k + 1
        BY <1>3, <4>2
      <4> QED
        BY <1>3, <2>2, <4>1, <4>2
    <3>3. w[j - k][2] \in Int /\ g[(j - k) - 1] \in Int
      <4>1. (j - k) - 1 \in 0 .. n
        BY <1>3, <3>1
      <4> QED
        BY <1>3, <1>5, <3>1, <4>1, FieldBytes DEF n
    <3> DEFINE a == g[(j - k) - 1]
               b == w[j - k][2]
    <3>4. x_ + (a + b) = (x_ + a) + b
      <4> HIDE DEF a, b
      <4>1. a \in Int /\ b \in Int
        BY <3>3 DEF a, b
      <4> QED
        BY <4>1
    <3>5. up[j] = x_ + (a + b) /\ up[j - 1] = x_ + a /\ walk[j][2] = b
      BY <3>1, <3>2
    <3> HIDE DEF a, b
    <3> QED
      BY <3>4, <3>5
  <2> QED
    BY <1>3, <2>1, <2>2
<1> HIDE DEF up
<1>8. Takes(walk, x_ + y)
  BY <1>4, <1>6, <1>7 DEF Takes, Moves
<1>9. ASSUME NEW m \in Int, Below(v, m), Below(w, m)
      PROVE  Below(walk, m)
  <2>1. \A j \in 1 .. k : v[j][2] <= m
    BY <1>9 DEF Below, k
  <2>2. \A j \in 1 .. n : w[j][2] <= m
    BY <1>9 DEF Below, n
  <2>3. ASSUME NEW j \in 1 .. k + n
        PROVE  walk[j][2] <= m
    <3>1. CASE j <= k
      BY <1>3, <1>4, <2>1, <3>1
    <3>2. CASE j > k
      <4>1. j - k \in 1 .. n /\ walk[j] = w[j - k]
        BY <1>3, <1>4, <3>2
      <4> QED
        BY <2>2, <4>1
    <3> QED
      BY <1>3, <3>1, <3>2
  <2> QED
    BY <1>4, <2>3 DEF Below
<1> QED
  BY <1>4, <1>8, <1>9 DEF walk, k, n

\* and one walk n times.
LEMMA WalkRepeats ==
  ASSUME NEW n \in Nat, NEW w, NEW x_ \in Int, Takes(w, x_), Len(w) > 0
  PROVE  /\ Takes(Repeat(n, w), n * x_)
         /\ \A m \in Int : Below(w, m) => Below(Repeat(n, w), m)
<1> DEFINE k == Len(w)
           walk == Repeat(n, w)
<1>1. PICK f : Moves(f, w) /\ f[k] = x_
  BY DEF Takes
<1>2. w \in Walks /\ k \in Nat \ {0}
  BY DEF Takes, Walks
<1> HIDE DEF k
<1>3. n * k \in Nat
  BY <1>2
<1>4. walk = [j \in 1 .. n * k |-> w[1 + ((j - 1) % k)]]
  BY DEF Repeat, k
<1>5. \A j \in 1 .. n * k : 1 + ((j - 1) % k) \in 1 .. k
  BY <1>2, <1>3
<1>6. walk \in Walks /\ Len(walk) = n * k
  <2>1. \A j \in 1 .. k : w[j] \in FieldNames \X Int
    BY <1>2 DEF Walks, k
  <2>2. walk \in [1 .. n * k -> FieldNames \X Int]
    BY <1>4, <1>5, <2>1
  <2> HIDE DEF walk
  <2> QED
    BY <1>3, <2>2 DEF Walks
<1> HIDE DEF walk
<1> DEFINE up == [j \in 0 .. n * k |-> (j \div k) * x_ + f[j % k]]
<1>7. /\ \A j \in 0 .. k : f[j] \in Int
      /\ f[0] = 0
      /\ \A j \in 1 .. k : f[j] = f[j - 1] + w[j][2]
  BY <1>1 DEF Moves, k
<1>8. up \in [0 .. n * k -> Int] /\ up[0] = 0 /\ up[n * k] = n * x_
  <2>1. ASSUME NEW j \in 0 .. n * k
        PROVE  (j \div k) * x_ + f[j % k] \in Int
    <3>1. j \div k \in Int /\ j % k \in 0 .. k
      BY <1>2, <1>3
    <3>2. (j \div k) * x_ \in Int
      BY <3>1
    <3> QED
      BY <1>7, <3>1, <3>2
  <2>2. up[0] = 0
    <3>1. 0 \div k = 0 /\ 0 % k = 0 /\ 0 * x_ = 0
      BY <1>2
    <3> QED
      BY <1>3, <1>7, <3>1
  <2>3. up[n * k] = n * x_
    <3>1. (n * k) \div k = n /\ (n * k) % k = (n * k) - n * k
      <4>1. n * k < (n + 1) * k
        BY <1>2
      <4> QED
        BY <1>2, <1>3, <4>1, Rules!DivUnique
    <3>2. (n * k) % k = 0 /\ n * x_ \in Int
      BY <1>3, <3>1
    <3> QED
      BY <1>3, <1>7, <3>1, <3>2
  <2> QED
    BY <2>1, <2>2, <2>3
<1>9. ASSUME NEW j \in 1 .. n * k
      PROVE  up[j] = up[j - 1] + walk[j][2]
  <2>0. PICK q \in Int, r \in 0 .. k - 1 :
          q = (j - 1) \div k /\ r = (j - 1) % k /\ j - 1 = q * k + r
    <3>1. j - 1 \in Int
      BY <1>3
    <3> QED
      BY <1>2, <3>1, Rules!DivMod
  <2>1. /\ j \in 0 .. n * k /\ j - 1 \in 0 .. n * k /\ j \in Int
        /\ r \in Int /\ r + 1 \in 1 .. k /\ (r + 1) - 1 = r /\ r \in 0 .. k /\ 1 + r = r + 1
        /\ r + 1 < k \/ r + 1 = k
    BY <1>2, <1>3
  <2>2. PICK qk \in Int, qx \in Int : qk = q * k /\ qx = q * x_
    BY <1>2
  <2>3. /\ (q + 1) * k = qk + k /\ (q + 1) * x_ = qx + x_ /\ q + 1 \in Int
        /\ ((q + 1) + 1) * k = qk + (k + k)
    BY <1>2, <2>2
  <2>4. up[j - 1] = qx + f[r] /\ walk[j] = w[r + 1]
    BY <1>4, <2>0, <2>1, <2>2
  <2>5. up[j] = (j \div k) * x_ + f[j % k]
    BY <2>1
  <2> HIDE DEF up
  <2>6. j = qk + (r + 1)
    <3>1. j - 1 = qk + r
      BY <2>0, <2>2
    <3> QED
      BY <2>1, <2>2, <3>1
  <2>7. PICK a \in Int, b \in Int : a = f[r] /\ b = w[r + 1][2] /\ f[r + 1] = a + b
    <3>1. f[r + 1] = f[(r + 1) - 1] + w[r + 1][2]
      BY <1>7, <2>1
    <3>2. w[r + 1][2] \in Int
      BY <1>2, <2>1, FieldBytes DEF k
    <3> QED
      BY <1>7, <2>1, <3>1, <3>2
  <2>8. CASE r + 1 < k
    <3>1. q * k <= j /\ j < (q + 1) * k
      BY <1>2, <2>1, <2>2, <2>3, <2>6, <2>8
    <3>2. j \div k = q /\ j % k = j - q * k
      BY <1>2, <2>1, <3>1, Rules!DivUnique
    <3>3. j % k = r + 1
      BY <2>1, <2>2, <2>6, <3>2
    <3>4. up[j] = qx + (a + b)
      BY <2>2, <2>5, <2>7, <3>2, <3>3
    <3>5. up[j - 1] + walk[j][2] = (qx + a) + b
      BY <2>4, <2>7
    <3> QED
      BY <3>4, <3>5
  <2>9. CASE r + 1 = k
    <3>1. (q + 1) * k <= j /\ j < ((q + 1) + 1) * k /\ j = qk + k
      BY <1>2, <2>1, <2>2, <2>3, <2>6, <2>9
    <3>2. j \div k = q + 1 /\ j % k = j - (q + 1) * k
      BY <1>2, <2>1, <2>3, <3>1, Rules!DivUnique
    <3>3. j % k = 0
      BY <1>2, <2>1, <2>3, <3>1, <3>2
    <3>4. up[j] = (qx + x_) + 0
      BY <1>7, <2>3, <2>5, <3>2, <3>3
    <3>5. x_ = a + b
      BY <1>1, <2>7, <2>9
    <3>6. up[j - 1] + walk[j][2] = (qx + a) + b
      BY <2>4, <2>7
    <3> QED
      BY <3>4, <3>5, <3>6
  <2> QED
    BY <2>1, <2>8, <2>9
<1> HIDE DEF up
<1>10. Takes(walk, n * x_)
  BY <1>6, <1>8, <1>9 DEF Takes, Moves
<1>11. ASSUME NEW m \in Int, Below(w, m)
       PROVE  Below(walk, m)
  BY <1>4, <1>5, <1>6, <1>11 DEF Below, k
<1> QED
  BY <1>10, <1>11 DEF walk

\* Five fields.
LEMMA FiveFields ==
  ASSUME NEW walk \in Walks, Len(walk) = 5,
         NEW a, NEW b, NEW c, NEW d_, NEW e,
         walk[1][2] = a, walk[2][2] = b, walk[3][2] = c, walk[4][2] = d_, walk[5][2] = e
  PROVE  /\ Takes(walk, a + b + c + d_ + e)
         /\ \A m \in Int : a <= m /\ b <= m /\ c <= m /\ d_ <= m /\ e <= m => Below(walk, m)
<1> DEFINE up == [j \in 0 .. 5 |-> IF j = 0 THEN 0 ELSE IF j = 1 THEN a
                                   ELSE IF j = 2 THEN a + b ELSE IF j = 3 THEN a + b + c
                                   ELSE IF j = 4 THEN a + b + c + d_
                                   ELSE a + b + c + d_ + e]
<1>1. a \in Int /\ b \in Int /\ c \in Int /\ d_ \in Int /\ e \in Int
  BY FieldBytes
<1>2. /\ up \in [0 .. 5 -> Int] /\ up[0] = 0 /\ up[1] = a /\ up[2] = a + b
      /\ up[3] = a + b + c /\ up[4] = a + b + c + d_ /\ up[5] = a + b + c + d_ + e
  BY <1>1
<1> HIDE DEF up
<1>3. \A j \in 1 .. 5 : j = 1 \/ j = 2 \/ j = 3 \/ j = 4 \/ j = 5
  OBVIOUS
<1>4. Moves(up, walk)
  <2>1. /\ up[1] = up[1 - 1] + walk[1][2] /\ up[2] = up[2 - 1] + walk[2][2]
        /\ up[3] = up[3 - 1] + walk[3][2] /\ up[4] = up[4 - 1] + walk[4][2]
        /\ up[5] = up[5 - 1] + walk[5][2]
    BY <1>1, <1>2
  <2>2. \A j \in 1 .. 5 : up[j] = up[j - 1] + walk[j][2]
    BY <1>3, <2>1
  <2> QED
    BY <1>2, <2>2 DEF Moves
<1>5. Takes(walk, a + b + c + d_ + e)
  BY <1>2, <1>4 DEF Takes
<1>6. \A m \in Int : a <= m /\ b <= m /\ c <= m /\ d_ <= m /\ e <= m => Below(walk, m)
  BY <1>3 DEF Below
<1> QED
  BY <1>5, <1>6

-----------------------------------------------------------------------------

(***************************************************************************)
(* What the layout needs of a parameter set.                               *)
(***************************************************************************)
Shaped(p) ==
  /\ p.n \in {24, 32, 64} /\ p.padding_len <= p.n /\ p.padding_len \in Nat
  /\ p.tree_height \in Nat \ {0} /\ p.d \in Nat \ {0} /\ p.bds_k = 0
  /\ p.full_height = p.d * p.tree_height
  /\ p.index_bytes \in Nat
  /\ p.wots_sig_bytes \in Nat /\ p.wots_sig_bytes >= 4 * p.n
  /\ p.sig_bytes = p.index_bytes + p.n + p.d * p.wots_sig_bytes + p.full_height * p.n

\* What a state takes in the formula of fast_sk_bytes.
StateBytes(p) ==
  (p.tree_height + 1) * p.n + 4 + p.tree_height + 1
    + p.tree_height * p.n + Half(p.tree_height) * p.n
    + (p.tree_height - p.bds_k) * (7 + p.n)
    + (2^p.bds_k - p.bds_k - 1) * p.n + 4

\* A walk over a state takes that, and no field more than the buffer.
LEMMA StateTakes ==
  ASSUME NEW p, Shaped(p)
  PROVE  /\ Bytes(DeserializeWalk(p)) = StateBytes(p)
         /\ \A j \in DOMAIN DeserializeWalk(p) : DeserializeWalk(p)[j][2] <= SwapBuffer(p)
<1> DEFINE h  == p.tree_height
           n  == p.n
           a  == (h + 1) * n
           b  == h * n
           c  == Half(h) * n
           r  == (2^p.bds_k - p.bds_k - 1) * n
           u  == h - p.bds_k
           m  == SwapBuffer(p)
           w1 == << <<"stack", a>>, <<"stackoffset", 4>>, <<"stacklevels", h + 1>>,
                    <<"auth", b>>, <<"keep", c>> >>
           w2 == << <<"h", 1>>, <<"next_idx", 4>>, <<"stackusage", 1>>,
                    <<"completed", 1>>, <<"node", n>> >>
           w3 == << <<"retain", r>>, <<"next_leaf", 4>> >>
<1>1. h \in Nat \ {0} /\ n \in Nat /\ n >= 24 /\ p.bds_k = 0
  BY DEF Shaped
<1>2. Half(h) \in Nat /\ Half(h) <= h
  BY <1>1 DEF Half
<1>3. /\ a \in Nat /\ b \in Nat /\ c \in Nat /\ b <= a /\ c <= b /\ n <= a /\ h + 1 <= a
      /\ u = h
  <2>1. b \in Nat /\ c \in Nat /\ a = b + n /\ c <= b /\ h <= b
    <3>1. b \in Nat /\ a = b + n
      BY <1>1
    <3>2. c \in Nat /\ c <= b
      <4>1. b - c = (h - Half(h)) * n
        BY <1>1, <1>2
      <4>2. (h - Half(h)) * n \in Nat /\ c \in Nat
        BY <1>1, <1>2
      <4> QED
        BY <3>1, <4>1, <4>2
    <3>3. b - h = h * (n - 1)
      BY <1>1
    <3>4. h * (n - 1) \in Nat
      BY <1>1
    <3>5. h <= b
      BY <1>1, <3>1, <3>3, <3>4
    <3> QED
      BY <3>1, <3>2, <3>5
  <2> QED
    BY <1>1, <2>1
<1>4. r = 0 /\ m = a
  <2>1. 2^p.bds_k - p.bds_k - 1 = 0
    BY <1>1
  <2>2. r = 0
    BY <1>1, <2>1
  <2>3. m = (IF h + 1 > 0 THEN h + 1 ELSE 0) * n
    BY <2>1 DEF SwapBuffer
  <2> QED
    BY <1>1, <2>2, <2>3
<1>5. DeserializeWalk(p) = w1 \o Repeat(u, w2) \o w3
  BY DEF DeserializeWalk
<1>6. StateBytes(p) = a + 4 + h + 1 + b + c + u * (7 + n) + r + 4
  BY DEF StateBytes
<1> HIDE DEF h, n, a, b, c, r, u, m
<1>7. Takes(w1, a + 4 + (h + 1) + b + c) /\ Below(w1, m)
  <2>1. a \in Int /\ 4 \in Int /\ h + 1 \in Int /\ b \in Int /\ c \in Int /\ m \in Int
        /\ a <= m /\ 4 <= m /\ h + 1 <= m /\ b <= m /\ c <= m
    BY <1>1, <1>3, <1>4
  <2>2. /\ Len(w1) = 5 /\ w1[1] = <<"stack", a>> /\ w1[2] = <<"stackoffset", 4>>
        /\ w1[3] = <<"stacklevels", h + 1>> /\ w1[4] = <<"auth", b>> /\ w1[5] = <<"keep", c>>
    OBVIOUS
  <2>3. w1 \in Walks
    <3>1. /\ <<"stack", a>> \in FieldNames \X Int /\ <<"stackoffset", 4>> \in FieldNames \X Int
          /\ <<"stacklevels", h + 1>> \in FieldNames \X Int
          /\ <<"auth", b>> \in FieldNames \X Int /\ <<"keep", c>> \in FieldNames \X Int
      BY <2>1 DEF FieldNames
    <3> QED
      BY <3>1 DEF Walks
  <2> HIDE DEF w1
  <2>4. /\ w1[1][2] = a /\ w1[2][2] = 4 /\ w1[3][2] = h + 1 /\ w1[4][2] = b /\ w1[5][2] = c
    BY <2>2
  <2> QED
    BY <2>1, <2>2, <2>3, <2>4, FiveFields
<1>8. Takes(w2, 1 + 4 + 1 + 1 + n) /\ Below(w2, m) /\ Len(w2) = 5
  <2>1. 1 \in Int /\ 4 \in Int /\ n \in Int /\ m \in Int /\ 1 <= m /\ 4 <= m /\ n <= m
    BY <1>1, <1>3, <1>4
  <2>2. /\ Len(w2) = 5 /\ w2[1] = <<"h", 1>> /\ w2[2] = <<"next_idx", 4>>
        /\ w2[3] = <<"stackusage", 1>> /\ w2[4] = <<"completed", 1>> /\ w2[5] = <<"node", n>>
    OBVIOUS
  <2>3. w2 \in Walks
    <3>1. /\ <<"h", 1>> \in FieldNames \X Int /\ <<"next_idx", 4>> \in FieldNames \X Int
          /\ <<"stackusage", 1>> \in FieldNames \X Int
          /\ <<"completed", 1>> \in FieldNames \X Int /\ <<"node", n>> \in FieldNames \X Int
      BY <2>1 DEF FieldNames
    <3> QED
      BY <3>1 DEF Walks
  <2> HIDE DEF w2
  <2>4. /\ w2[1][2] = 1 /\ w2[2][2] = 4 /\ w2[3][2] = 1 /\ w2[4][2] = 1 /\ w2[5][2] = n
    BY <2>2
  <2> QED
    BY <2>1, <2>2, <2>3, <2>4, FiveFields
<1>9. Takes(w3, r + 4) /\ Below(w3, m)
  <2>1. r \in Int /\ 4 \in Int /\ m \in Int /\ r <= m /\ 4 <= m
    BY <1>1, <1>3, <1>4
  <2>2. "retain" \in FieldNames /\ "next_leaf" \in FieldNames
    BY DEF FieldNames
  <2> QED
    BY <2>1, <2>2, TwoFields, Zenon
<1> HIDE DEF w1, w2, w3
<1> DEFINE v  == Repeat(u, w2)
           x1 == a + 4 + (h + 1) + b + c
           x2 == 1 + 4 + 1 + 1 + n
           x3 == r + 4
<1>10. x1 \in Int /\ x2 \in Int /\ x3 \in Int /\ u \in Nat /\ m \in Int /\ u * x2 \in Int
       /\ x2 = 7 + n
  BY <1>1, <1>3, <1>4
<1>11. Takes(w1, x1) /\ Takes(w2, x2) /\ Takes(w3, x3)
  BY <1>7, <1>8, <1>9
<1>12. x1 + u * x2 + x3 = StateBytes(p)
  <2>1. u * x2 = u * (7 + n)
    BY <1>10
  <2>2. x1 + u * x2 + x3 = a + 4 + h + 1 + b + c + u * x2 + r + 4
    <3> DEFINE y == u * x2
    <3>1. y \in Int
      BY <1>10
    <3> HIDE DEF y
    <3>2. x1 + y + x3 = a + 4 + h + 1 + b + c + y + r + 4
      BY <1>1, <1>3, <1>4, <3>1
    <3> QED
      BY <3>2 DEF y
  <2> QED
    BY <1>6, <2>1, <2>2
<1> HIDE DEF x1, x2, x3
<1>13. Takes(v, u * x2) /\ Below(v, m)
  <2>1. Len(w2) > 0
    BY <1>8
  <2> QED
    BY <1>8, <1>10, <1>11, <2>1, WalkRepeats
<1> HIDE DEF v
<1>14. Takes(w1 \o v, x1 + u * x2) /\ Below(w1 \o v, m)
  BY <1>7, <1>10, <1>11, <1>13, WalksJoin
<1>15. Takes((w1 \o v) \o w3, (x1 + u * x2) + x3) /\ Below((w1 \o v) \o w3, m)
  <2>1. x1 + u * x2 \in Int
    BY <1>10
  <2> QED
    BY <1>9, <1>10, <1>11, <1>14, <2>1, WalksJoin
<1> DEFINE walk == DeserializeWalk(p)
<1>16. walk = (w1 \o v) \o w3
  BY <1>5 DEF v
<1> HIDE DEF walk
<1>17. Bytes(walk) = StateBytes(p)
  BY <1>12, <1>15, <1>16, BytesTakes
<1>18. \A j \in DOMAIN walk : walk[j][2] <= m
  <2>1. Below(walk, m)
    BY <1>15, <1>16
  <2>2. DOMAIN walk = 1 .. Len(walk)
    BY <2>1 DEF Below, Walks
  <2> QED
    BY <2>1, <2>2 DEF Below
<1> QED
  BY <1>17, <1>18 DEF walk, m

\* A signature takes sig_bytes.
LEMMA SignatureTakes ==
  ASSUME NEW p, Shaped(p)
  PROVE  Bytes(SignatureWalk(p)) = p.sig_bytes
<1> DEFINE w1 == << <<"idx", p.index_bytes>>, <<"R", p.n>> >>
           w2 == << <<"wots_sig", p.wots_sig_bytes>>, <<"auth", p.tree_height * p.n>> >>
           x1 == p.index_bytes + p.n
           b  == p.tree_height * p.n
           x2 == p.wots_sig_bytes + b
<1>1. /\ p.index_bytes \in Int /\ p.n \in Int /\ p.wots_sig_bytes \in Int
      /\ p.tree_height \in Int /\ p.d \in Nat
  BY DEF Shaped
<1>2. b \in Int /\ x1 \in Int /\ x2 \in Int /\ p.d * x2 \in Int
  BY <1>1
<1>3. SignatureWalk(p) = w1 \o Repeat(p.d, w2)
  BY DEF SignatureWalk
<1>4. Takes(w1, x1)
  <2>1. "idx" \in FieldNames /\ "R" \in FieldNames
    BY DEF FieldNames
  <2> QED
    BY <1>1, <2>1, TwoFields, Zenon
<1>5. Takes(w2, x2) /\ Len(w2) = 2
  <2>1. "wots_sig" \in FieldNames /\ "auth" \in FieldNames
    BY DEF FieldNames
  <2> QED
    BY <1>1, <1>2, <2>1, TwoFields, Zenon
<1>6. x1 + p.d * x2 = p.sig_bytes
  <2>1. p.d * x2 = p.d * p.wots_sig_bytes + p.d * b
    <3> HIDE DEF b
    <3> QED
      BY <1>1, <1>2
  <2>2. p.d * b = p.full_height * p.n
    <3>1. p.full_height = p.d * p.tree_height
      BY DEF Shaped
    <3> QED
      BY <1>1, <3>1
  <2> DEFINE y == p.d * p.wots_sig_bytes
             z == p.full_height * p.n
  <2>3. y \in Int /\ z \in Int
    <3>1. p.d * b \in Int
      BY <1>1, <1>2
    <3> QED
      BY <1>1, <2>2, <3>1
  <2>4. p.d * x2 = y + z
    BY <2>1, <2>2
  <2>5. p.sig_bytes = p.index_bytes + p.n + y + z
    BY DEF Shaped
  <2> HIDE DEF y, z, x2
  <2> QED
    BY <1>1, <2>3, <2>4, <2>5
<1> HIDE DEF w1, w2, x1, x2
<1>7. Takes(Repeat(p.d, w2), p.d * x2)
  <2>1. Len(w2) > 0
    BY <1>5
  <2> QED
    BY <1>1, <1>2, <1>5, <2>1, WalkRepeats
<1>8. Takes(w1 \o Repeat(p.d, w2), x1 + p.d * x2)
  BY <1>2, <1>4, <1>7, WalksJoin
<1> QED
  BY <1>3, <1>6, <1>8, BytesTakes

\* What LayoutExact says of one parameter set.
Laid(p) ==
  LET walk == DeserializeWalk(p)
  IN  /\ PubSeedAt(p) + p.n = core_sk_bytes(p)
      /\ SerializeWalk(p) = walk
      /\ StatesEnd(p, walk) + (p.d - 1) * p.wots_sig_bytes = fast_sk_bytes(p)
      /\ \A j \in DOMAIN walk : walk[j][2] <= SwapBuffer(p)
      /\ Bytes(SignatureWalk(p)) = p.sig_bytes
      /\ p.index_bytes + p.n + HashPrefix(p) <= p.sig_bytes

\* It follows from the shape.
LEMMA LayoutIs ==
  ASSUME NEW p, Shaped(p)
  PROVE  Laid(p)
<1> DEFINE walk == DeserializeWalk(p)
<1>1. /\ p.index_bytes \in Nat /\ p.n \in Nat /\ p.n >= 24 /\ p.padding_len \in Nat
      /\ p.padding_len <= p.n /\ p.d \in Nat \ {0} /\ p.wots_sig_bytes \in Nat
      /\ p.wots_sig_bytes >= 4 * p.n /\ p.tree_height \in Nat
  BY DEF Shaped
<1>2. PubSeedAt(p) + p.n = core_sk_bytes(p)
  BY <1>1 DEF PubSeedAt, core_sk_bytes
<1>3. SerializeWalk(p) = walk
  BY DEF SerializeWalk, DeserializeWalk
<1>4. Bytes(walk) = StateBytes(p) /\ \A j \in DOMAIN walk : walk[j][2] <= SwapBuffer(p)
  BY StateTakes
<1>5. fast_sk_bytes(p)
        = p.index_bytes + 4 * p.n + (2 * p.d - 1) * StateBytes(p) + (p.d - 1) * p.wots_sig_bytes
  BY DEF fast_sk_bytes, StateBytes
<1>6. StatesEnd(p, walk) = p.index_bytes + 4 * p.n + (2 * p.d - 1) * StateBytes(p)
  BY <1>4 DEF StatesEnd
<1>7. Bytes(SignatureWalk(p)) = p.sig_bytes
  BY SignatureTakes
<1>8. p.index_bytes + p.n + HashPrefix(p) <= p.sig_bytes
  <2> DEFINE y == p.d * p.wots_sig_bytes
             z == p.full_height * p.n
             v == (p.d - 1) * p.wots_sig_bytes
  <2>1. v \in Nat /\ y = v + p.wots_sig_bytes
    BY <1>1
  <2>2. z \in Nat
    <3>1. p.full_height = p.d * p.tree_height
      BY DEF Shaped
    <3>2. p.full_height \in Nat
      BY <1>1, <3>1
    <3> QED
      BY <1>1, <3>2
  <2>3. p.sig_bytes = p.index_bytes + p.n + y + z
    BY DEF Shaped
  <2>4. HashPrefix(p) = p.padding_len + 3 * p.n
    BY DEF HashPrefix
  <2> HIDE DEF y, z, v
  <2> QED
    BY <1>1, <2>1, <2>2, <2>3, <2>4
<1> HIDE DEF walk
<1> QED
  BY <1>2, <1>3, <1>4, <1>5, <1>6, <1>7, <1>8 DEF Laid, walk

\* xmss_xmssmt_initialize_params gives such a shape where the layers share
\* the height out evenly.
LEMMA ParsedShaped ==
  ASSUME NEW fast \in BOOLEAN, NEW func, NEW n \in {24, 32, 64},
         NEW shape \in {<<10, 1>>, <<16, 1>>, <<20, 1>>, <<20, 2>>, <<20, 4>>, <<40, 2>>,
                        <<40, 4>>, <<40, 8>>, <<60, 3>>, <<60, 6>>, <<60, 12>>}
  PROVE  Shaped(Parsed(fast, func, n, shape[1], shape[2]))
<1> DEFINE height == shape[1]
           d_ == shape[2]
           wots_len == (8 * n) \div 4 + 3
           sizes ==
             [func |-> func, n |-> n, padding_len |-> padding_len(n),
              full_height |-> height, d |-> d_, wots_w |-> 16, bds_k |-> 0,
              tree_height |-> height \div d_,
              wots_len |-> wots_len, wots_sig_bytes |-> wots_len * n,
              index_bytes |-> IF d_ = 1 THEN 4 ELSE (height + 7) \div 8,
              sig_bytes |-> (IF d_ = 1 THEN 4 ELSE (height + 7) \div 8) + n
                              + d_ * (wots_len * n) + height * n,
              pk_bytes |-> 2 * n, sk_bytes |-> 0]
<1>1. WotsLogW[16] = 4 /\ WotsLen2[16] = 3
  BY DEF WotsLogW, WotsLen2
<1>2. Parsed(fast, func, n, height, d_)
        = [sizes EXCEPT !.sk_bytes = IF fast THEN fast_sk_bytes(sizes) ELSE core_sk_bytes(sizes)]
  BY <1>1 DEF Parsed, Initialized
<1>3. /\ height \in Nat /\ d_ \in Nat \ {0} /\ height \div d_ \in Nat \ {0}
      /\ height = d_ * (height \div d_) /\ (height + 7) \div 8 \in Nat
  OBVIOUS
<1>4. padding_len(n) \in Nat /\ padding_len(n) <= n
  BY DEF padding_len
<1>5. wots_len * n \in Nat /\ wots_len * n >= 4 * n
  <2>1. n = 24 \/ n = 32 \/ n = 64
    OBVIOUS
  <2> QED
    BY <2>1
<1> HIDE DEF height, d_, wots_len
<1>6. /\ sizes.n = n /\ sizes.padding_len = padding_len(n) /\ sizes.tree_height = height \div d_
      /\ sizes.d = d_ /\ sizes.bds_k = 0 /\ sizes.full_height = height
      /\ sizes.index_bytes = (IF d_ = 1 THEN 4 ELSE (height + 7) \div 8)
      /\ sizes.wots_sig_bytes = wots_len * n
      /\ sizes.sig_bytes = (IF d_ = 1 THEN 4 ELSE (height + 7) \div 8) + n
                              + d_ * (wots_len * n) + height * n
  OBVIOUS
<1> HIDE DEF sizes
<1>7. \A s : Shaped(sizes) => Shaped([sizes EXCEPT !.sk_bytes = s])
  BY DEF Shaped
<1>8. Shaped(sizes)
  BY <1>3, <1>4, <1>5, <1>6 DEF Shaped
<1> QED
  BY <1>2, <1>7, <1>8 DEF height, d_

\* So do the programs, for every OID they know.
LEMMA KnownShaped ==
  ASSUME build \in [mt : BOOLEAN, fast : BOOLEAN], NEW oid, KnownOid(build.mt, oid)
  PROVE  Shaped(TheParams(oid))
<1>1. oid \in 0 .. 255 /\ build.mt \in BOOLEAN /\ build.fast \in BOOLEAN
  BY DEF KnownOid
<1>2. CASE build.mt
  <2>1. xmssmt_func(oid) # "none"
    BY <1>2 DEF KnownOid
  <2>2. TheParams(oid) = Parsed(build.fast, xmssmt_func(oid), xmssmt_n(oid),
                                xmssmt_height(oid), xmssmt_d(oid))
    BY <1>1, <1>2, <2>1 DEF TheParams, ParamsOf, xmssmt_parse_oid
  <2>3. oid \in 1 .. 56 /\ xmssmt_n(oid) \in {24, 32, 64}
    BY <1>1, <2>1, XmssmtOids
  <2>4. PICK h \in 1 .. 7, i \in 1 .. 8 : oid = (h - 1) * 8 + i
    BY <2>3
  <2>5. xmssmt_height(oid) = XmssmtShapes[i][1] /\ xmssmt_d(oid) = XmssmtShapes[i][2]
    BY <2>4, XmssmtNamed
  <2>6. XmssmtShapes[i] \in {<<20, 2>>, <<20, 4>>, <<40, 2>>, <<40, 4>>, <<40, 8>>,
                             <<60, 3>>, <<60, 6>>, <<60, 12>>}
    BY DEF XmssmtShapes
  <2> QED
    BY <1>1, <2>2, <2>3, <2>5, <2>6, ParsedShaped
<1>3. CASE ~ build.mt
  <2>1. xmss_func(oid) # "none"
    BY <1>3 DEF KnownOid
  <2>2. TheParams(oid) = Parsed(build.fast, xmss_func(oid), xmss_n(oid), xmss_height(oid), 1)
    BY <1>1, <1>3, <2>1 DEF TheParams, ParamsOf, xmss_parse_oid
  <2>3. oid \in 1 .. 21 /\ xmss_n(oid) \in {24, 32, 64}
    BY <1>1, <2>1, XmssOids
  <2>4. PICK h \in 1 .. 7, i \in 1 .. 3 : oid = (h - 1) * 3 + i
    BY <2>3
  <2>5. xmss_height(oid) = XmssShapes[i][1] /\ XmssShapes[i][2] = 1
    BY <2>4, XmssNamed
  <2>6. XmssShapes[i] \in {<<10, 1>>, <<16, 1>>, <<20, 1>>}
    BY DEF XmssShapes
  <2> QED
    BY <1>1, <2>2, <2>3, <2>5, <2>6, ParsedShaped
<1> QED
  BY <1>1, <1>2, <1>3

(***************************************************************************)
(* For every parameter set a key is as long as the formulas say, and the   *)
(* walks over states and signatures end where the next part begins.        *)
(***************************************************************************)
THEOREM LayoutExactHolds == Spec => []LayoutExact
<1>1. ASSUME ToolInv, KnownOid(build.mt, Oid)
      PROVE  Laid(TheParams(Oid))
  <2>1. build \in [mt : BOOLEAN, fast : BOOLEAN]
    BY <1>1 DEF ToolInv
  <2> QED
    BY <1>1, <2>1, KnownShaped, LayoutIs
<1>2. ToolInv => LayoutExact
  BY <1>1 DEF LayoutExact, Laid
<1> QED
  BY ToolInvInit, ToolInvNext, <1>2, PTL DEF Spec
=============================================================================
