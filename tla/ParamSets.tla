----------------------------- MODULE ParamSets -----------------------------
(***************************************************************************)
(* The parameter sets of params.c: from names to OIDs, from OIDs to        *)
(* parameters, and the sizes that follow from them.                        *)
(*                                                                         *)
(* A name such as "XMSSMT-SHAKE256_40/8_192" is the record of its parts:   *)
(* hash, n in bytes, height, layers.  mt says which of the two families of *)
(* functions is meant (a program is compiled for one of them), fast which  *)
(* implementation it is linked with.  OIDs count from 1 in both families,  *)
(* so an OID on its own does not say whose it is.                          *)
(***************************************************************************)
EXTENDS SecretKey

\* The order in which both tables go through hash and n.
Hashes ==
  << [hash |-> "SHA2",     n |-> 32], [hash |-> "SHA2",     n |-> 64],
     [hash |-> "SHAKE",    n |-> 32], [hash |-> "SHAKE",    n |-> 64],
     [hash |-> "SHA2",     n |-> 24], [hash |-> "SHAKE256", n |-> 32],
     [hash |-> "SHAKE256", n |-> 24] >>

\* The heights of XMSS, heights and layers of XMSS^MT, in the tables' order.
XmssShapes == << <<10, 1>>, <<16, 1>>, <<20, 1>> >>
XmssmtShapes == << <<20, 2>>, <<20, 4>>, <<40, 2>>, <<40, 4>>, <<40, 8>>,
                   <<60, 3>>, <<60, 6>>, <<60, 12>> >>

Name(h, shape) ==
  [hash |-> h.hash, n |-> h.n, height |-> shape[1], layers |-> shape[2]]

\* A name with a hash that no table has.
UnknownName == [hash |-> "SHA3", n |-> 32, height |-> 10, layers |-> 1]

NoOid == 0    \* callers start from 0, which a name not found leaves alone

\* The comparisons with every name, each of which has its OID.
OidsByName(shapes) ==
  LET places == (DOMAIN Hashes) \X (DOMAIN shapes)
      At(e)  == Name(Hashes[e[1]], shapes[e[2]])
      Oid(e) == (e[1] - 1) * Len(shapes) + e[2]
  IN  [name \in {At(e) : e \in places} |->
         Oid(CHOOSE e \in places : At(e) = name)]

xmss_str_to_oid == OidsByName(XmssShapes)
xmssmt_str_to_oid == OidsByName(XmssmtShapes)

Names(mt) == DOMAIN (IF mt THEN xmssmt_str_to_oid ELSE xmss_str_to_oid)

OidOf(mt, name) ==
  IF name \notin Names(mt) THEN NoOid
  ELSE IF mt THEN xmssmt_str_to_oid[name] ELSE xmss_str_to_oid[name]

-----------------------------------------------------------------------------

(***************************************************************************)
(* xmss_parse_oid and xmssmt_parse_oid: one switch for each parameter.  A  *)
(* switch that does not know the OID gives "none" or 0, and the function   *)
(* returns -1.                                                             *)
(***************************************************************************)
xmss_func(oid) ==
  CASE oid \in 1 .. 6 \union 13 .. 15   -> "XMSS_SHA2"
    [] oid \in 7 .. 9                   -> "XMSS_SHAKE128"
    [] oid \in 10 .. 12 \union 16 .. 21 -> "XMSS_SHAKE256"
    [] OTHER -> "none"

xmss_n(oid) ==
  CASE oid \in 13 .. 15 \union 19 .. 21               -> 24
    [] oid \in 1 .. 3 \union 7 .. 9 \union 16 .. 18   -> 32
    [] oid \in 4 .. 6 \union 10 .. 12                 -> 64
    [] OTHER -> 0

xmss_height(oid) ==
  CASE oid \in {1, 4, 7, 10, 13, 16, 19} -> 10
    [] oid \in {2, 5, 8, 11, 14, 17, 20} -> 16
    [] oid \in {3, 6, 9, 12, 15, 18, 21} -> 20
    [] OTHER -> 0

\* Mutant: the 192-bit SHAKE256 sets among those of SHAKE_256.
xmssmt_funcShort(oid) ==
  CASE oid \in 1 .. 16 \union 33 .. 40  -> "XMSS_SHA2"
    [] oid \in 17 .. 24 \union 49 .. 56 -> "XMSS_SHAKE128"
    [] oid \in 25 .. 32 \union 41 .. 48 -> "XMSS_SHAKE256"
    [] OTHER -> "none"

xmssmt_func(oid) ==
  CASE oid \in 1 .. 16 \union 33 .. 40  -> "XMSS_SHA2"
    [] oid \in 17 .. 24                 -> "XMSS_SHAKE128"
    [] oid \in 25 .. 32 \union 41 .. 56 -> "XMSS_SHAKE256"
    [] OTHER -> "none"

xmssmt_n(oid) ==
  CASE oid \in 33 .. 40 \union 49 .. 56                -> 24
    [] oid \in 1 .. 8 \union 17 .. 24 \union 41 .. 48  -> 32
    [] oid \in 9 .. 16 \union 25 .. 32                 -> 64
    [] OTHER -> 0

\* The last two switches go by the place within a group of eight.
InGroups(places) == {8 * g + i : g \in 0 .. 6, i \in places}

xmssmt_height(oid) ==
  CASE oid \in InGroups({1, 2})    -> 20
    [] oid \in InGroups({3, 4, 5}) -> 40
    [] oid \in InGroups({6, 7, 8}) -> 60
    [] OTHER -> 0

xmssmt_d(oid) ==
  CASE oid \in InGroups({1, 3}) -> 2
    [] oid \in InGroups({2, 4}) -> 4
    [] oid \in InGroups({5})    -> 8
    [] oid \in InGroups({6})    -> 3
    [] oid \in InGroups({7})    -> 6
    [] oid \in InGroups({8})    -> 12
    [] OTHER -> 0

padding_len(n) == IF n = 24 THEN 4 ELSE n

-----------------------------------------------------------------------------

WotsLogW == [w \in {4, 16, 256} |-> IF w = 4 THEN 2 ELSE IF w = 16 THEN 4 ELSE 8]
WotsLen2 == [w \in {4, 16, 256} |-> IF w = 4 THEN 5 ELSE IF w = 16 THEN 3 ELSE 2]

\* xmss_xmssmt_initialize_params.
Initialized(fast, p) ==
  LET wots_log_w == WotsLogW[p.wots_w]
      wots_len1 == (8 * p.n) \div wots_log_w
      wots_len == wots_len1 + WotsLen2[p.wots_w]
      wots_sig_bytes == wots_len * p.n
      index_bytes == IF p.d = 1 THEN 4 ELSE (p.full_height + 7) \div 8
      sizes ==
        [func |-> p.func, n |-> p.n, padding_len |-> padding_len(p.n),
         full_height |-> p.full_height, d |-> p.d,
         wots_w |-> p.wots_w, bds_k |-> p.bds_k,
         tree_height |-> p.full_height \div p.d,
         wots_len |-> wots_len,
         wots_sig_bytes |-> wots_sig_bytes,
         index_bytes |-> index_bytes,
         sig_bytes |-> index_bytes + p.n + p.d * wots_sig_bytes
                         + p.full_height * p.n,
         pk_bytes |-> 2 * p.n,
         sk_bytes |-> 0]
  IN  [sizes EXCEPT !.sk_bytes = IF fast THEN fast_sk_bytes(sizes)
                                 ELSE core_sk_bytes(sizes)]

Parsed(fast, func, n, height, d) ==
  Initialized(fast, [func |-> func, n |-> n, full_height |-> height, d |-> d,
                     wots_w |-> 16, bds_k |-> 0])

\* By implementation and OID, for the OIDs that are known.
xmss_parse_oid ==
  [fast \in BOOLEAN |-> [oid \in {o \in 0 .. 255 : xmss_func(o) # "none"} |->
     Parsed(fast, xmss_func(oid), xmss_n(oid), xmss_height(oid), 1)]]
xmssmt_parse_oid ==
  [fast \in BOOLEAN |-> [oid \in {o \in 0 .. 255 : xmssmt_func(o) # "none"} |->
     Parsed(fast, xmssmt_func(oid), xmssmt_n(oid), xmssmt_height(oid),
            xmssmt_d(oid))]]

KnownOid(mt, oid) ==
  oid \in 0 .. 255 /\ (IF mt THEN xmssmt_func(oid) ELSE xmss_func(oid)) # "none"

ParamsOf(mt, fast, oid) ==
  IF mt THEN xmssmt_parse_oid[fast][oid] ELSE xmss_parse_oid[fast][oid]

\* What core_hash has a branch for; for anything else it returns -1, which
\* its callers do not look at.
core_hash_has(n, func) ==
  \/ n = 24 /\ func \in {"XMSS_SHA2", "XMSS_SHAKE256"}
  \/ n = 32 /\ func \in {"XMSS_SHA2", "XMSS_SHAKE128", "XMSS_SHAKE256"}
  \/ n = 64 /\ func \in {"XMSS_SHA2", "XMSS_SHAKE256"}

-----------------------------------------------------------------------------

(***************************************************************************)
(* Reference: what a name promises.  SHAKE is SHAKE128 for 32 bytes and    *)
(* SHAKE256 for 64.                                                        *)
(***************************************************************************)
AsNamed(p, name) ==
  /\ p.func = CASE name.hash = "SHA2" -> "XMSS_SHA2"
                [] name.hash = "SHAKE" /\ name.n = 32 -> "XMSS_SHAKE128"
                [] OTHER -> "XMSS_SHAKE256"
  /\ <<p.n, p.full_height, p.d>> = <<name.n, name.height, name.layers>>
  /\ p.tree_height * p.d = p.full_height
  /\ core_hash_has(p.n, p.func)
=============================================================================
