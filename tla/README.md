# A verification project for the XMSS reference code

TLA+ models of the stateful signature schemes XMSS and XMSS^MT as this
repository implements them, the TLC runs that check them and the theorems that
TLAPS proves about them. Paths below are relative to the repository (`src/`).

XMSS is a *stateful* scheme: a secret key is a tree of one-time keys, every
signature uses the next one, and using one twice breaks it. Hashing is the easy
part of the code. What is hard to get right, and hard to test because it needs
the whole life of a key, is the state: the index, its width, the end of the
key; and in `xmss_core_fast.c` the traversal state that makes each path ready
one call before it is needed. Most of the models are about that state. Hashes,
messages and seeds are symbols.

## 1. The system

| component | state | operations | modules |
|---|---|---|---|
| key index (`xmss_core*.c`) | index bytes at the head of the secret key, the seeds | sign, wipe at the last index, refuse (-2) | `Signer`, `OneTimeKeys`, `KeyIndex`, `SignToolProofs` |
| BDS traversal (`xmss_core_fast.c`) | `bds_state` per tree: shared stack, path, keep, treehash instances, retain, leaf count | `treehash_init`, `bds_state_update`, `treehash_update`, `bds_treehash_update`, `bds_round` | `BDS`, `XmssFastProofs` |
| XMSS, fast | secret key with one BDS state | `xmss_core_keypair`, `xmss_core_sign` | `XmssFast`, `XmssFastProofs` |
| XMSS^MT, fast | secret key with 2d-1 BDS states and d-1 stored signatures | `xmssmt_core_keypair`, `xmssmt_core_sign` | `XmssmtFast`, `XmssmtFastProofs` |
| XMSS and XMSS^MT, reference (`xmss_core.c`) | index and seeds | key generation, `treehash`, sign | `XmssCore`, `XmssCoreProofs` |
| both together | the two secret keys | the same calls to both | `Interop` |
| update budget of the hypertree | leaves used and leaves ready per layer | one call | `Budget`, `XmssmtFastProofs` |
| verification (`xmss_commons.c`) | none | `compute_root`, `*_sign_open` | `Merkle`, `Hashing`, `HashingProofs` |
| L-tree, keyed hashing, addresses (`xmss_commons.c`, `hash.c`, `hash_address.c`) | eight address words, handed from call to call | setters, `thash_f`, `thash_h`, `l_tree` | `Hashing`, `HashingProofs`; symbolic in `Merkle` |
| WOTS+ (`wots.c`, sizes from `params.c`) | one one-time key | digits, checksum, chains, sign, back to the public key | `Wots`, `WotsProofs`, `Hashing`, `HashingProofs` |
| parameter sets, OIDs (`params.c`, `xmss.c`) | none | names to OIDs, OIDs to parameters, sizes | `ParamSets`, `KeyToolsProofs` |
| secret key layout (`xmss_core*.c`) | none | `sk_bytes`, serialise, deserialise, offsets | `SecretKey` |
| randomness (`randombytes.c`) | file descriptor, pointer, rest | open, read, sleep, try again | `RandomBytes`, `KeyToolsProofs` |
| command line signer (`ui/sign.c`) | the key file, stdio buffers | read, sign, write key, write signature, close, exit | `OneTimeKeys`, `SignTool`, `SignToolProofs` |
| all command line tools (`ui/*.c`) | the key file, signature files | make a key pair, sign, open | `KeyTools`, `KeyToolsProofs` |
| byte conversion (`utils.c`) | none | where it cuts: `Increment`, `Serialized` | in `OneTimeKeys`, `BDS` |
| SHAKE (`fips202.c`), tests | - | - | not modelled |

**How they interact.** A caller holds the secret key as a byte array. A call of
sign reads the index out of it, compares it with the last one, writes the next
one back, hashes the message, signs the digest with WOTS+, and appends the
authentication path. The reference implementation computes the path from
scratch; the fast one copies it out of the BDS state and then does the work for
the next call: a new path (`bds_round`) and a fixed number of leaf computations
("updates") for the treehash instances that will deliver later nodes. In the
hypertree the updates of one call are shared by all layers: what the trees in
use do not need goes to the NEXT trees that will replace them. When a tree has
made its last signature, `deep_state_swap` exchanges it with its NEXT tree and
the layer above signs the new root; that costs an update too. The command line
signer loads the key from a file, calls sign, and writes key and signature back
through two stdio buffers. The file is all that connects it with the other two
tools: each takes the OID out of it, derives the parameters from the OID and adds
up sizes to find the rest. Below all of this, the hash functions are told apart
by address arrays: each function sets some of the eight words and relies on its
callers for the others.

**What is hard.** The code is sequential: no threads, no callbacks, and one
place where it waits, for `/dev/urandom`. The difficulty is in long sequences of
calls, and in things computed in several places that have to agree. A mistake in
the update budget shows thousands of signatures later; the end of a key is
reached once; a process is killed between two writes; an address word left over
from an earlier call makes two hashes share a key; the length of a key comes from
a formula and its contents from a walk. `PROJECT.json` lists the hazards with
their lines.

**What makes each part correct.** Index: no one-time key signs twice, a spent
key stays spent. BDS: every node `bds_round` copies is there, the shared stack
holds the tail nodes of the running instances and nothing else, no array of the
secret key is overrun. Hypertree: NEXT trees are complete when swapped in, no
key above signs two roots. Fast and reference implementation: the same answers.
Command line: the index is on file before the signature is out. WOTS+: a
signature fits its digest only, digests are incomparable. Addresses: none is
used for two things, and the verifier repeats what the signer did. Parameters: an
OID stands for what its name says. Layout: what is written into a key fills it
exactly. Randomness: a buffer is filled before it is used, and in the end it is.
Tools: a key file stays in shape, and open accepts exactly the signatures that a
live key made.

## 2. The modules

`Signer` is the abstract specification: indices `0 .. Leaves-1` used in order,
each at most once, then refusals for ever. The call at the last index may give a
signature, report success without a usable one, or refuse, as the sources do
all but the first. `KeyIndex`, `XmssFast`, `XmssmtFast` and `XmssCore` each
instantiate it and are checked to implement it (`ImplementsSigner`); a step of
the code maps to a step of the abstract signer, or to stuttering when a
refusal is repeated.

`KeyIndex` keeps only the index bytes and whether the rest of the key has been
overwritten with zeros. `Leaves`, `IndexSpace` (256^index_bytes) and
`FullHeightIs64` are constants, so that it can be proved about for all sizes.
`uses` is a history variable. `OneTimeKeys` has the number of keys, the index field
(`Increment` cuts idx + 1 to it, `Beyond` is the test for a refusal) and its
condition `SpareIndex`, all of which it shares with `SignTool`; the two are proved
about in one module, so its behaviours have names of their own (`KeyInit`,
`KeyNext`, `KeySpec`). The actions are the three paths of the code:
`Sign`, `SignLast` (wipe, carry on, write idx + 1 over the wiped bytes) and
`Refuse`.

`Merkle` gives hashes their meaning: a node value is a tuple that says which
node of which tree it is, `thash_h` returns the parent if given the right two
children at the right address and `Junk` otherwise. That makes a wrong node in
a path visible: the verifier `sign_open` then does not come out at the root.
Loops of the C code are the operators `For`, `ForLeaves` and `While` of `Loops`;
there is no `RECURSIVE` operator in the project. `LoopRules` has the proof rules
for them: its constants are the body and the invariant of a loop, and a proof
module instantiates it for each loop it is about; the arithmetic of powers and of
sums is there too. `PowersOfTwo(m)` says that
2^(i + 1) = 2 * 2^i up to m. It is assumed in the modules that are proved about,
since the provers know nothing of exponents; it is a law of arithmetic, true for
all constants, and TLC evaluates it on the instances.

`BDS` holds the functions on a `bds_state`, each as an operator from a state to
a state with the C function's name. `AddLeaf` is the push-and-merge body shared
by `treehash_init` and `bds_state_update`. Arrays are functions; `Put` extends
the domain when an index is out of bounds, which `StateInBounds` detects.
Integer widths are kept where they matter: `updates` is unsigned (`UINT_SPACE`
is 2^32, and 2^16 in the runs, since TLC's integers have 32 bits), is returned through
a `char` (`ThroughChar`), and the counters are cut when serialised.

`XmssFast` and `XmssmtFast` are the two pairs of key generation and signing. The
secret key is a record; `Garbage` is what uninitialised memory may hold in the
numbers that key generation deserialises and does not set. `Advanced` is the work
after a signature; in `XmssmtFast` it is a loop over the layers on a record of
the local variables (`states`, `wots_sigs`, `updates`, `needswap_upto`), with
`FeedLowest`, `AdvanceLayer` and `SwapLayer` as its parts. `ots` is a history
variable.

`Budget` is what is left of `xmssmt_core_sign` without trees, nodes and
instances: per layer which leaf signs next (`pos`) and how many leaves its NEXT
tree has (`ready`). A call starts with `updates` and takes its turns from the
lowest layer; what the tree in use takes is left open, everything else is as in
the code, down to the budget that wraps below zero (`Endless`). `XmssmtFast`
implements it (`ImplementsBudget`), with `pos` read off the index and `ready` off
`next_leaf`, so what is proved about `Budget` is about the code's own counting.

`XmssCore` is the reference implementation, whose only state is index and seeds.
Its header bytes are copied from the key *after* the wipe, unlike in the fast
implementation; the two therefore differ in the bytes of the last signature,
which verifies in neither.

`Interop` composes the two by a product of their actions with shared seeds. It
extends `XmssCore`, whose own properties are checked in the same run, and
instantiates `XmssmtFast`.

`Hashing` is one level below `Merkle`. It has the address arrays with their eight
words, and every function that changes or uses one is an operator that returns
the array as it leaves it, the value computed, and the calls made. A value is
named by the seed and address it came out under, and every call is logged with
its inputs. Names like that are only sound if an address never occurs with two
different uses, and that is the property `AddressUsedOnce`; the naming of
`Merkle` rests on it too. Key generation, both ways of making signatures (the
reference's, and the fast implementation's stored ones) and the verifier are
modelled; of the fast implementation's trees, which differ from the reference's
only in the order of the work, just the roots. `Word` stands for 2^32; with 4,
tree numbers of the model take both words. `Digest` and `chain_lengths` stand for
any digits that depend on the message; the true ones are in `Wots`.

`SecretKey` has the layout: two formulas for `sk_bytes`, the walks of
`xmssmt_serialize_state` and `xmssmt_deserialize_state` as sequences of fields,
the offsets used by key generation and signing, the walk over a signature and
the prefix of `hash_message`. `ParamSets` has the tables of `params.c`: 21 names
of XMSS and 56 of XMSS^MT with their OIDs, the switches of the two parse
functions one by one, and `xmss_xmssmt_initialize_params`. `AsNamed` is the
reference definition: what a name says the parameters are.

`RandomBytes` is `randombytes.c` with its two loops. `open` and `read` are
external and fail as often as they like; a read delivers any number of bytes up
to what was asked. `filled` is a history variable.

`KeyTools` composes the parameter tables, the layout, `randombytes` and the three
programs with the wrappers of `xmss.c`, for each of the four builds (XMSS or
XMSS^MT, reference or fast). The key file is a function from offsets to entries
with a length and a value; a read at a place where nothing of that length begins
gives `Torn`. A program runs to its end before the next one starts, except that
the steps of `randombytes` within `keypair` are steps of their own. Lengths and
offsets are the real ones of every parameter set, values are symbols, and the
number of one-time keys is small (`Leaves` stands for 2^full_height).

`SignTool` models `ui/sign.c` one stdio call at a time. A secret key is a list of
blocks, each of which holds the state of some index, live or wiped, or one that was
torn by a kill (never the first block, which has the index and the seeds in it).
What `XMSS_SIGN` leaves is as in `KeyIndex`: `NextVersion` below the last index,
`Spent` from there on, with idx + 1 cut to the field, so that in a full one the
file ends up with a wiped key of index 0. `fwrite` passes on every
block it fills, `fclose` and `exit` the rest (external, as the C library does
it). `MayCrash` allows a run to be killed at any step, `MayOverlap` lets another
start meanwhile.

`Wots` is the WOTS+ arithmetic: chain values are positions.

Operators marked `Mutant:` are plausible bugs, each a changed form of the
definition after it, and are not used by the specifications; for every property
of a passing run `PROJECT.json` names one that makes TLC find it violated.

## 3. The runs

There is no separate MC module: constants are numbers and small sets, and every
`.cfg` gives them values. Deadlock is checked except where a system really
stops: in `SignTool` (a finite set of runs), `Wots` (one signature) and `Hashing`
(the last index, which is left out).

| run | what it shows | bounds |
|---|---|---|
| `KeyIndex_life` | no key used twice, spent keys refused for ever, `Signer` implemented | 128 leaves in a field of 256 |
| `XmssFast_life` | every path right, stack exact, arrays in bounds, `Signer` implemented | height 10 (that of XMSS-SHA2_10_256), seven values of bds_k, the whole life |
| `XmssmtFast_life` | every signature verifies over the whole life; swaps, stacks, arrays; keys above sign one root each; `Signer` and `Budget` implemented | 3 layers of height 5 (that of XMSSMT 20/4, 40/8, 60/12), 32768 signatures, bds_k 0, 1, 3 |
| `Interop_life` | both implementations give the same answers; the reference's verify, and it implements `Signer` | 3 layers of 3, bds_k 0, 1 |
| `SignTool_runs` | index on file before a signature byte is out, whatever is killed; it never goes back; no reuse; output verifies unless a run was killed | 4 runs, 3 leaves in a field of 5, 2 blocks each |
| `Wots_rfc` | signatures fit their digest only, checksum kept, digests incomparable | w = 4, 16; 32 bytes, 144 digests |
| `KeyTools_all` | parameters as named, key and signature layout exact, buffers filled, key file in place, open exact, keypair ends | all 77 names and an unknown one, all 4 builds, 3 leaves, 2 key pairs, reads of 1 or 2 |
| `Hashing_life` | no address used for two things, verifier repeats the signer and finds the root, stored signatures those of the reference | 3 layers of 2, 13 chains of 4, 63 signatures, address words of 2 bits |

The signers are deterministic, so a run is one long behaviour for each initial
state, and the bound that matters is its length: each goes through the whole life
of a key and into the refusals. Heights are small for the reference and the
comparison, but all cases of the traversal occur: all values of tau, treehash
instances of every height, several running at once, retain rows, swaps of one
and of several layers in one call, budgets that are used up. `Garbage` is 0 and
255, a number that looks completed and is out of every range. In `SignTool`, three
leaves give a first index, a last usable one and the one at which the key is wiped;
four runs are one more than there are leaves, so that one is refused. What a full
field does is left to the proofs, which hold for every width. In `Wots` two bytes vary over edge values and the
others are chosen so that the sum crosses multiples of 256.

In `KeyTools` the unit of a read is n bytes and `Chunk`, two of them, stands for
the 1048576 bytes of the code: the reference asks for three units at once, so it
needs more than one read even if each delivers all, and the fast implementation
asks for two and one. Three leaves are a usable index, the one before the last and
the last; two key pairs are enough for signatures of one to be opened under
another. Only the first key pair of a build can be compared for layout, which
does not depend on the key. In `Hashing`, 13 chains (n of 2 bytes, w = 4) make an L-tree with odd rows,
one directly above another; three layers with tree numbers up to 15 use
both words of a tree number when a word has 2 bits.

### Fairness

Only `KeyTools` has a liveness property, `KeypairEnds`: the specification is
`FairSpec`. Steps that the program takes by itself (going on after a call
returned, waking up from `sleep(1)`, returning when nothing is left) are weakly
fair: nothing else can keep the process from them. That `/dev/urandom` opens and
delivers is strongly fair: these compete with failing, which the code answers by
trying again, for ever if need be. It is an assumption about the environment, and
the code needs it: without it both loops run for ever. No user is assumed to
start a program.

### Where code and documents disagree

Each has a run that TLC ends with a counterexample, and an entry under
`findings`.

1. `XmssFast_last`: at the last index the key is wiped *before* it is used, so
   the call returns 0 with a signature that does not verify. `test/xmss_fast`, as
   the Makefile builds it, signs 1024 times with a key of 1024 leaves and expects
   every signature to verify. (`xmss_core.c` and both hypertree versions do the
   same.)
2. `KeyIndex_full_refused`: for heights of 8 * index_bytes other than 64 (XMSSMT
   40/x) the index after the last one wraps to 0. The key is then not recognised
   as spent: calls succeed for ever, with signatures made from zeroed seeds. The
   command line signer puts that 0 into the key file, so `IndexNeverGoesBack` is
   stated for a field with a spare value only; no key is used again all the same
   (`NoKeyReuseHolds`).
3. `XmssmtFast_starved`: `next_leaf < (1ULL << full_height)` should compare with
   the tree height. A complete NEXT tree keeps taking updates that those above
   need; with more layers than `tree_height >> 1` updates serve, one is swapped
   in unfinished and signatures cease to verify (in the run from index 512 on).
   The shape is that of XMSSMT 40/8 and 60/12, and the theorem
   `SwappedInUnfinishedHolds` covers these; 3 layers of 5 are fine.
4. `Wots_w256`: the checksum shift is 8 where it should be 0. The OID tables
   always use w = 16.

Two more, without a run. With bds_k >= 2 and tree_height - bds_k odd, the halved
number of updates is too small, and a path node is copied before its instance has
finished; `xmss_xmssmt_initialize_params` accepts such values, the OID tables
always use bds_k = 0, and `XmssFast_life` takes the values that work. And the
comments in `xmss.h` (9, 41) and `xmss_core.h` (20, 48) describe the secret key as
`... || PUB_SEED || root`, where all of the code has `root || PUB_SEED`, as the
comments at the functions say; `OpenExact` would find an offset that follows the
header.

### The command line signer

The order of its two buffers is right only as long as the key file's first block
(which has the index) is passed on before anything of the signature. It is when
the key takes at least two blocks, because `fwrite` of the key comes first, and
when both fit one block, because `fclose` comes before `exit`. It is not for a
key of one block (XMSS, and any key of `xmss_core.c`) and a signature and message
of more: then `SavedBeforeReleased` fails if the run is killed between the two.
Nor does anything hold if two runs overlap, as the file is not locked (the run
excludes it). The index on file never goes back if the field has a spare
value; in a full one the call at the last index takes it to 0, with a wiped key.
`SavedBeforeReleased` therefore asks for a later index *or* a wiped key. A key
file of several blocks can be left with a new index and an old BDS state, which
is why `ReleasedVerifies` speaks only of behaviours without kills. The comments in
`xmss_core_fast.c` (642-644) and `xmss_core.c` (235-237) leave this to production
code, so the project states under which conditions the properties hold and does
not count the rest as a finding.

## 4. What is proved

`SignToolProofs` proves about `KeyIndex`, for every number of leaves and every
width of the index field that satisfies `ParamsAssumption`:

* `TypeCorrect`: `KeySpec => []KeyTypeOK`;
* `OneTimeUseHolds`: no one-time key makes two signatures;
* `WipedIsSpentHolds`, `RefusalIsFinalHolds`: if the field has a spare value
  (`SpareIndex`), a wiped key is refused by every later call, for ever;
* `Implements`: under the same condition `KeyIndex` implements `Signer`.

`KeyTypeOK` is more than the kinds of values: as long as the seeds are there the
index is that of a one-time key, which a wipe one call later would break.
`OneTimeUse` is not inductive: nothing in it says that the key at the index is
unused. `IndexInv` adds `Boundary`: while the key is live, the keys below its index
have made one signature and the others none. That is enough
even for a full field, because the wrap to 0 happens only after the seeds are
gone. `WipedIsSpent` and the refinement need `SpareIndex`, and finding 2 shows
that they fail without it. The refinement maps the abstract `next` to the index
while the key is live and to `Leaves` afterwards; each of the three actions maps
to the abstract action of the same name, a repeated refusal to stuttering.

It also proves about `SignTool`, for any finite or infinite set of runs, any number
of leaves and of blocks and every width of the index field:

* `TypeHolds`: `Spec => []TypeOK`, whatever overlaps and is killed: the first block
  of the file is never torn, and a live key has the index of a one-time key in it;
* `SavedBeforeReleasedHolds`, `NoKeyReuseHolds`: if runs do not overlap and the key
  has at least two blocks or the signature only one (`Careful`), a later index or a
  wiped key is on file before the signature and no key is used twice, whether or not
  runs are killed;
* `IndexNeverGoesBackHolds`: if runs do not overlap and the field has a spare value
  (`SpareIndex`), the index on file never goes back.

`NoKeyReuse` says nothing of a run that has signed and not yet written, so it is
not inductive. Nor does the index tell what is used up, since in a full field it
wraps. The invariant behind the first two (`SafeInv`, which TLC confirmed first
on small instances with a spare value and with a full field) is in terms of a key's
position (`Pos`: the index of a live key, `Leaves` for a wiped one), which never goes
back in any field. It adds
that at most one run is active, what the file holds at each of its stages
(`FileAt`), at which stage a run can have put out something (`OutAt`: every key that
is out is below the position of the file), and that the key in use is beyond all
those that are out (`FreshKey`). One lemma says that a step of one run disturbs no
other, so the proof has a step per action and under it one for the run that moves
and one for the others. For the index itself it is enough that the active run holds
none below that of the file (`ForwardInv`); `SpareIndex` is needed in one place,
for the write of idx + 1 over the wiped bytes (`SignGoesForward`).

`ReleasedVerifiesHolds` needs only that runs do not overlap. What is put out
verifies as long as no run was killed, because between runs all blocks of the key
file are of one index (`Whole`), and a run signs with what it has read
(`WholeInv`).

`KeyToolsProofs` proves about `RandomBytes` and `KeyTools`, for all parameter
sets and builds, any number of one-time keys and key pairs, requests of any
length, any limit on a read and any number of failures:

* `RandomFills` and, within `keypair`, `FilledHolds`: whenever `randombytes` has
  returned, exactly the bytes asked for have been written. `Progress` says why:
  pointer and rest make up the request and everything before the pointer is
  written. `Filled` alone speaks only of the end;
* `OpenExactHolds`: `open` accepts exactly what a key pair signed before its last
  index, under its own public key;
* `FileInPlaceHolds`: signing changes nothing in a key file but the secret key at
  its end;
* `ParamsAsNamedHolds`: the parameters that the programs derive from the OID in
  the file are those of the name given to `keypair`;
* `LayoutExactHolds`: for each of them, formulas and walks over the fields of key
  and signature agree byte by byte. A walk is a sum over a sequence, and
  `WalksJoin` and `WalkRepeats` say what walks one after the other take; what is
  used of a parameter set (`Shaped`) is that the layers divide the height and
  bds_k is 0, which makes retain empty.

Behind the others but the first is `ToolInv`, which TLC confirmed on the run first: the file
is, entry by entry, the file of one key (`FileIs`), made of the seeds drawn for it,
whose index counts its signatures until it is wiped and all zeros afterwards; the
signature file holds a signature of some key pair. Torn reads cannot occur
because each field is read where the walk before has put it.

`WotsProofs` proves about `Wots`, for all sets of digests:

* `FitsItsDigestOnlyHolds`: a signature leads to the public key with the digest
  that was signed and with no other, for any w of the code and any length;
* `ChecksumKeptHolds`, `DigestsIncomparableHolds`: if digests have up to 85 bytes
  and 256 is not among the w (`FitsDigits`), the checksum's digits hold the whole
  checksum, and no digest's chains are all at least as long as another's. Finding 4 is the case left out.

The sums over chains are sums over finite sets: they do not depend on the order
(`LoopRules`), and if no term is smaller and one is larger, so is the sum. Two digests with comparable chains would therefore have
checksums in the wrong order.

`XmssCoreProofs` proves about `XmssCore`, for every height and number of layers:

* `TreehashIs`: `treehash` returns the root of its tree and the authentication
  path of the leaf it is given. The invariant of the loop over the leaves is that
  the stack holds the maximal complete subtrees left of the next leaf, in falling
  heights (`Blocks`, `Falling`, `Nodes`), and that of the loop inside it allows
  one pair of equal height at the top;
* `SignatureVerifies`, `SignaturesVerifyHolds`: what a key that is not wiped
  signs, the verifier accepts. It is the previous one layer by layer: the verifier
  arrives at the root that the layer above has signed;
* `ImplementsSignerHolds`: with a spare index, it implements `Signer`.

`HashingProofs` proves about `Hashing`, for every height, number of layers, number
and length of chains, with all the address words and all the calls:

* `TreehashIs`: `treehash` returns the root of its tree and the authentication path
  of the leaf it is given, makes calls of that tree only, and all those that a
  verifier of that tree may repeat;
* `VerifierFindsRootHolds`: the verifier comes to the root in the public key and
  makes no call that the signer has not made;
* `SameWotsHolds`: the one-time signatures that the fast implementation makes ahead
  of time are those of the reference, chain value by chain value;
* `AddressUsedOnceHolds`: no address is used for two things, if the two words of
  a tree number can tell the trees of the lowest layer apart (`TreesFit`). No more
  than 2^55 trees are needed by any parameter set, and the words hold 2^64. The
  other words hold indices and heights, which the model does not cut: they stay far
  below 2^32.

None of the three properties is inductive: they speak of the last signature and of
the log. `HashingInv`, which TLC confirmed on the run first, says what everything
is: `root` the root of the top tree, `stored` the signatures on the roots of the
trees that `idx` stands in (`WotsAt`), the last signature that of `SignatureAt`, and
`log` a set of calls of the trees (`AllCalls`), with those of the trees that signed
in it. Every function has a lemma that says what it returns: the value, the address
array as it leaves it, the calls. What the array is like before is all that counts
between two functions, and most lemmas ask only that layer and tree are set and the
type is right (`InTree`), since that is what the callers see to; where a word is
left from an earlier call, the lemma says that the function sets it before it hashes.
Values are names, so a tree's nodes are defined without any recursion (`NodeValue`:
the seed and address of the call), and two calls with the same address have the same
inputs because the inputs are functions of the address (`Use`). That is what
`AddressUsedOnce` comes to: `OneUse` finds layer, tree and place of a call in the
words of its address. The stack of `treehash` is that of `XmssCore` with values
added, and where the nodes lie is taken from `XmssCoreProofs`, which is
instantiated (`Core`).

`XmssFastProofs` proves about `XmssFast`, for every height and whatever the memory
of the key held before:

* `SignaturesVerifyHolds`: every signature before the last index verifies;
* `StackIsTailNodesHolds`: the stack holds the tail nodes of the running instances
  and nothing else;
* `InBoundsHolds`: no array of a state is left, by a live key or a wiped one;
* `ImplementsSignerHolds`: with a spare index, it implements `Signer`.

The first three are proved under `Suited`: the index field has a spare value, every
bds_k leaves enough updates (`EnoughUpdates`: bds_k is at most 1, or tree_height -
bds_k even; otherwise the halved number of updates is too small, see section 3), and
heights fit a byte and leaf counts an `unsigned int` (`Fits`). The OID tables, which
have heights 10, 16 and 20, four index bytes and bds_k = 0, satisfy it.

The state of a live key at index t is described by `Between`, which has three parts:

* `Traversal`: the instances at work hold disjoint sets of tail nodes, those that
  the bits of `next_idx` say (`InstanceAt`, `TailNodes`); the stack has all of them
  in falling heights (`OnStack`), and one that works at a lower height has none
  below the others' (`Apart`), so that it is always the top that is merged;
* `Sched`: for each instance h at work, the leaves that it and the lower ones still
  need, with what higher ones may take before them (`Load`), are no more than the
  updates until h is due, at the next multiple of 2^(h + 1). Nothing in the run
  says this; without it the others are not inductive;
* `PathAt`: the path of t, the kept nodes and the rows of retain.

`TreeBuilt` shows that `treehash_init` leaves a tree with its root and `Between` at
index 0: one loop over the leaves with one over the merges in it, each of which may
go to the path, to an instance or to retain. `IdleBelow` shows that what `bds_round` reads and
starts anew has finished: when h is due no updates are left, so neither it nor a
lower one can need a leaf. Starting an instance at h adds its 2^h leaves to the loads, which is
where the numbers of updates and of instances meet (`EnoughUpdates`). `Updated`
goes through the cases of `treehash_update`, and `Spent` shows that every update
lowers the load of each instance still at work. `AdvancedIs` puts these together: a signature
takes a tree from t to t + 1. What serialisation cuts is not read again. The theorems
then follow from `FastInv`: live key, `Between` at its index; wiped key, sizes only.

`XmssmtFastProofs` proves about `XmssmtFast`, for every height, number of layers,
bds_k and content of uninitialised memory:

* `OneMessagePerKeyHolds`: no key above the lowest layer signs two roots. By
  `KeysInv` the last key of each layer is the one that the index stands at
  (`KeyAt`), and a swap, which is what signs a root, comes exactly when that moves
  on by one;
* `ImplementsSignerHolds`: with a spare index, it implements `Signer`.

`XmssmtFastProofs` also proves about `Budget`, whose counts are instantiated with
those of `XmssmtFast` (`Spending`), for trees of any height and any number of
layers, if the updates of a call are one or two and there is a layer with a NEXT
tree above those they reach (`GivesOut`; the layer is `Starving` = `updates` + 1):

* `NoFasterThanUsedHolds`: NEXT of that layer has no more leaves than the tree in
  use has used;
* `SwappedInUnfinishedHolds`: so whenever that tree ends and has a successor, the
  successor is not complete.

The argument: layers 1 .. `updates` each take one update for their NEXT tree,
needed or not, or one for a swap. Unless all layers below the starving one end
with this call, that leaves it nothing (`NothingLeft`); if they all end, the
number has wrapped and it gets one leaf, and in the same call its tree in use
advances by one. So both counts move together, and a tree of `Width` leaves, whose
last position is `Width - 1`, is always one leaf short. It is the code of line 956
with the limit tested as it is; the heights and layers of XMSSMT 40/8 and 60/12
are instances (height 5, two updates, starving layer 3 of 8 or 12). Two is not a
bound of the code but of the proof, which goes through the layers one by one.

And the hypertree spends its updates so:

* `ImplementsBudgetHolds`: `XmssmtFast` implements `Budget`, for every height,
  number of layers, bds_k and content of uninitialised memory that satisfies
  `CharFits`;
* `HypertreeStarves`: what the two theorems say of `Budget` is true of its trees.

`CharFits` is what the types of the code ask for. The number of updates is an
`unsigned int`, comes back from `bds_treehash_update` as a `char`, and a swap takes
one from it even at zero. A number that has wrapped survives the `char` only down to
128 below 2^32; below that it would be a different number, and `Budget`, where it is
`Endless`, not a description of the code. It can have wrapped only in the layers above
number U = tree_height >> 1, each of which takes one, and the lowest of those to go on
may take a tree's leaves besides, so U < 128 and either d - 2 <= U or
d - 2 - U + 2^tree_height <= 128 will do. Of the parameter sets of XMSSMT, 40/8 and
60/12 (height 5, U = 2) satisfy it the second way, with 36 and 40, all the others the
first way. The constants of both runs satisfy it.

The refinement maps `pos` to the digits of the index (`EndsAre`, `HasNextIs`,
`LeafNext`: a tree ends when all digits up to its own are the last; a tree is to come
when a digit above is not) and `ready` to `next_leaf` of the NEXT trees. What has to be
shown of a step is one relation per layer between what it finds, what it leaves and
what its NEXT tree gets (`Turn`). `CallInv` is the invariant of the loop over the
layers: below the lowest tree that goes on every layer has taken one update for its
swap, above it the number is the one left in `Budget` or has wrapped by at most so much
(`Counts`, `Wrapped`). The difficult part is the bound of what a tree takes when the
number has wrapped: `Budget` says "any number", the code must stop before the `char`
misreads it. So `TreesInv` says that in a layer above U no instance is at work between
calls. Such a layer is reached with updates only when everything below was swapped, and then
it has enough to finish at once what `bds_round` has started: the instances just
started hold no tail nodes yet, the lowest takes its 2^h leaves before the next begins
(`AtWork`, `Stands`), and together they deliver before 2^tree_height leaves
(`WorkerBound`, `WorkerStep`, `SpentIs`). What is kept of a tree for this is only its
form and which instances are at work, so it holds also of a tree that is no tree, as
the starved ones are.

Only model-checked: that, where updates suffice, the trees of the fast hypertree are
complete when they are swapped in, and so its `SignaturesVerify`; its
`StackContents` and `InBounds`; `SameAnswers`, which rests on them;
`KeypairEnds`, as liveness under fairness is out of the prover's reach.

## 5. What is not modelled

* `fips202.c` and SHA-2: Keccak is third-party code and SHA-2 is OpenSSL's; both
  are cryptographic functions, of which a model could only repeat the definition.
  Hashes are injective symbols. `prf` and `hash_message` are symbols as well: what
  goes into them is modelled, not the padding they put in front.
* The tests, which have no state of their own. The findings quote them.
* Buffers of messages, and reading past the end of a signature file that is
  shorter than a signature.
* The exits of the tools for wrong arguments and files that do not open: nothing
  has been changed by then.
* A key file used with the programs of the other family (OIDs of XMSS and XMSS^MT
  overlap), and `unsigned long` of 32 bits, which would cut the index in
  `xmss_core.c:209`; both are listed as hazards without a property.

What a next step would be: to carry `Between` over to the trees of `XmssmtFast`, where a
tree in use may be given fewer than its updates in a call, because all layers draw on
the same number. `ImplementsBudgetHolds` says how the number goes from layer to layer;
what is missing is that, with enough of it, the loads of the instances (`Sched`) fit
what each layer gets, and that a NEXT tree gets a leaf for each that is used.
`SameAnswers` would follow from it.
