------------------------------ MODULE KeyIndex ------------------------------
(***************************************************************************)
(* The index field of the secret key, as the sign functions of the two     *)
(* implementations (xmss_core.c and xmss_core_fast.c) keep it: read, check *)
(* against the number of one-time keys, wipe the key when the last one is  *)
(* reached, write idx + 1 back in index_bytes bytes.                       *)
(*                                                                         *)
(* Trees, hashes and messages are left out: a signature is genuine when    *)
(* the seeds it was computed from had not been zeroed.                     *)
(***************************************************************************)
EXTENDS OneTimeKeys

VARIABLES
  idx,   \* the index bytes at the head of sk
  live,  \* FALSE once the rest of sk has been overwritten with zeros
  out,   \* the last call: its return code and the key of its signature
  uses   \* history: how many genuine signatures each one-time key has made

keyVars == <<idx, live, out, uses>>

LeafIndex == 0 .. Leaves - 1

Outcome == [ret : {"none", "ok", "spent"}, key : 0 .. Leaves]

(***************************************************************************)
(* Index, key and history stay in their types, and as long as the seeds    *)
(* are there the index is that of a one-time key: the wipe comes with the  *)
(* last of them and not one call later.                                    *)
(***************************************************************************)
KeyTypeOK ==
  /\ idx \in IndexField
  /\ live \in BOOLEAN
  /\ live => idx \in LeafIndex
  /\ out \in Outcome
  /\ uses \in [LeafIndex -> Nat]

-----------------------------------------------------------------------------

\* A fresh key: index zero, random seeds.
KeyInit ==
  /\ idx = 0
  /\ live = TRUE
  /\ out = [ret |-> "none", key |-> NoKey]
  /\ uses = [i \in LeafIndex |-> 0]

\* The one-time key at idx makes the signature, if the seeds are still there.
Emit ==
  /\ out' = [ret |-> "ok", key |-> IF live THEN idx ELSE NoKey]
  /\ uses' = IF live THEN [uses EXCEPT ![idx] = @ + 1] ELSE uses

\* Mutant: the index is not advanced.
SignStuck ==
  /\ idx < LastIndex
  /\ Emit
  /\ UNCHANGED <<idx, live>>

\* A call below the last index: advance the index, then sign.
Sign ==
  /\ idx < LastIndex
  /\ idx' = Increment(idx)
  /\ Emit
  /\ UNCHANGED live

\* Mutant: the wipe is there, the write of idx + 1 after it is not.
SignLastStuck ==
  /\ idx = LastIndex
  /\ ~ FullHeightIs64
  /\ live' = FALSE
  /\ out' = [ret |-> "ok", key |-> NoKey]
  /\ UNCHANGED <<idx, uses>>

\* Mutant: the wipe is left to the call after the last, idx > where it is >=.
SignLastUnwiped ==
  /\ idx = LastIndex
  /\ ~ FullHeightIs64
  /\ idx' = Increment(idx)
  /\ Emit
  /\ UNCHANGED live

(***************************************************************************)
(* The call at the last index: 0xFF into the index, zeros into the rest,   *)
(* then the call continues with what is left of sk and writes idx + 1 over *)
(* the 0xFF bytes.                                                         *)
(***************************************************************************)
SignLast ==
  /\ idx = LastIndex
  /\ ~ FullHeightIs64
  /\ live' = FALSE
  /\ idx' = Increment(idx)
  /\ out' = [ret |-> "ok", key |-> NoKey]
  /\ UNCHANGED uses

Finished == Beyond(idx)

\* Mutant: the index bytes are cleared like the rest of sk.
RefuseClearing ==
  /\ Finished
  /\ idx' = 0
  /\ live' = FALSE
  /\ out' = [ret |-> "spent", key |-> NoKey]
  /\ UNCHANGED uses

\* Beyond the last index: wipe (again) and return -2.
Refuse ==
  /\ Finished
  /\ idx' = IndexSpace - 1
  /\ live' = FALSE
  /\ out' = [ret |-> "spent", key |-> NoKey]
  /\ UNCHANGED uses

KeyNext == Sign \/ SignLast \/ Refuse

KeySpec == KeyInit /\ [][KeyNext]_keyVars

-----------------------------------------------------------------------------

(***************************************************************************)
(* No one-time key makes two genuine signatures, whatever the width of the *)
(* index field: the safety of the whole scheme rests on it, and idx is     *)
(* advanced or the seeds are gone on every path that returns 0.            *)
(***************************************************************************)
OneTimeUse == \A i \in LeafIndex : uses[i] <= 1

(***************************************************************************)
(* A key whose seeds are gone is recognised as spent by the next call: it  *)
(* never again answers "ok".  The index field alone has to carry that      *)
(* fact; that the seeds are zero is not looked at.                         *)
(***************************************************************************)
WipedIsSpent == ~ live => Finished

\* A refusal (-2) is final: no later call succeeds.
RefusalIsFinal == [][out.ret = "spent" => out'.ret = "spent"]_keyVars

-----------------------------------------------------------------------------

\* The promise of Signer: the index counts the keys used, the rest is spent.
Promise == INSTANCE Signer WITH next <- IF live THEN idx ELSE Leaves

(***************************************************************************)
(* The index bookkeeping implements what a signer promises: keys in order, *)
(* none twice, refusals for ever after the last.                           *)
(***************************************************************************)
ImplementsSigner == Promise!Spec
=============================================================================
