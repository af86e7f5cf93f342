----------------------------- MODULE OneTimeKeys -----------------------------
(***************************************************************************)
(* The one-time keys of a key pair, by their index, and the field that     *)
(* holds the index: what a key in memory (KeyIndex) and a key in its file  *)
(* (SignTool) have in common.                                              *)
(***************************************************************************)
EXTENDS Naturals

CONSTANTS
  Leaves,          \* 1 << full_height, the number of one-time keys
  IndexSpace,      \* 256^index_bytes: what the index field can hold
  FullHeightIs64   \* params->full_height == 64

ASSUME LeavesAssumption == Leaves \in Nat \ {0}

ASSUME ParamsAssumption ==
  /\ IndexSpace \in Nat
  /\ IndexSpace >= Leaves
  /\ FullHeightIs64 \in BOOLEAN

(***************************************************************************)
(* The index field has a value left that says "no key is left": either     *)
(* there is a number beyond the last index, or the special case for height *)
(* 64 gives the last index that meaning.                                   *)
(***************************************************************************)
SpareIndex == IndexSpace > Leaves \/ FullHeightIs64

NoKey == Leaves    \* no signature, or one made from zeroed seeds

IndexField == 0 .. IndexSpace - 1
LastIndex == Leaves - 1

\* The index written back: idx + 1, in index_bytes bytes.
Increment(i) == (i + 1) % IndexSpace

\* The indices at which a call is refused.
Beyond(i) == i > LastIndex \/ (FullHeightIs64 /\ i = LastIndex)
=============================================================================
