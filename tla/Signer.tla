------------------------------- MODULE Signer -------------------------------
(***************************************************************************)
(* What a stateful hash-based signer promises to its caller, whatever the  *)
(* implementation: the one-time keys 0 .. Leaves-1 are used in order, each *)
(* by at most one signature, and once all are gone every call is refused.  *)
(*                                                                         *)
(* The last key is special.  The sources wipe the secret key before they   *)
(* use it (and for height 64 refuse to use it at all), so the call for it  *)
(* may succeed, may report success and leave no usable signature, or may   *)
(* be refused; the promise allows all three.                               *)
(***************************************************************************)
EXTENDS Naturals

CONSTANT Leaves         \* 1 << full_height, the number of one-time keys

VARIABLES
  next,                 \* index of the next one-time key; Leaves when spent
  out                   \* what the last call returned

vars == <<next, out>>

NoKey == Leaves         \* "no one-time key made this output"

Init ==
  /\ next = 0
  /\ out = [ret |-> "none", key |-> NoKey]

Sign ==
  /\ next < Leaves - 1
  /\ next' = next + 1
  /\ out' = [ret |-> "ok", key |-> next]

SignLast ==
  /\ next = Leaves - 1
  /\ next' = Leaves
  /\ \/ \E k \in {next, NoKey} : out' = [ret |-> "ok", key |-> k]
     \/ out' = [ret |-> "spent", key |-> NoKey]

Refuse ==
  /\ next = Leaves
  /\ out' = [ret |-> "spent", key |-> NoKey]
  /\ UNCHANGED next

Next == Sign \/ SignLast \/ Refuse

Spec == Init /\ [][Next]_vars
=============================================================================
