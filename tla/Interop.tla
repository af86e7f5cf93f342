------------------------------ MODULE Interop ------------------------------
(***************************************************************************)
(* The two implementations side by side: the same seeds, the same calls.   *)
(* xmss_core.c and xmss_core_fast.c are alternatives behind one header, so *)
(* apart from the layout of the secret key a caller should not be able to  *)
(* tell which of them a program was linked with.  The reference is the one *)
(* extended, so its own properties are checked along with the comparison.  *)
(***************************************************************************)
EXTENDS XmssCore

CONSTANTS
  UINT_SPACE,   \* what an unsigned int can hold
  BdsKs,        \* the values of bds_k for the fast implementation
  Garbage       \* numbers that uninitialised memory may hold

VARIABLES
  fastParams,   \* the parameter set of the fast implementation
  fastSk,       \* its secret key
  fastOut,      \* what its last call returned
  fastOts       \* its history of one-time keys

Fast == INSTANCE XmssmtFast WITH
  params <- fastParams, sk <- fastSk, out <- fastOut, ots <- fastOts

bothVars == <<vars, fastParams, fastSk, fastOut, fastOts>>

BothInit == Init /\ Fast!Init

SignBoth     == Sign /\ Fast!Sign
SignLastBoth == SignLast /\ Fast!SignLast
RefuseBoth   == Refuse /\ Fast!Refuse

BothNext == SignBoth \/ SignLastBoth \/ RefuseBoth

BothSpec == BothInit /\ [][BothNext]_bothVars

(***************************************************************************)
(* Both give the same public key and the same signatures, byte for byte,   *)
(* as long as the key has not been wiped, and always the same return code: *)
(* what the fast one carries over from call to call is what the reference  *)
(* computes afresh.                                                        *)
(***************************************************************************)
SameAnswers ==
  /\ sk.root = fastSk.root
  /\ out.ret = fastOut.ret
  /\ sk.seed = RealSeed => out.sm = fastOut.sm
=============================================================================
