----------------------------- MODULE MCVesting -----------------------------
(***************************************************************************)
(* Constants of Vesting for TLC.                                           *)
(***************************************************************************)
EXTENDS Vesting

CONSTANTS self, alice, tok, ore

AllTokens == Contracts \X Symbols

SignedQuantities == {-1, 1, 2}
=============================================================================
