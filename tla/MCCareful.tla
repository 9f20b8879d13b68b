----------------------------- MODULE MCCareful -----------------------------
(***************************************************************************)
(* Constants of CarefulVesting for TLC.                                    *)
(***************************************************************************)
EXTENDS CarefulVesting

CONSTANTS self, alice, tok, fake, ore

AllTokens == Contracts \X Symbols

OneToken == {<<tok, ore>>}

SignedQuantities == {-1, 1, 2}
=============================================================================
