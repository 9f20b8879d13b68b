-------------------------------- MODULE Sums --------------------------------
(***************************************************************************)
(* Sums of integer functions, with which the books of the contract are     *)
(* compared.                                                               *)
(***************************************************************************)
EXTENDS Integers

\* f[0] + f[1] + ... + f[n - 1], for f \in [Nat -> Int].
SumTo(f, n) ==
    LET S[i \in Nat] == IF i = 0 THEN 0 ELSE S[i - 1] + f[i - 1]
    IN  S[n]
=============================================================================
