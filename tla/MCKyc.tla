------------------------------- MODULE MCKyc -------------------------------
(* Small instances of Kyc for TLC.                                         *)
EXTENDS Kyc, TLC

CONSTANTS u1, u2, h1, h2, h3

Symmetry == Permutations(Users) \union Permutations(Handlers)
=============================================================================
