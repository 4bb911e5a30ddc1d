------------------------------ MODULE MCTenancy ------------------------------
(* Small instances of Tenancy for TLC.                                     *)
EXTENDS Tenancy, TLC

CONSTANTS r1, r2, p1, h1, h2

(* Requests in flight are interchangeable, and so are renters.             *)
Symmetry == Permutations(Handlers) \cup Permutations(Renters)
=============================================================================
