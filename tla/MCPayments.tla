----------------------------- MODULE MCPayments -----------------------------
(* Small instances of Payments for TLC.                                    *)
EXTENDS Payments

CONSTANTS l1, l2, landlord, h1, h2

(* Both leases belong to one landlord, so their payments meet in one wallet. *)
MCOwner == [l \in Leases |-> landlord]
MCRent == [l \in Leases |-> 100]
=============================================================================
