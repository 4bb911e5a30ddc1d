------------------------------- MODULE MCChat -------------------------------
(* A small instance of Chat for TLC.                                       *)
EXTENDS Chat

\* A page of the landlord, small talk, and requests with and without a date.
MCTexts == {[page |-> "landlord", talk |-> FALSE, dated |-> FALSE],
            [page |-> NoPage, talk |-> TRUE, dated |-> FALSE],
            [page |-> NoPage, talk |-> FALSE, dated |-> FALSE],
            [page |-> NoPage, talk |-> FALSE, dated |-> TRUE]}
=============================================================================
