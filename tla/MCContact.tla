----------------------------- MODULE MCContact -----------------------------
(* Small instances of Contact for TLC.                                     *)
EXTENDS Contact, TLC

CONSTANTS landlord, r1, r2, h1, h2

(* A thread about the property with somebody, or one with the assistant.   *)
MCAsks == {<<TRUE, TRUE>>, <<FALSE, FALSE>>}

MCNoAsks == {}

Symmetry == Permutations(Users \ {Landlord}) \union Permutations(Handlers)

(* Tours and threads share no row, and a message only touches the row of   *)
(* its own thread: a behaviour with several of them is an interleaving of  *)
(* behaviours with one, and every property reads one.  TLC therefore       *)
(* explores tours, or threads being opened, or the messages of one thread, *)
(* and lets one person beside the landlord have properties.                *)
Apart ==
  /\ (\A t \in Tours : visitor[t] = Nobody) \/ (\A t \in Threads : ~ exists[t])
  /\ Cardinality({u \in Users : role[u] # "renter"}) <= 2
  /\ tickets = 0 \/ Cardinality({t \in Threads : exists[t]}) <= 1
=============================================================================
