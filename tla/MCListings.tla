----------------------------- MODULE MCListings -----------------------------
(* Small instances of Listings for TLC.                                    *)
EXTENDS Listings, TLC

CONSTANTS p1, q1, q2, f, h1, h2

MCKeys == {q1, q2, f}
MCValues == {{<<p, v[p]>> : p \in S} : S \in SUBSET Properties, v \in [Properties -> Texts]}

(* Move, publish and feature; delist.                                      *)
MCPatches == {[text |-> 1, status |-> "published", featured |-> TRUE],
              [text |-> Keep, status |-> "delisted", featured |-> Keep]}

Symmetry == Permutations(Handlers) \union Permutations(Queries)

(* The second query only adds a key to the order of the store: what it     *)
(* pushes out is explored before listings are written, everything else     *)
(* with one query and the front page.                                      *)
Touched(q) == \/ q \in Present
              \/ \E k \in Keys : q \in since[k]
              \/ \E h \in Handlers : req[h].at \in {"query", "store"} /\ req[h].key = q
Apart == writes > 0 => Cardinality({q \in Queries : Touched(q)}) <= 1
=============================================================================
