--------------------------- MODULE MCPublication ---------------------------
(* Three postings, regrouped, requalified and reordered at will; other        *)
(* processes may change b while a publication runs.                           *)
EXTENDS Publication, TLC

CONSTANTS a, b, c, oa, ob, oc, p1, p2

JobIds == (a :> 1) @@ (b :> 2) @@ (c :> 3)

Symmetry == Permutations(Publishers) \cup Permutations(Opportunities)

=============================================================================
